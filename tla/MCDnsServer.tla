---------------------------- MODULE MCDnsServer ------------------------------
(* DnsServer with an upstream after two that are given by name. *)
EXTENDS DnsServer
CONSTANTS u1, u2, u3
MCUpstreams == <<u1, u2, u3>>
=============================================================================
