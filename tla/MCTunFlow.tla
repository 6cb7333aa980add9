----------------------------- MODULE MCTunFlow -------------------------------
(* TunFlow with a TLS connection, one to another port and one of the DoH     *)
(* client over IPv6 on two local ports, so that ports are reused by the      *)
(* connections of a family and shared by those of two.                       *)
EXTENDS TunFlow
=============================================================================
