---------------------------- MODULE MCWindowsDns -----------------------------
(* WindowsDns for two interfaces, one of which gets a server from DHCP. *)
EXTENDS WindowsDns, TLC
CONSTANTS wifi, s1, s2
MCIface == {Ethernet, wifi}
MCLease == Ethernet :> NoLease @@ wifi :> s1
=============================================================================
