---------------------------- MODULE MCDarwinEngine ---------------------------
(* DarwinEngine for users with DHCP, one server and two servers. *)
EXTENDS DarwinEngine
CONSTANTS s1, s2
MCUserDns == {<<>>, <<s1>>, <<s2>>, <<s1, s2>>}
OneServer == {<<s1>>}
=============================================================================
