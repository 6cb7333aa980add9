---------------------------- MODULE MCEbpfManager ----------------------------
(* EbpfManager with a web connection and connections to a DoH upstream over  *)
(* IPv4 and IPv6.  The web and the IPv6 one compete for the ring's one slot  *)
(* and the map's one entry.                                                  *)
EXTENDS EbpfManager, TLC
CONSTANTS c1, doh, doh6, web, upstream, upstream6, https
MCConn == {c1, doh, doh6}
MCPort == {https}
MCIp == {web, upstream, upstream6}
MCMaxSent == [c \in Conn |-> IF c = c1 THEN 5 ELSE 0]
MCDstPort == [c \in Conn |-> https]
MCDstIp == [c \in Conn |-> CASE c = doh -> upstream [] c = doh6 -> upstream6 [] OTHER -> web]
=============================================================================
