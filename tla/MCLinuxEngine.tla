---------------------------- MODULE MCLinuxEngine ----------------------------
(* LinuxEngine with two processes and files with no, one and two nameservers. *)
EXTENDS LinuxEngine
CONSTANTS s1, s2, search
MCConfs == {[ns |-> n, saved |-> {}, other |-> o] :
                n \in {{}, {s1}, {s1, s2}}, o \in {{}, {search}}}
=============================================================================
