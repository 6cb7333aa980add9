----------------------------- MODULE ResolvConf ------------------------------
(***************************************************************************)
(* What pkg/dns/system_linux.go does to the text of /etc/resolv.conf.      *)
(* SetSystemDNS and RestoreSystemDNS treat every line on its own and keep  *)
(* the order of the lines, so a file is abstracted to the sets of its      *)
(* lines: live nameservers, nameservers commented out with the             *)
(* "# gecit-saved: " prefix, and lines that are neither.  Blank lines and  *)
(* gecit's marker line, which both functions drop, are left out.           *)
(***************************************************************************)
EXTENDS Naturals

CONSTANTS
    Server,      \* nameserver lines a user or a DHCP client writes
    Other,       \* other lines: search, options, comments
    Loopback,    \* "nameserver 127.0.0.1"
    Fallback     \* "nameserver 8.8.8.8"

ASSUME ServerAssumption == Loopback \notin Server /\ Loopback # Fallback

Ns == Server \cup {Loopback, Fallback}

Conf == [ns : SUBSET Ns, saved : SUBSET Ns, other : SUBSET Other]

\* A file as os.WriteFile leaves it between truncating and writing it.
EmptyConf == [ns |-> {}, saved |-> {}, other |-> {}]

\* Nameserver lines are replaced and not saved.
SetConfDropsServers(f) == [ns |-> {Loopback}, saved |-> {}, other |-> f.other]

\* SetSystemDNS: 127.0.0.1 becomes the only live nameserver, live nameservers
\* become saved ones, and every "# gecit" line, saved ones included, is dropped.
SetConf(f) == [ns |-> {Loopback}, saved |-> f.ns, other |-> f.other]

\* The file RestoreSystemDNS writes when no line is left.
FallbackConf == [ns |-> {Fallback}, saved |-> {}, other |-> {}]

\* A restore that leaves 127.0.0.1 among the nameservers.
RestoreConfKeepsLoopback(f) ==
    [ns |-> f.saved \cup f.ns, saved |-> {}, other |-> f.other]

\* RestoreSystemDNS: saved lines come back, 127.0.0.1 and marker lines go, and
\* a file without a line gets the fallback server.
RestoreConf(f) ==
    LET ns == f.saved \cup (f.ns \ {Loopback})
    IN  IF ns = {} /\ f.other = {}
        THEN FallbackConf
        ELSE [ns |-> ns, saved |-> {}, other |-> f.other]
=============================================================================
