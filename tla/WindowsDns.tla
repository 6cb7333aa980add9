----------------------------- MODULE WindowsDns ------------------------------
(***************************************************************************)
(* The system resolver on Windows: SetSystemDNS and RestoreSystemDNS of    *)
(* pkg/dns/system_windows.go within tunEngine.Start and Stop               *)
(* (cmd/gecit/app/run_tun.go), and the DNS part of `gecit cleanup`         *)
(* (cmd/gecit/app/cleanup_windows.go).  Unlike macOS, the interface is     *)
(* looked up in every run: the user may have gone from one to another      *)
(* between a crash and the next run.                                       *)
(*                                                                         *)
(* Of a list of servers only the first is modelled, the one getCurrentDNS  *)
(* keeps.                                                                  *)
(***************************************************************************)
CONSTANTS
    Iface,       \* network interfaces
    NoIface,     \* none is connected
    Ethernet,    \* the interface named "Ethernet", there or not
    Server,      \* addresses of name servers
    Loopback,    \* 127.0.0.1
    Dhcp,        \* the server is left to DHCP
    NoLease,     \* DHCP gives no server
    Lease,       \* the server DHCP gives an interface
    NoFile,      \* there is no breadcrumb
    Torn         \* the breadcrumb is empty

ASSUME WindowsAssumption ==
    /\ NoIface \notin Iface
    /\ Loopback \notin Server /\ Dhcp \notin Server /\ NoLease \notin Server
    /\ Loopback # Dhcp /\ Loopback # NoLease /\ Dhcp # NoLease
    /\ Lease \in [Iface -> Server \cup {NoLease}]

UserConfig == Server \cup {Dhcp}
Config     == UserConfig \cup {Loopback}

\* The two lines of the breadcrumb.
Breadcrumb == [prev : UserConfig, iface : Iface]

ASSUME NoBreadcrumbAssumption ==
    NoFile \notin Breadcrumb /\ Torn \notin Breadcrumb /\ Torn # NoFile

VARIABLES
    dns,      \* the configuration of each interface
    up,       \* the first connected interface
    crumb,    \* the breadcrumb
    iface,    \* savedInterface
    pc,       \* where the process is
    orig,     \* what the user configured (history)
    faults    \* what went wrong since (history)

vars == <<dns, up, crumb, iface, pc, orig, faults>>

Faults == {"crash",    \* a process was killed
           "failed",   \* netsh or an access to the breadcrumb failed
           "stale"}    \* the breadcrumb is older than the user's configuration

PCs == {"off", "detect", "restoreFirst", "save", "saveWrite", "set", "start",
        "run", "restore", "remove", "dnsStop"}

TypeOK ==
    /\ dns \in [Iface -> Config]
    /\ up \in Iface \cup {NoIface}
    /\ crumb \in Breadcrumb \cup {NoFile, Torn}
    /\ iface \in Iface \cup {NoIface}
    /\ pc \in PCs
    /\ pc \notin {"off", "detect", "dnsStop"} => iface \in Iface
    /\ orig \in [Iface -> UserConfig]
    /\ faults \subseteq Faults

Init ==
    /\ dns \in [Iface -> UserConfig]
    /\ orig = dns
    /\ up \in Iface \cup {NoIface}
    /\ crumb = NoFile
    /\ iface = NoIface
    /\ pc = "off"
    /\ faults = {}

-----------------------------------------------------------------------------

\* The server interface i asks when it is configured as c.
Asked(i, c) == IF c = Dhcp THEN Lease[i] ELSE c

\* getCurrentDNS: `netsh show dns` lists a server DHCP gave like any other, and
\* 127.0.0.1 is passed over.
getCurrentDNS(i) == IF Asked(i, dns[i]) \in Server THEN Asked(i, dns[i]) ELSE Dhcp

\* netsh interface ip set dns: an interface that is not there changes nothing.
SetDns(i, c) == dns' = IF i \in Iface THEN [dns EXCEPT ![i] = c] ELSE dns

Failed == faults' = faults \cup {"failed"}

-----------------------------------------------------------------------------
(* tunEngine.Start *)

\* The DNS server is started.
Start ==
    /\ pc = "off"
    /\ pc' = "detect"
    /\ iface' = NoIface
    /\ UNCHANGED <<dns, up, crumb, orig, faults>>

\* detectWindowsInterface; without an interface, or when netsh fails, Start fails.
Detect ==
    /\ pc = "detect"
    /\ \/ up # NoIface /\ iface' = up /\ pc' = "restoreFirst"
       \/ iface' = iface /\ pc' = "dnsStop"
    /\ UNCHANGED <<dns, up, crumb, orig, faults>>

\* The breadcrumb of a killed run is overwritten without a look.
RestoreFirstSkipped ==
    /\ pc = "restoreFirst"
    /\ pc' = "save"
    /\ UNCHANGED <<dns, up, crumb, iface, orig, faults>>

\* The interface of this run is restored, not the one of the killed run.
RestoreFirstPresent ==
    /\ pc = "restoreFirst"
    /\ dns' = IF crumb \in Breadcrumb THEN [dns EXCEPT ![iface] = crumb.prev] ELSE dns
    /\ pc' = "save"
    /\ UNCHANGED <<up, crumb, iface, orig, faults>>

\* The breadcrumb of a run that was killed: its interface, not the present one.
RestoreFirst ==
    /\ pc = "restoreFirst"
    /\ \/ crumb \in Breadcrumb /\ SetDns(crumb.iface, crumb.prev) /\ faults' = faults
       \/ crumb \in Breadcrumb /\ dns' = dns /\ Failed
       \/ crumb \notin Breadcrumb /\ UNCHANGED <<dns, faults>>
    /\ pc' = "save"
    /\ UNCHANGED <<up, crumb, iface, orig>>

\* os.WriteFile truncates the file; its error is ignored.
Save ==
    /\ pc = "save"
    /\ \/ crumb' = Torn /\ pc' = "saveWrite" /\ faults' = faults
       \/ crumb' = crumb /\ pc' = "set" /\ Failed
    /\ UNCHANGED <<dns, up, iface, orig>>

\* ... and writes what getCurrentDNS gave, "dhcp" if netsh failed.
SaveWrite ==
    /\ pc = "saveWrite"
    /\ \/ crumb' = [prev |-> getCurrentDNS(iface), iface |-> iface] /\ faults' = faults
       \/ crumb' \in {[prev |-> Dhcp, iface |-> iface], crumb} /\ Failed
    /\ pc' = "set"
    /\ UNCHANGED <<dns, up, iface, orig>>

\* netsh set dns static 127.0.0.1; an error ends Start and leaves the breadcrumb.
Set ==
    /\ pc = "set"
    /\ \/ SetDns(iface, Loopback) /\ pc' = "start" /\ faults' = faults
       \/ dns' = dns /\ pc' = "dnsStop" /\ Failed
    /\ UNCHANGED <<up, crumb, iface, orig>>

\* mgr.Start: on an error RestoreSystemDNS follows.
MgrStart ==
    /\ pc = "start"
    /\ pc' \in {"run", "restore"}
    /\ UNCHANGED <<dns, up, crumb, iface, orig, faults>>

-----------------------------------------------------------------------------
(* tunEngine.Stop *)

\* A signal: mgr.Stop, then RestoreSystemDNS.
Stop ==
    /\ pc = "run"
    /\ pc' = "restore"
    /\ UNCHANGED <<dns, up, crumb, iface, orig, faults>>

\* The interface that is connected now is restored.
RestoreConnected ==
    /\ pc = "restore"
    /\ SetDns(up, IF crumb \in Breadcrumb THEN crumb.prev ELSE Dhcp)
    /\ pc' = "remove"
    /\ UNCHANGED <<up, crumb, iface, orig, faults>>

\* RestoreSystemDNS: what the breadcrumb says, or DHCP for the interface of this
\* run without one; netsh's error is ignored.
Restore ==
    /\ pc = "restore"
    /\ \/ crumb \in Breadcrumb /\ SetDns(crumb.iface, crumb.prev) /\ faults' = faults
       \/ crumb \notin Breadcrumb /\ SetDns(iface, Dhcp) /\ faults' = faults
       \/ dns' = dns /\ Failed
    /\ pc' = "remove"
    /\ UNCHANGED <<up, crumb, iface, orig>>

\* os.Remove of the breadcrumb, its error ignored.
Remove ==
    /\ pc = "remove"
    /\ \/ crumb' = NoFile /\ faults' = faults
       \/ crumb' = crumb /\ Failed
    /\ pc' = "dnsStop"
    /\ UNCHANGED <<dns, up, iface, orig>>

\* dns.Stop, and the process ends.
DnsStop ==
    /\ pc = "dnsStop"
    /\ pc' = "off"
    /\ UNCHANGED <<dns, up, crumb, iface, orig, faults>>

-----------------------------------------------------------------------------

\* The process is killed; an empty breadcrumb is counted as a failed access.
Crash ==
    /\ pc # "off"
    /\ pc' = "off"
    /\ faults' = faults \cup {IF pc = "saveWrite" THEN "failed" ELSE "crash"}
    /\ UNCHANGED <<dns, up, crumb, iface, orig>>

\* The second line is not used.
platformCleanupEthernet ==
    /\ pc = "off"
    /\ crumb # NoFile
    /\ SetDns(Ethernet, IF crumb \in Breadcrumb THEN crumb.prev ELSE Dhcp)
    /\ crumb' = NoFile
    /\ UNCHANGED <<up, iface, pc, orig, faults>>

\* `gecit cleanup` when gecit is not running: what the breadcrumb says, or DHCP
\* for "Ethernet" if it is empty; the errors of netsh are ignored.
platformCleanup ==
    /\ pc = "off"
    /\ crumb # NoFile
    /\ \/ crumb \in Breadcrumb /\ SetDns(crumb.iface, crumb.prev) /\ faults' = faults
       \/ crumb = Torn /\ SetDns(Ethernet, Dhcp) /\ Failed
       \/ dns' = dns /\ Failed
    /\ crumb' = NoFile
    /\ UNCHANGED <<up, iface, pc, orig>>

\* A cable is plugged in or pulled, at any time.
Switch ==
    /\ up' \in (Iface \cup {NoIface}) \ {up}
    /\ UNCHANGED <<dns, crumb, iface, pc, orig, faults>>

\* The user configures an interface while gecit is not running, maybe after a
\* crash that left a breadcrumb.
UserSets(i, c) ==
    /\ pc = "off"
    /\ dns' = [dns EXCEPT ![i] = c]
    /\ orig' = [orig EXCEPT ![i] = c]
    /\ faults' = IF crumb = NoFile THEN faults ELSE faults \cup {"stale"}
    /\ UNCHANGED <<up, crumb, iface, pc>>

Next ==
    \/ Start \/ Detect \/ RestoreFirst \/ Save \/ SaveWrite \/ Set \/ MgrStart
    \/ Stop \/ Restore \/ Remove \/ DnsStop
    \/ Crash \/ platformCleanup \/ Switch
    \/ \E i \in Iface, c \in UserConfig : UserSets(i, c)

Spec == Init /\ [][Next]_vars

-----------------------------------------------------------------------------
(* Properties *)

\* Interface i asks the server it asked before gecit.
Own(i, c) == Asked(i, c) = Asked(i, orig[i])

\* The breadcrumb names i, and what to set it to.
Known(i) == crumb \in Breadcrumb /\ crumb.iface = i

\* system_windows.go:22-38: an interface that is pointed at 127.0.0.1 is the one
\* the breadcrumb names, whatever was killed when, whichever interface was
\* connected in the runs since and whatever the user configured: neither a run
\* nor `gecit cleanup` forgets an interface, unless netsh or the file failed.
NoneForgotten ==
    "failed" \notin faults =>
        \A i \in Iface : dns[i] = Loopback => Known(i)

\* system_windows.go:15-96, cleanup_windows.go:27-45: every interface asks the
\* user's first server, or 127.0.0.1 and the breadcrumb gives that server back,
\* across crashes, reruns and cleanups.
FirstServerKept ==
    faults \subseteq {"crash"} =>
        \A i \in Iface :
            \/ Own(i, dns[i])
            \/ dns[i] = Loopback /\ Known(i) /\ Own(i, crumb.prev)

\* run_tun.go:41-77: a run that was not killed leaves no breadcrumb and no
\* interface at 127.0.0.1, though the connected interface changed meanwhile.
RunRestores ==
    faults = {} /\ pc = "off" =>
        crumb = NoFile /\ \A i \in Iface : Own(i, dns[i])

\* system_windows.go:22-38, cleanup_windows.go:27-45: after a kill, one `gecit
\* cleanup`, or the restore at the start of one more run, whichever interface is
\* connected then, gives every interface its first server back.
RecoveredAtOnce ==
    [][(platformCleanup \/ RestoreFirst) /\ faults' \subseteq {"crash"} =>
           \A i \in Iface : Own(i, dns'[i])]_vars
=============================================================================
