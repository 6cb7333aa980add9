---------------------------- MODULE DarwinEngine -----------------------------
(***************************************************************************)
(* The system resolver on macOS: SetSystemDNS and RestoreSystemDNS of      *)
(* pkg/dns/system_darwin.go within tunEngine.Start and Stop                *)
(* (cmd/gecit/app/run_tun.go), and `gecit cleanup`                         *)
(* (cmd/gecit/app/cleanup_darwin.go).  The servers in use are kept in the  *)
(* breadcrumb file, which a killed process leaves behind.                  *)
(*                                                                         *)
(* Port 53 admits one process at a time (module LinuxEngine checks that    *)
(* guard), so one process is modelled, started again and again.            *)
(***************************************************************************)
EXTENDS Naturals, Sequences

CONSTANTS
    Server,     \* addresses of name servers
    Loopback,   \* 127.0.0.1
    Empty,      \* the word "empty": DHCP
    Svc,        \* the network service, "Wi-Fi"
    NoFile,     \* there is no breadcrumb
    UserDns     \* server lists a user configures; <<>> is DHCP

ASSUME DarwinAssumption ==
    /\ Loopback \notin Server
    /\ {Empty, Svc} \cap (Server \cup {Loopback}) = {}
    /\ Empty # Svc
    /\ UserDns \subseteq Seq(Server)
    /\ NoFile \notin Seq(Server \cup {Loopback, Empty, Svc})

Address == Server \cup {Loopback}
Token   == Address \cup {Empty, Svc}

VARIABLES
    dns,      \* what networksetup has for the service
    crumb,    \* words of the breadcrumb file, one server a line, or NoFile
    saved,    \* savedDNS
    pc,       \* where the process is
    cleaned,  \* `gecit cleanup` ran and nothing since (history)
    orig,     \* what the user configured (history)
    faults    \* what went wrong since (history)

vars == <<dns, crumb, saved, pc, cleaned, orig, faults>>

Faults == {"crash",    \* a process was killed
           "rerun",    \* SetSystemDNS ran after that
           "failed",   \* a command or an access to the breadcrumb failed
           "stale"}    \* the breadcrumb is older than the user's configuration

PCs == {"off", "restoreFirst", "save", "saveWrite", "set", "start", "run",
        "restore", "remove", "dnsStop"}

\* The DNS server of this process listens on 127.0.0.1:53.
Serving == pc # "off"

TypeOK ==
    /\ dns \in Seq(Address)
    /\ crumb = NoFile \/ crumb = <<>> \/ (crumb \in Seq(Token) /\ Len(crumb) >= 2)
    /\ saved \in Seq(Address)
    /\ pc \in PCs
    /\ cleaned \in BOOLEAN
    /\ orig \in UserDns
    /\ faults \subseteq Faults

Init ==
    /\ dns \in UserDns
    /\ orig = dns
    /\ crumb = NoFile
    /\ saved = <<>>
    /\ pc = "off"
    /\ cleaned = FALSE
    /\ faults = {}

-----------------------------------------------------------------------------

\* `networksetup -setdnsservers svc args`: a list with a word that is no
\* address is refused and changes nothing; what follows the word "empty" may
\* be refused or ignored.
NetworkSetup(args) ==
    IF args = <<Empty>> THEN {<<>>}
    ELSE IF args # <<>> /\ \A i \in 1..Len(args) : args[i] \in Address THEN {args}
    ELSE IF args # <<>> /\ args[1] = Empty THEN {<<>>, dns}
    ELSE {dns}

\* How a list of servers is given to networksetup.
ServerArgs(s) == IF s = <<>> THEN <<Empty>> ELSE s

\* The service is not written to the breadcrumb.
BreadcrumbNoService(s) == ServerArgs(s)

\* What SetSystemDNS writes to the breadcrumb: the servers, one a line, or
\* "empty", and the service.
Breadcrumb(s) == ServerArgs(s) \o <<Svc>>

\* tunEngine.Start: mDNSResponder is stopped and the DNS server started.
Start ==
    /\ pc = "off"
    /\ pc' = "restoreFirst"
    /\ saved' = <<>>
    /\ cleaned' = FALSE
    /\ UNCHANGED <<dns, crumb, orig, faults>>

\* SetSystemDNS with a breadcrumb: every word of the file is passed on, the
\* service's name too.  (The comparison with "127.0.0.1" never succeeds
\* because of that name.)
RestoreFirst ==
    /\ pc = "restoreFirst"
    /\ dns' \in IF crumb \in {NoFile, <<>>} THEN {dns} ELSE NetworkSetup(crumb)
    /\ pc' = "save"
    /\ faults' = IF "crash" \in faults THEN faults \cup {"rerun"} ELSE faults
    /\ UNCHANGED <<crumb, saved, cleaned, orig>>

\* getdnsservers and the breadcrumb; no error of theirs ends the run.
Save ==
    /\ pc = "save"
    /\ \/ /\ saved' = dns
          /\ crumb' = <<>>                  \* os.WriteFile truncates the file
          /\ pc' = "saveWrite"
          /\ faults' = faults
       \/ /\ saved' \in {saved, dns}        \* getdnsservers or the open failed
          /\ crumb' = crumb
          /\ pc' = "set"
          /\ faults' = faults \cup {"failed"}
    /\ UNCHANGED <<dns, cleaned, orig>>

SaveWrite ==
    /\ pc = "saveWrite"
    /\ \/ crumb' = Breadcrumb(saved) /\ faults' = faults
       \/ crumb' = crumb /\ faults' = faults \cup {"failed"}
    /\ pc' = "set"
    /\ UNCHANGED <<dns, saved, cleaned, orig>>

\* setdnsservers 127.0.0.1; an error ends Start and leaves the breadcrumb.
Set ==
    /\ pc = "set"
    /\ \/ dns' = <<Loopback>> /\ pc' = "start" /\ faults' = faults
       \/ dns' = dns /\ pc' = "dnsStop" /\ faults' = faults \cup {"failed"}
    /\ UNCHANGED <<crumb, saved, cleaned, orig>>

\* An error of mgr.Start is returned and the resolver left alone.
MgrStartNoRestore ==
    /\ pc = "start"
    /\ pc' \in {"run", "dnsStop"}
    /\ UNCHANGED <<dns, crumb, saved, cleaned, orig, faults>>

\* mgr.Start: on an error RestoreSystemDNS follows.
MgrStart ==
    /\ pc = "start"
    /\ pc' \in {"run", "restore"}
    /\ UNCHANGED <<dns, crumb, saved, cleaned, orig, faults>>

\* A signal: mgr.Stop (module TunFlow), then RestoreSystemDNS.
Stop ==
    /\ pc = "run"
    /\ pc' = "restore"
    /\ UNCHANGED <<dns, crumb, saved, cleaned, orig, faults>>

\* DHCP whatever was configured before.
RestoreToDhcp ==
    /\ pc = "restore"
    /\ dns' = <<>>
    /\ faults' = faults
    /\ pc' = "remove"
    /\ UNCHANGED <<crumb, saved, cleaned, orig>>

\* RestoreSystemDNS: setdnsservers with the saved servers, its error ignored.
Restore ==
    /\ pc = "restore"
    /\ \/ dns' \in NetworkSetup(ServerArgs(saved)) /\ faults' = faults
       \/ dns' = dns /\ faults' = faults \cup {"failed"}
    /\ pc' = "remove"
    /\ UNCHANGED <<crumb, saved, cleaned, orig>>

\* os.Remove of the breadcrumb, its error ignored.
Remove ==
    /\ pc = "remove"
    /\ \/ crumb' = NoFile /\ faults' = faults
       \/ crumb' = crumb /\ faults' = faults \cup {"failed"}
    /\ pc' = "dnsStop"
    /\ UNCHANGED <<dns, saved, cleaned, orig>>

\* dns.Stop, and the process ends.
DnsStop ==
    /\ pc = "dnsStop"
    /\ pc' = "off"
    /\ UNCHANGED <<dns, crumb, saved, cleaned, orig, faults>>

-----------------------------------------------------------------------------

\* SIGKILL, a panic (module TunFlow), or a signal during Start.
Crash ==
    /\ pc # "off"
    /\ pc' = "off"
    /\ faults' = faults \cup
         CASE pc = "saveWrite" -> {"failed"}
           [] pc \in {"restoreFirst", "save", "dnsStop"} -> {}
           [] OTHER -> {"crash"}
    /\ UNCHANGED <<dns, crumb, saved, cleaned, orig>>

\* Every breadcrumb is taken for one that says "empty".
FromBreadcrumbDhcp == IF crumb = NoFile THEN {dns} ELSE {<<>>}

\* platformCleanup's first part: the first line holds the servers, the second
\* the service, and networksetup refuses a service it does not know.
FromBreadcrumb ==
    IF crumb = NoFile THEN {dns}
    ELSE IF crumb = <<>> THEN {<<>>}
    ELSE IF crumb[2] = Svc THEN NetworkSetup(<<crumb[1]>>)
    ELSE {dns}

\* Cleanup trusts the breadcrumb alone.
platformCleanupBreadcrumbOnly ==
    /\ dns' \in FromBreadcrumb
    /\ crumb' = NoFile
    /\ cleaned' = TRUE
    /\ UNCHANGED <<saved, pc, orig, faults>>

\* platformCleanup: whatever the breadcrumb gave, 127.0.0.1 is replaced by DHCP.
\* Well-formed requests of cleanup to networksetup are taken to succeed.
platformCleanup ==
    /\ \E d \in FromBreadcrumb :
            dns' = IF d = <<Loopback>> THEN <<>> ELSE d
    /\ crumb' = NoFile
    /\ cleaned' = TRUE
    /\ UNCHANGED <<saved, pc, orig, faults>>

\* `gecit cleanup`, when gecit is not running.
Cleanup == pc = "off" /\ platformCleanup

\* The user configures other servers while gecit is not running, maybe after
\* a crash that left a breadcrumb.
UserSets(d) ==
    /\ pc = "off"
    /\ dns' = d
    /\ orig' = d
    /\ faults' = IF crumb = NoFile THEN {} ELSE {"stale"}
    /\ cleaned' = FALSE
    /\ UNCHANGED <<crumb, saved, pc>>

Next ==
    \/ Start \/ RestoreFirst \/ Save \/ SaveWrite \/ Set \/ MgrStart
    \/ Stop \/ Restore \/ Remove \/ DnsStop
    \/ Crash \/ Cleanup
    \/ \E d \in UserDns : UserSets(d)

Spec == Init /\ [][Next]_vars

-----------------------------------------------------------------------------
(* Properties *)

\* system_darwin.go:46-111: a run that was not killed and whose networksetup
\* calls succeeded leaves the user's servers and no breadcrumb, however often
\* gecit ran and whether or not its Start failed.
RunRestores ==
    faults = {} /\ pc = "off" => dns = orig /\ crumb = NoFile

\* run_tun.go:41-77: the system is pointed at 127.0.0.1 only while the DNS
\* server listens there.
LoopbackServed ==
    faults = {} /\ dns = <<Loopback>> => Serving

\* cleanup_darwin.go:10-45: after `gecit cleanup` the system is not left with
\* 127.0.0.1, whatever crashes, reruns and failures came before: a breadcrumb
\* that itself says 127.0.0.1 is caught by the second check.
CleanupUnstrands == cleaned => dns # <<Loopback>>

\* cleanup_darwin.go:13-30: a user with at most one server gets it back from
\* the breadcrumb by `gecit cleanup` after a crash.
CleanupRestoresOne ==
    cleaned /\ faults \subseteq {"crash"} /\ Len(orig) <= 1 => dns = orig

\* system_darwin.go:53: after a crash the next start restores the servers
\* first, so that its Stop leaves them.
RerunRestores ==
    faults \subseteq {"crash", "rerun"} /\ pc = "dnsStop" => dns = orig
=============================================================================
