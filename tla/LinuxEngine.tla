----------------------------- MODULE LinuxEngine -----------------------------
(***************************************************************************)
(* `gecit run` on Linux (cmd/gecit/app/run.go, run_linux.go): each process *)
(* starts its DNS server on 127.0.0.1:53, points /etc/resolv.conf at it,   *)
(* starts the eBPF manager (module EbpfManager; here only its outcome),    *)
(* and undoes this when it is told to stop.  Several processes may be      *)
(* started, any of them may be killed at any point, I/O may fail, and a    *)
(* DHCP client rewrites the file whenever it likes.  `gecit cleanup`       *)
(* changes nothing on Linux (cleanup_linux.go) and has no action.          *)
(***************************************************************************)
EXTENDS ResolvConf

CONSTANTS
    Proc,        \* invocations of `gecit run` with DoH enabled
    NoProc,      \* "nobody has the port"
    Confs        \* files a user or a DHCP client writes

ASSUME LinuxEngineAssumption ==
    /\ NoProc \notin Proc
    /\ Confs \subseteq [ns : SUBSET Server, saved : {{}}, other : SUBSET Other]

VARIABLES
    conf,      \* /etc/resolv.conf
    pc,        \* pc[p]: where process p is
    buf,       \* buf[p]: the file as p read it
    port,      \* who has bound 127.0.0.1:53
    orig,      \* the file a user or DHCP client wrote last (history)
    faults     \* what went wrong since (history)

vars == <<conf, pc, buf, port, orig, faults>>

Faults == {"crash",   \* a process was killed, or failed to restore, with the file in place
           "rerun",   \* SetSystemDNS ran on what a killed process left
           "torn"}    \* the file's text was lost: killed, failed or raced mid-write

PCs == {"off", "bind", "setRead", "setTrunc", "setWrite", "start", "run",
        "resRead", "resTrunc", "resWrite", "dnsStop"}

\* Between reading the file and having written it back.
Rewriting == {"setTrunc", "setWrite", "resTrunc", "resWrite"}

TypeOK ==
    /\ conf \in Conf
    /\ pc \in [Proc -> PCs]
    /\ buf \in [Proc -> Conf]
    /\ port \in Proc \cup {NoProc}
    /\ orig \in Confs
    /\ faults \subseteq Faults

Init ==
    /\ conf \in Confs
    /\ orig = conf
    /\ pc = [p \in Proc |-> "off"]
    /\ buf = [p \in Proc |-> EmptyConf]
    /\ port = NoProc
    /\ faults = {}

Goto(p, l) == pc' = [pc EXCEPT ![p] = l]

-----------------------------------------------------------------------------
(* ebpfEngine.Start *)

runEngine(p) ==
    /\ pc[p] = "off"
    /\ Goto(p, "bind")
    /\ UNCHANGED <<conf, buf, port, orig, faults>>

\* The error of ListenAndServe is logged and not waited for.
DnsStartIgnoresError(p) ==
    /\ pc[p] = "bind"
    /\ port' = IF port = NoProc THEN p ELSE port
    /\ Goto(p, "setRead")
    /\ UNCHANGED <<conf, buf, orig, faults>>

\* dns.Start: a bind error ends the process before it has touched anything.
DnsStart(p) ==
    /\ pc[p] = "bind"
    /\ IF port = NoProc
       THEN port' = p /\ Goto(p, "setRead")
       ELSE port' = port /\ Goto(p, "off")
    /\ UNCHANGED <<conf, buf, orig, faults>>

\* SetSystemDNS failed: dns.Stop, and Start returns the error.
GiveUp(p) == port' = NoProc /\ Goto(p, "off")

SetRead(p) ==
    /\ pc[p] = "setRead"
    /\ \/ buf' = [buf EXCEPT ![p] = conf] /\ Goto(p, "setTrunc") /\ port' = port
       \/ buf' = buf /\ GiveUp(p)
    /\ UNCHANGED <<conf, orig, faults>>

\* os.WriteFile opens the file, which truncates it, or fails to.
SetTruncate(p) ==
    /\ pc[p] = "setTrunc"
    /\ \/ /\ conf' = EmptyConf
          /\ faults' = IF "crash" \in faults THEN faults \cup {"rerun"} ELSE faults
          /\ Goto(p, "setWrite") /\ port' = port
       \/ conf' = conf /\ faults' = faults /\ GiveUp(p)
    /\ UNCHANGED <<buf, orig>>

SetWrite(p) ==
    /\ pc[p] = "setWrite"
    /\ \/ /\ conf' = SetConf(buf[p])
          /\ Goto(p, "start")
          /\ UNCHANGED <<port, faults>>
       \/ /\ conf' = conf
          /\ faults' = faults \cup {"torn"}
          /\ GiveUp(p)
    /\ UNCHANGED <<buf, orig>>

\* mgr.Start returned: RestoreSystemDNS follows its error at once.
MgrStart(p) ==
    /\ pc[p] = "start"
    /\ \/ Goto(p, "run")
       \/ Goto(p, "resRead")
    /\ UNCHANGED <<conf, buf, port, orig, faults>>

-----------------------------------------------------------------------------
(* ebpfEngine.Stop *)

\* Stop shuts the DNS server down before it restores the file.
SignalStopsDnsFirst(p) ==
    /\ pc[p] = "run"
    /\ Goto(p, "resRead")
    /\ port' = NoProc
    /\ UNCHANGED <<conf, buf, orig, faults>>

\* SIGINT or SIGTERM, once signal.Notify has been called.
Signal(p) ==
    /\ pc[p] = "run"
    /\ Goto(p, "resRead")
    /\ UNCHANGED <<conf, buf, port, orig, faults>>

\* A failed RestoreSystemDNS is logged (Stop) or ignored (Start); dns.Stop follows.
RestoreFails(p, f) == faults' = faults \cup f /\ Goto(p, "dnsStop")

ResRead(p) ==
    /\ pc[p] = "resRead"
    /\ \/ buf' = [buf EXCEPT ![p] = conf] /\ Goto(p, "resTrunc") /\ faults' = faults
       \/ buf' = buf /\ RestoreFails(p, {"crash"})
    /\ UNCHANGED <<conf, port, orig>>

ResTruncate(p) ==
    /\ pc[p] = "resTrunc"
    /\ \/ conf' = EmptyConf /\ Goto(p, "resWrite") /\ faults' = faults
       \/ conf' = conf /\ RestoreFails(p, {"crash"})
    /\ UNCHANGED <<buf, port, orig>>

ResWrite(p) ==
    /\ pc[p] = "resWrite"
    /\ \/ conf' = RestoreConf(buf[p]) /\ Goto(p, "dnsStop") /\ faults' = faults
       \/ conf' = conf /\ RestoreFails(p, {"torn"})
    /\ UNCHANGED <<buf, port, orig>>

\* dns.Stop releases the port; mgr.Stop and the end of the process follow.
DnsStop(p) ==
    /\ pc[p] = "dnsStop"
    /\ port' = NoProc
    /\ Goto(p, "off")
    /\ UNCHANGED <<conf, buf, orig, faults>>

-----------------------------------------------------------------------------
(* The environment *)

\* SIGKILL, a panic, power loss, or a signal while Start is still running.
Crash(p) ==
    /\ pc[p] # "off"
    /\ Goto(p, "off")
    /\ port' = IF port = p THEN NoProc ELSE port
    /\ faults' = CASE pc[p] \in {"setWrite", "resWrite"} -> faults \cup {"torn"}
                   [] pc[p] \in {"start", "run", "resRead", "resTrunc"} -> faults \cup {"crash"}
                   [] OTHER -> faults
    /\ UNCHANGED <<conf, buf, orig>>

\* A DHCP client, NetworkManager or the user replaces the file.
Rewrite(f) ==
    /\ conf' = f
    /\ orig' = f
    /\ faults' = IF \E p \in Proc : pc[p] \in Rewriting THEN {"torn"} ELSE {}
    /\ UNCHANGED <<pc, buf, port>>

Step(p) ==
    \/ runEngine(p) \/ DnsStart(p) \/ SetRead(p) \/ SetTruncate(p) \/ SetWrite(p)
    \/ MgrStart(p) \/ Signal(p) \/ ResRead(p) \/ ResTruncate(p) \/ ResWrite(p)
    \/ DnsStop(p) \/ Crash(p)

Next ==
    \/ \E p \in Proc : Step(p)
    \/ \E f \in Confs : Rewrite(f)

Spec == Init /\ [][Next]_vars

-----------------------------------------------------------------------------
(* Properties *)

\* A file is truncated and not yet written.
Torn == \E p \in Proc : pc[p] \in {"setWrite", "resWrite"}

\* run_linux.go:79-113: at most one process works on the file, the one that
\* has the port, although nothing but the bind error of dns.Start keeps a
\* second process from it.
PortGuardsFile ==
    \A p \in Proc : pc[p] \in PCs \ {"off", "bind"} => port = p

\* run_linux.go:79-113, system_linux.go:14-66: when nothing went wrong, a
\* process that has ended, by a signal or by an error of its Start, left the
\* file as it last was written by others (an empty one may have got the
\* fallback server), however many processes ran and whatever was rewritten
\* meanwhile.
FileRestored ==
    faults = {} /\ port = NoProc =>
        conf = orig \/ (orig = EmptyConf /\ conf = FallbackConf)

\* run_linux.go:80-87, 103-109: the system is pointed at 127.0.0.1 only while
\* a server listens there: the server starts before the file is changed and
\* stops after it is restored.
LoopbackServed ==
    faults = {} /\ Loopback \in conf.ns => port # NoProc

\* system_linux.go:12-13: a killed process leaves a file RestoreSystemDNS can
\* recover the original servers from, as long as no run follows the crash.
OriginalsSurviveCrash ==
    faults \subseteq {"crash"} /\ ~Torn => orig.ns \subseteq RestoreConf(conf).ns
=============================================================================
