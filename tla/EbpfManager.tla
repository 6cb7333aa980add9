----------------------------- MODULE EbpfManager -----------------------------
(***************************************************************************)
(* The Linux engine's manager (pkg/ebpf/manager.go, pkg/ebpf/config.go):   *)
(* it loads and attaches the sock_ops program of module SockOps, pushes    *)
(* its maps, and runs the goroutine that answers each connection event     *)
(* with one fake ClientHello.  The kernel's callbacks interleave with      *)
(* every one of its steps, and the process may die at any of them.         *)
(***************************************************************************)
EXTENDS SockOps

CONSTANTS
    Ports,        \* Config.Ports, {443} when none is given
    ExcludeIPs,   \* Config.ExcludeIPs: the DoH upstreams
    ExcludeMap,   \* the BPF object has an exclude_ips map; older ones had none
    NoConn        \* "no event in hand"

ASSUME ManagerAssumption ==
    /\ Ports \subseteq Port
    /\ Ports # {}
    /\ ExcludeIPs \subseteq Ip
    /\ ExcludeMap \in BOOLEAN
    /\ NoConn \notin Conn

VARIABLES
    mgr,       \* how far Start or Stop has come
    reader,    \* readEvents: "off" | "read" | "inject" | "failed", returned with its ring open
    cur,       \* the event readEvents has in hand
    rawOpen,   \* the raw socket is open
    faked      \* sockets a fake was injected for

mgrVars == <<mgr, reader, cur, rawOpen, faked>>
vars    == <<kernelVars, mgrVars>>

Stages == {"down", "attach", "config", "ports", "excl", "raw", "run",
           "stop", "wait", "detach", "unload"}

TypeOK ==
    /\ KernelTypeOK
    /\ mgr \in Stages
    /\ reader \in {"off", "read", "inject", "failed"}
    /\ cur \in Conn \cup {NoConn}
    /\ reader = "inject" => cur \in Conn
    /\ rawOpen \in BOOLEAN
    /\ faked \subseteq Conn

Init ==
    /\ KernelInit
    /\ mgr = "down"
    /\ reader = "off"
    /\ cur = NoConn
    /\ rawOpen = FALSE
    /\ faked = {}

-----------------------------------------------------------------------------
(* Start *)

\* A new collection: fresh, empty maps.
Load ==
    /\ mgr = "down"
    /\ mgr' = "attach"
    /\ UNCHANGED <<kernelVars, reader, cur, rawOpen, faked>>

Attach ==
    /\ mgr = "attach"
    /\ \/ attached' = TRUE /\ mgr' = "config"
       \/ attached' = FALSE /\ mgr' = "down"      \* coll.Close()
    /\ UNCHANGED <<mapVars, perfVars, sockVars, reader, cur, rawOpen, faked>>

pushConfig ==
    /\ mgr = "config"
    /\ enabled' = TRUE
    /\ mgr' = "ports"
    /\ UNCHANGED <<attached, targetPorts, excludeIps, tracked, bytesSent, perfVars,
                   sockVars, reader, cur, rawOpen, faked>>

\* One Update call of the loop in pushTargetPorts.
pushTargetPort(p) ==
    /\ mgr = "ports"
    /\ p \notin targetPorts
    /\ targetPorts' = targetPorts \cup {p}
    /\ mgr' = IF Ports \subseteq targetPorts' THEN "excl" ELSE "ports"
    /\ UNCHANGED <<attached, enabled, excludeIps, tracked, bytesSent, perfVars,
                   sockVars, reader, cur, rawOpen, faked>>

\* What pushExcludeIPs puts into the map: it returns without an error when the map
\* is missing, and skips the addresses without an IPv4 form.
Excluded == IF ExcludeMap THEN ExcludeIPs \ V6 ELSE {}

\* One Update call of the loop in pushExcludeIPs.
pushExcludeIP(i) ==
    /\ mgr = "excl"
    /\ i \notin excludeIps
    /\ excludeIps' = excludeIps \cup {i}
    /\ UNCHANGED <<attached, enabled, targetPorts, tracked, bytesSent, perfVars,
                   sockVars, mgr, reader, cur, rawOpen, faked>>

\* The ring opened before the exclusions are in place.
OpenReaderEarly ==
    /\ mgr = "excl"
    /\ perfOpen' = TRUE
    /\ mgr' = IF Excluded \subseteq excludeIps THEN "raw" ELSE "excl"
    /\ UNCHANGED <<attached, mapVars, perf, sockVars, reader, cur, rawOpen, faked>>

\* perf.NewReader, once the loop of pushExcludeIPs is through.
OpenReader ==
    /\ mgr = "excl"
    /\ Excluded \subseteq excludeIps
    /\ perfOpen' = TRUE
    /\ mgr' = "raw"
    /\ UNCHANGED <<attached, mapVars, perf, sockVars, reader, cur, rawOpen, faked>>

\* rawsock.New, then the readEvents goroutine.
OpenRaw ==
    /\ mgr = "raw"
    /\ rawOpen' = TRUE
    /\ reader' = "read"
    /\ mgr' = "run"
    /\ UNCHANGED <<kernelVars, cur, faked>>

\* An error path that returns without undoing what was done.
StartFailsNoStop ==
    /\ mgr \in {"config", "ports", "excl", "raw"}
    /\ mgr' = "down"
    /\ UNCHANGED <<kernelVars, reader, cur, rawOpen, faked>>

\* Any step after Attach fails: Start calls Stop before it returns the error.
StartFails ==
    /\ mgr \in {"config", "ports", "excl", "raw"}
    /\ mgr' = "stop"
    /\ UNCHANGED <<kernelVars, reader, cur, rawOpen, faked>>

UpdateEnabled(b) ==
    /\ mgr = "run"
    /\ enabled' = b
    /\ UNCHANGED <<attached, targetPorts, excludeIps, tracked, bytesSent, perfVars,
                   sockVars, mgrVars>>

-----------------------------------------------------------------------------
(* readEvents *)

\* The record is looked at and stays in the ring.
readEventsPeek(c) ==
    /\ reader = "read"
    /\ perfOpen
    /\ c \in perf
    /\ cur' = c
    /\ reader' = "inject"
    /\ UNCHANGED <<kernelVars, mgr, rawOpen, faked>>

\* reader.Read returns the event of socket c.
readEvents(c) ==
    /\ reader = "read"
    /\ perfOpen
    /\ c \in perf
    /\ perf' = perf \ {c}
    /\ cur' = c
    /\ reader' = "inject"
    /\ UNCHANGED <<attached, mapVars, perfOpen, sockVars, mgr, rawOpen, faked>>

\* The goroutine gives up at the first fake that cannot be sent.
injectFakeFatal ==
    /\ reader = "inject"
    /\ \/ /\ rawOpen
          /\ faked' = faked \cup {cur}
          /\ reader' = "read"
       \/ UNCHANGED faked /\ reader' = "off"
    /\ cur' = NoConn
    /\ UNCHANGED <<kernelVars, mgr, rawOpen>>

\* injectFake: one SendFake, whose failure is only logged.
injectFake ==
    /\ reader = "inject"
    /\ \/ /\ rawOpen
          /\ faked' = faked \cup {cur}
       \/ UNCHANGED faked
    /\ reader' = "read"
    /\ cur' = NoConn
    /\ UNCHANGED <<kernelVars, mgr, rawOpen>>

\* A loop that retries Read on every error, the closed reader's included.
ReaderReturnsNever == FALSE /\ UNCHANGED vars

\* reader.Read fails, because the reader was closed or for any other reason: the
\* goroutine returns, and nobody starts it again.
ReaderReturns ==
    /\ reader = "read"
    /\ reader' = IF perfOpen THEN "failed" ELSE "off"
    /\ UNCHANGED <<kernelVars, mgr, cur, rawOpen, faked>>

-----------------------------------------------------------------------------
(* Stop *)

Stop ==
    /\ mgr = "run"
    /\ mgr' = "stop"
    /\ UNCHANGED <<kernelVars, reader, cur, rawOpen, faked>>

\* cancel() and reader.Close(): what is still in the ring is dropped.
StopReader ==
    /\ mgr = "stop"
    /\ perfOpen' = FALSE
    /\ perf' = {}
    /\ reader' = IF reader = "failed" THEN "off" ELSE reader
    /\ mgr' = "wait"
    /\ UNCHANGED <<attached, mapVars, sockVars, cur, rawOpen, faked>>

\* The raw socket closed without waiting for the goroutine.
StopRawNoWait ==
    /\ mgr = "wait"
    /\ rawOpen' = FALSE
    /\ mgr' = "detach"
    /\ UNCHANGED <<kernelVars, reader, cur, faked>>

\* wg.Wait(), then rawSock.Close().
StopRaw ==
    /\ mgr = "wait"
    /\ reader = "off"
    /\ rawOpen' = FALSE
    /\ mgr' = "detach"
    /\ UNCHANGED <<kernelVars, reader, cur, faked>>

\* link.Close(): no callback runs from here on.
StopDetach ==
    /\ mgr = "detach"
    /\ attached' = FALSE
    /\ mgr' = "unload"
    /\ UNCHANGED <<mapVars, perfVars, sockVars, reader, cur, rawOpen, faked>>

\* The maps go with the last reference to the collection.
FreeMaps ==
    /\ enabled' = FALSE
    /\ targetPorts' = {}
    /\ excludeIps' = {}
    /\ tracked' = {}
    /\ UNCHANGED bytesSent

\* collection.Close()
StopUnload ==
    /\ mgr = "unload"
    /\ FreeMaps
    /\ mgr' = "down"
    /\ UNCHANGED <<attached, perfVars, sockVars, reader, cur, rawOpen, faked>>

\* SIGKILL, a panic, or a signal before runEngine installs its handler: the
\* kernel closes every descriptor of the process, the link's included.
Crash ==
    /\ mgr # "down"
    /\ attached' = FALSE
    /\ FreeMaps
    /\ perfOpen' = FALSE
    /\ perf' = {}
    /\ mgr' = "down"
    /\ reader' = "off"
    /\ cur' = NoConn
    /\ rawOpen' = FALSE
    /\ UNCHANGED <<sockVars, faked>>

-----------------------------------------------------------------------------

StartStep ==
    \/ Attach \/ pushConfig
    \/ \E p \in Ports : pushTargetPort(p)
    \/ \E i \in Excluded : pushExcludeIP(i)
    \/ OpenReader \/ OpenRaw \/ StartFails
StopStep   == StopReader \/ StopRaw \/ StopDetach \/ StopUnload
ReaderStep == (\E c \in Conn : readEvents(c)) \/ injectFake \/ ReaderReturns

Next ==
    \/ KernelStep /\ UNCHANGED mgrVars
    \/ Load
    \/ StartStep
    \/ \E b \in BOOLEAN : UpdateEnabled(b)
    \/ Stop
    \/ StopStep
    \/ ReaderStep
    \/ Crash

Spec == Init /\ [][Next]_vars

\* A goroutine that can run is eventually run: readEvents, and the one that
\* called Start or Stop.
Fairness == WF_vars(StartStep) /\ WF_vars(StopStep) /\ WF_vars(ReaderStep)

FairSpec == Spec /\ Fairness

-----------------------------------------------------------------------------
(* Properties *)

\* sockops.bpf.c:79-80: "restore normal MSS once the ClientHello has been fully
\* transmitted": no established socket keeps the small MSS once more than
\* restore_after_bytes have left it.
MssRestored ==
    \A c \in Conn : sock[c] = "est" /\ sent[c] > RestoreAfter => mss[c] # "small"

\* sockops.bpf.c:91-103: the MSS is raised only after more than
\* restore_after_bytes left the socket, and then nothing of the socket is left
\* in the map or in its callback flags.
RestoredOnlyPastThreshold ==
    \A c \in Conn :
        mss[c] = "restored" => sent[c] > RestoreAfter /\ c \notin tracked /\ ~cbFlag[c]

\* config.go:51-70, manager.go:128-143: with an exclude_ips map, no fake is ever
\* injected into an IPv4 connection to a DoH upstream, although the program is
\* attached and enabled before the map is filled: the ring that would carry the
\* event is opened last.  An IPv6 upstream cannot be excluded.
ExcludedNeverFaked ==
    ExcludeMap =>
        \A c \in faked \cup perf \cup ({cur} \ {NoConn}) :
            dstIp[c] \in ExcludeIPs => dstIp[c] \in V6

\* sockops.bpf.c:36-70, manager.go:166-194: however late the goroutine gets to an
\* event, and across pauses, crashes and restarts of the manager, a fake is for a
\* socket that has connected to a configured port, and a socket gets at most one.
FakeWarranted ==
    /\ \A c \in faked \cup perf \cup ({cur} \ {NoConn}) :
            sock[c] # "none" /\ dstPort[c] \in Ports
    /\ faked \cap perf = {}
    /\ cur \notin faked \cup perf

\* manager.go:228-241: the raw socket stays open while readEvents may use it.
RawOpenWhileInjecting == reader \in {"read", "inject"} => rawOpen

\* manager.go:110-145, 228-254: however Start failed or Stop ran, a manager
\* that is down holds no attachment, ring, raw socket or goroutine.
DownReleasesAll ==
    mgr = "down" => ~attached /\ ~perfOpen /\ ~rawOpen /\ reader = "off" /\ tracked = {}

\* manager.go:231-239: Stop does not hang in wg.Wait; closing the reader ends
\* the goroutine.
StopCompletes == mgr = "stop" ~> mgr = "down"

\* manager.go:166-194: an event in an open ring is taken out of it, whatever
\* happened to the fakes before it, unless Read itself failed.
EventsDrained == \A c \in Conn : c \in perf ~> c \notin perf \/ reader = "failed"
=============================================================================
