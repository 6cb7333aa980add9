---------------------------- MODULE HelperDaemon -----------------------------
(***************************************************************************)
(* The root daemon of the macOS app: the script of                         *)
(* HelperDaemonScriptBuilder.swift polls a command file the app replaces   *)
(* (GecitControlService.swift, RuntimeStore.swift), starts and kills the   *)
(* engine of module DarwinEngine, runs `gecit cleanup` after it, and       *)
(* reports in a status file the app displays.  App, daemon and engine are  *)
(* processes of their own; the engine goes on while the daemon sleeps, and *)
(* both may die at any point.                                              *)
(*                                                                         *)
(* launchd restarts the daemon (KeepAlive) and, as the property list does  *)
(* not ask it otherwise, kills the engine of a daemon that died with it.   *)
(***************************************************************************)
EXTENDS DarwinEngine

VARIABLES
    cmd,      \* the command file
    got,      \* the command the daemon has read
    dpc,      \* where the daemon is
    pidFile,  \* "none" | "engine" | "foreign": whose the pid in the pid file is
    status,   \* the state in the status file
    seen,     \* the status file has the signature, its updatedAt included, the
              \* app read last (lastStatusSignature)
    shown     \* the state the app displays

daemonVars == <<cmd, got, dpc, pidFile, status>>
appVars    == <<seen, shown>>
helperVars == <<daemonVars, appVars>>
engineVars == <<dns, crumb, saved, pc, cleaned, orig, faults>>
hvars      == <<engineVars, helperVars>>

\* "cleanup" is handled as "stop"; "bad" is a start with arguments that
\* sanitize_start_args rejects.
Commands == {"start", "bad", "stop", "status"}

DaemonPCs == {"boot", "idle", "trunc", "handle", "fork", "pid", "check",
              "term", "kill", "rm", "cleanup", "stopped"}

States == {"stopped", "starting", "running", "stopping", "error"}

HelperTypeOK ==
    /\ TypeOK
    /\ cmd \in Commands \cup {"none"}
    /\ got \in Commands \cup {"none"}
    /\ dpc \in DaemonPCs
    /\ dpc \in {"trunc", "handle"} => got # "none"
    /\ pidFile \in {"none", "engine", "foreign"}
    /\ status \in States
    /\ seen \in BOOLEAN
    /\ shown \in States

HelperInit ==
    /\ Init
    /\ cmd = "none"
    /\ got = "none"
    /\ dpc = "boot"
    /\ pidFile = "none"
    /\ status = "stopped"
    /\ seen = TRUE
    /\ shown = "stopped"

EngineAlive == pc # "off"

\* kill -0 of the pid in the file: true of whichever process has it now.
is_running == pidFile = "foreign" \/ (pidFile = "engine" /\ EngineAlive)

write_status(s) == status' = s /\ seen' = FALSE /\ shown' = shown

-----------------------------------------------------------------------------
(* The app *)

\* GecitControlService.send replaces the command file, read or not; the app
\* ignores its error.
send(C) ==
    /\ cmd' \in C \cup {cmd}
    /\ UNCHANGED <<engineVars, got, dpc, pidFile, status, seen>>

canStop == shown \in {"running", "starting", "error"}

\* performPrimaryAction: the new state is displayed at once.
PressStop  == canStop /\ send({"stop"}) /\ shown' = "stopping"
PressStart == ~canStop /\ send({"start", "bad"}) /\ shown' = "starting"

\* The app ends (cleanup), or has installed the helper (status).
SendOther == send({"stop", "status"}) /\ shown' = shown

\* refreshStatus: what the file says is displayed if its signature is new.
refreshStatus ==
    /\ seen' = TRUE
    /\ shown' = IF seen THEN shown ELSE status
    /\ UNCHANGED <<engineVars, daemonVars>>

-----------------------------------------------------------------------------
(* The daemon's loop *)

Boot ==
    /\ dpc = "boot"
    /\ write_status("stopped")
    /\ dpc' = "idle"
    /\ UNCHANGED <<engineVars, cmd, got, pidFile>>

\* No command: the status is refreshed if the engine runs, left alone if not.
Poll ==
    /\ dpc = "idle"
    /\ cmd = "none"
    /\ is_running
    /\ write_status("running")
    /\ UNCHANGED <<engineVars, cmd, got, dpc, pidFile>>

ReadCommand ==
    /\ dpc = "idle"
    /\ cmd # "none"
    /\ got' = cmd
    /\ dpc' = "trunc"
    /\ UNCHANGED <<engineVars, cmd, pidFile, status, appVars>>

\* The file is emptied, with whatever the app has put there meanwhile.
Truncate ==
    /\ dpc = "trunc"
    /\ cmd' = "none"
    /\ dpc' = "handle"
    /\ UNCHANGED <<engineVars, got, pidFile, status, appVars>>

\* The daemon is done with the command in hand, except for going to l.
Take(c, l) ==
    /\ dpc = "handle"
    /\ got = c
    /\ got' = "none"
    /\ dpc' = l
    /\ UNCHANGED <<engineVars, cmd, pidFile>>

-----------------------------------------------------------------------------
(* start_gecit *)

\* Rejected arguments, an engine that runs already, a binary that is missing.
Refuse ==
    \/ Take("bad", "idle") /\ write_status("error")
    \/ Take("start", "idle") /\ is_running /\ write_status("running")
    \/ Take("start", "idle") /\ ~is_running /\ write_status("error")

\* The daemon looks for its pid file only.
AcceptUnchecked == Take("start", "fork") /\ write_status("starting")

Accept == Take("start", "fork") /\ ~is_running /\ write_status("starting")

\* The engine is started in the background.
Fork ==
    /\ dpc = "fork"
    /\ Start
    /\ dpc' = "pid"
    /\ UNCHANGED <<cmd, got, pidFile, status, appVars>>

WritePid ==
    /\ dpc = "pid"
    /\ pidFile' = "engine"
    /\ dpc' = "check"
    /\ UNCHANGED <<engineVars, cmd, got, status, appVars>>

\* Two seconds later.
Check ==
    /\ dpc = "check"
    /\ IF is_running
       THEN write_status("running") /\ pidFile' = pidFile
       ELSE write_status("error") /\ pidFile' = "none"
    /\ dpc' = "idle"
    /\ UNCHANGED <<engineVars, cmd, got>>

-----------------------------------------------------------------------------
(* stop_gecit and the status command *)

TakeStop ==
    /\ Take("stop", IF is_running THEN "term" ELSE "rm")
    /\ write_status("stopping")

TakeStatus ==
    /\ Take("status", "idle")
    /\ write_status(IF is_running THEN "running" ELSE "stopped")

\* SIGTERM to the pid in the file: the engine's Stop once it has called
\* signal.Notify, death before that, nothing if it is stopping already; another
\* process may have the pid.
Term ==
    /\ dpc = "term"
    /\ \/ pidFile = "engine" /\ Stop
       \/ pidFile = "engine" /\ Crash
       \/ pidFile = "engine" /\ pc \in {"off", "restore", "remove", "dnsStop"} /\ UNCHANGED engineVars
       \/ pidFile = "foreign" /\ UNCHANGED engineVars
    /\ dpc' = "kill"
    /\ UNCHANGED <<cmd, got, pidFile, status, appVars>>

\* The engine is trusted to have ended after two seconds.
KillSkipped ==
    /\ dpc = "kill"
    /\ dpc' = "rm"
    /\ UNCHANGED <<engineVars, cmd, got, pidFile, status, appVars>>

\* The daemon waits for the engine to end.
KillWaits ==
    /\ dpc = "kill"
    /\ ~EngineAlive
    /\ dpc' = "rm"
    /\ UNCHANGED <<engineVars, cmd, got, pidFile, status, appVars>>

\* Two seconds later, SIGKILL.
Kill ==
    /\ dpc = "kill"
    /\ IF pidFile = "engine" /\ EngineAlive THEN Crash ELSE UNCHANGED engineVars
    /\ dpc' = "rm"
    /\ UNCHANGED <<cmd, got, pidFile, status, appVars>>

RemovePid ==
    /\ dpc = "rm"
    /\ pidFile' = "none"
    /\ dpc' = "cleanup"
    /\ UNCHANGED <<engineVars, cmd, got, status, appVars>>

\* The engine is trusted to have restored the resolver.
RunCleanupSkipped ==
    /\ dpc = "cleanup"
    /\ dpc' = "stopped"
    /\ UNCHANGED <<engineVars, cmd, got, pidFile, status, appVars>>

\* "$BINARY" cleanup
RunCleanup ==
    /\ dpc = "cleanup"
    /\ platformCleanup
    /\ dpc' = "stopped"
    /\ UNCHANGED <<cmd, got, pidFile, status, appVars>>

\* The status is left at "stopping".
StoppedSilently ==
    /\ dpc = "stopped"
    /\ dpc' = "idle"
    /\ UNCHANGED <<engineVars, cmd, got, pidFile, status, appVars>>

Stopped ==
    /\ dpc = "stopped"
    /\ write_status("stopped")
    /\ dpc' = "idle"
    /\ UNCHANGED <<engineVars, cmd, got, pidFile>>

-----------------------------------------------------------------------------
(* The environment *)

\* The engine goes on by itself, or dies by itself.
EngineStep ==
    /\ \/ RestoreFirst \/ Save \/ SaveWrite \/ Set \/ MgrStart
       \/ Restore \/ Remove \/ DnsStop \/ Crash
    /\ UNCHANGED helperVars

\* The daemon dies (or the helper is installed anew), the engine with it; the
\* files stay.
DaemonDies ==
    /\ IF EngineAlive THEN Crash ELSE UNCHANGED engineVars
    /\ dpc' = "boot"
    /\ got' = "none"
    /\ UNCHANGED <<cmd, pidFile, status, appVars>>

\* The pid of an engine that is gone is given to another process, for instance
\* after a reboot; that process ends.
PidReused ==
    /\ pidFile = "engine" /\ ~EngineAlive /\ pidFile' = "foreign"
    /\ UNCHANGED <<engineVars, cmd, got, dpc, status, appVars>>

ForeignEnds ==
    /\ pidFile = "foreign" /\ pidFile' = "engine"
    /\ ~EngineAlive
    /\ UNCHANGED <<engineVars, cmd, got, dpc, status, appVars>>

DaemonStep ==
    \/ Boot \/ Poll \/ ReadCommand \/ Truncate
    \/ Refuse \/ Accept \/ Fork \/ WritePid \/ Check
    \/ TakeStop \/ TakeStatus \/ Term \/ Kill \/ RemovePid \/ RunCleanup \/ Stopped

HelperNext ==
    \/ PressStop \/ PressStart \/ SendOther \/ refreshStatus
    \/ DaemonStep
    \/ EngineStep
    \/ DaemonDies \/ PidReused \/ ForeignEnds

HelperSpec == HelperInit /\ [][HelperNext]_hvars

\* The daemon is scheduled, and the app's timer fires; nothing is assumed of the
\* engine or the user.
HelperFairSpec == HelperSpec /\ WF_hvars(DaemonStep) /\ WF_hvars(refreshStatus)

-----------------------------------------------------------------------------
(* Properties *)

\* HelperDaemonScriptBuilder.swift:145-176: the daemon never starts a second
\* engine next to one that is alive, although all it knows of the first is a
\* pid file it removes itself.
NoSecondEngine == dpc = "fork" => pc = "off"

\* HelperDaemonScriptBuilder.swift:178-189: when a stop is complete, the engine
\* is gone and the system does not resolve through 127.0.0.1, wherever the
\* engine was when it was killed; with at most one server configured and no
\* failed command it is the user's own again.
StopUnstrands ==
    dpc = "stopped" =>
        /\ pc = "off"
        /\ dns # <<Loopback>>
        /\ faults \subseteq {"crash"} /\ Len(orig) <= 1 => dns = orig

\* HelperDaemonScriptBuilder.swift:145-190: whatever the app, the daemon, launchd
\* and the pids do, the engine under the daemon is an engine as DarwinEngine
\* describes it: in particular one is started, and cleanup run, only when none is
\* alive.  What DarwinEngine promises therefore holds under the daemon.
ImplementsEngine == Spec

\* HelperDaemonScriptBuilder.swift:49-62: the status file says "stopped" only
\* while no engine runs.
StoppedMeansOff == status = "stopped" => pc = "off"

\* HelperDaemonScriptBuilder.swift:178-190: a stop the daemon has taken comes to
\* its end, whatever the engine does, unless the daemon itself is killed.
StopHeeded ==
    (dpc = "handle" /\ got = "stop") ~> (dpc = "stopped" \/ dpc = "boot")

\* RuntimeStore.swift:119-129: the state the app displays in advance when the
\* user presses stop is replaced by what the daemon reports, once the daemon has
\* taken the command, is not killed over it and gets no further one.
StoppingNotForEver ==
    (shown = "stopping" /\ dpc = "handle" /\ got = "stop")
        ~> (shown # "stopping" \/ dpc = "boot" \/ cmd # "none")
=============================================================================
