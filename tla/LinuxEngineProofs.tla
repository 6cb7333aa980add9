-------------------------- MODULE LinuxEngineProofs --------------------------
(* Proofs about /etc/resolv.conf under any number of processes and any files. *)
EXTENDS LinuxEngine, TLAPS

\* The file as others left it; an empty one may have got the fallback server.
Clean(f) == f = orig \/ (orig = EmptyConf /\ f = FallbackConf)

\* The file while a process runs: taken over by SetSystemDNS, or clean because
\* it was rewritten meanwhile.
Live(f) ==
    \/ Clean(f)
    \/ f = SetConf(orig)
    \/ orig = EmptyConf /\ f = SetConf(FallbackConf)

Holding == PCs \ {"off", "bind"}

\* The port belongs to the one process past its bind.
PortInv ==
    /\ \A p \in Proc : pc[p] \in Holding => port = p
    /\ \A p \in Proc : port = p => pc[p] \in Holding

\* What the file and a process's copy of it hold at every step, when nothing
\* went wrong.
FileInv ==
    faults = {} =>
        /\ port = NoProc => Clean(conf)
        /\ \A p \in Proc :
            /\ pc[p] \in {"setRead", "dnsStop"} => Clean(conf)
            /\ pc[p] = "setTrunc" => Clean(conf) /\ buf[p] = conf
            /\ pc[p] = "setWrite" => Clean(buf[p])
            /\ pc[p] \in {"start", "run", "resRead"} => Live(conf)
            /\ pc[p] = "resTrunc" => Live(conf) /\ buf[p] = conf
            /\ pc[p] = "resWrite" => Live(buf[p])

\* What a killed process left stays in place until the next SetSystemDNS.
CrashInv ==
    faults = {"crash"} =>
        /\ Live(conf)
        /\ \A p \in Proc : pc[p] \in {"off", "bind", "setRead", "setTrunc", "dnsStop"}

IInv == TypeOK /\ PortInv /\ FileInv /\ CrashInv

\* Both functions produce files.
LEMMA ConfTypes ==
    /\ EmptyConf \in Conf /\ FallbackConf \in Conf
    /\ \A f \in Conf : SetConf(f) \in Conf /\ RestoreConf(f) \in Conf
  BY DEF Conf, EmptyConf, FallbackConf, SetConf, RestoreConf, Ns

\* A file written by others is a file without 127.0.0.1 and without saved lines.
LEMMA OrigShape ==
    ASSUME orig \in Confs
    PROVE  orig \in Conf /\ orig.saved = {} /\ Loopback \notin orig.ns
  BY LinuxEngineAssumption, ServerAssumption DEF Conf, Ns

\* system_linux.go:14-66: RestoreSystemDNS undoes SetSystemDNS, line by line,
\* and leaves a file it finds restored as it is.
LEMMA RoundTrip ==
    ASSUME orig \in Confs, NEW f, Live(f)
    PROVE  Clean(RestoreConf(f))
<1>1. orig \in Conf /\ orig.saved = {} /\ Loopback \notin orig.ns
  BY OrigShape
<1>2. orig.ns = {} /\ orig.other = {} => orig = EmptyConf
  BY <1>1 DEF Conf, EmptyConf
<1>3. orig = [ns |-> orig.ns, saved |-> {}, other |-> orig.other]
  BY <1>1 DEF Conf
<1>4. RestoreConf(FallbackConf) = FallbackConf /\ RestoreConf(SetConf(FallbackConf)) = FallbackConf
  BY ServerAssumption DEF RestoreConf, SetConf, FallbackConf
<1>5. Clean(RestoreConf(orig))
  BY <1>1, <1>2, <1>3 DEF Clean, RestoreConf
<1>6. Clean(RestoreConf(SetConf(orig)))
  BY <1>1, <1>2, <1>3 DEF Clean, RestoreConf, SetConf
<1>7. QED
  BY <1>4, <1>5, <1>6 DEF Live, Clean

LEMMA CleanIsLive == ASSUME NEW f, Clean(f) PROVE Live(f) /\ Live(SetConf(f))
  BY DEF Clean, Live

LEMMA InitIInv == Init => IInv
<1> SUFFICES ASSUME Init PROVE IInv
  OBVIOUS
<1>1. orig \in Confs /\ conf \in Conf
  BY OrigShape DEF Init
<1>2. TypeOK
  BY <1>1, ConfTypes DEF Init, TypeOK, PCs
<1>3. QED
  BY <1>2, LinuxEngineAssumption
     DEF Init, IInv, PortInv, FileInv, CrashInv, Clean, Holding, PCs

LEMMA NextType == TypeOK /\ [Next]_vars => TypeOK'
<1> SUFFICES ASSUME TypeOK, [Next]_vars PROVE TypeOK'
  OBVIOUS
<1> USE ConfTypes DEF TypeOK, PCs, Goto, Faults
<1>1. ASSUME NEW p \in Proc, Step(p) PROVE TypeOK'
  <2>1. CASE runEngine(p) BY <2>1 DEF runEngine
  <2>2. CASE DnsStart(p) BY <2>2 DEF DnsStart
  <2>3. CASE SetRead(p) BY <2>3 DEF SetRead, GiveUp
  <2>4. CASE SetTruncate(p) BY <2>4 DEF SetTruncate, GiveUp
  <2>5. CASE SetWrite(p) BY <2>5 DEF SetWrite, GiveUp
  <2>6. CASE MgrStart(p) BY <2>6 DEF MgrStart
  <2>7. CASE Signal(p) BY <2>7 DEF Signal
  <2>8. CASE ResRead(p) BY <2>8 DEF ResRead, RestoreFails
  <2>9. CASE ResTruncate(p) BY <2>9 DEF ResTruncate, RestoreFails
  <2>10. CASE ResWrite(p) BY <2>10 DEF ResWrite, RestoreFails
  <2>11. CASE DnsStop(p) BY <2>11 DEF DnsStop
  <2>12. CASE Crash(p)
    <3>1. faults' \subseteq Faults
      BY <2>12 DEF Crash
    <3>2. QED
      BY <2>12, <3>1 DEF Crash
  <2>13. QED
    BY <1>1, <2>1, <2>2, <2>3, <2>4, <2>5, <2>6, <2>7, <2>8, <2>9, <2>10, <2>11,
       <2>12 DEF Step
<1>2. ASSUME NEW f \in Confs, Rewrite(f) PROVE TypeOK'
  <2>1. f \in Conf
    BY LinuxEngineAssumption DEF Conf, Ns
  <2>2. QED
    BY <1>2, <2>1 DEF Rewrite
<1>3. CASE UNCHANGED vars
  BY <1>3 DEF vars
<1>4. QED
  BY <1>1, <1>2, <1>3 DEF Next

LEMMA NextPort == TypeOK /\ PortInv /\ [Next]_vars => PortInv'
<1> SUFFICES ASSUME TypeOK, PortInv, [Next]_vars PROVE PortInv'
  OBVIOUS
<1> USE LinuxEngineAssumption DEF TypeOK, PortInv, Holding, PCs, Goto
<1>1. ASSUME NEW p \in Proc, Step(p) PROVE PortInv'
  <2>1. CASE runEngine(p) BY <2>1 DEF runEngine
  <2>2. CASE DnsStart(p) BY <2>2 DEF DnsStart
  <2>3. CASE SetRead(p) BY <2>3 DEF SetRead, GiveUp
  <2>4. CASE SetTruncate(p) BY <2>4 DEF SetTruncate, GiveUp
  <2>5. CASE SetWrite(p) BY <2>5 DEF SetWrite, GiveUp
  <2>6. CASE MgrStart(p) BY <2>6 DEF MgrStart
  <2>7. CASE Signal(p) BY <2>7 DEF Signal
  <2>8. CASE ResRead(p) BY <2>8 DEF ResRead, RestoreFails
  <2>9. CASE ResTruncate(p) BY <2>9 DEF ResTruncate, RestoreFails
  <2>10. CASE ResWrite(p) BY <2>10 DEF ResWrite, RestoreFails
  <2>11. CASE DnsStop(p) BY <2>11 DEF DnsStop
  <2>12. CASE Crash(p) BY <2>12 DEF Crash
  <2>13. QED
    BY <1>1, <2>1, <2>2, <2>3, <2>4, <2>5, <2>6, <2>7, <2>8, <2>9, <2>10, <2>11,
       <2>12 DEF Step
<1>2. ASSUME NEW f \in Confs, Rewrite(f) PROVE PortInv'
  BY <1>2 DEF Rewrite
<1>3. CASE UNCHANGED vars
  BY <1>3 DEF vars
<1>4. QED
  BY <1>1, <1>2, <1>3 DEF Next

\* The steps of a process keep what is known of the file: only the owner of the
\* port is at a step FileInv speaks of.
LEMMA NextFile == IInv /\ [Next]_vars => FileInv' /\ CrashInv'
<1> SUFFICES ASSUME IInv, [Next]_vars PROVE FileInv' /\ CrashInv'
  OBVIOUS
<1> USE LinuxEngineAssumption
    DEF IInv, TypeOK, PortInv, FileInv, CrashInv, Holding, PCs, Goto, Faults
<1>1. ASSUME NEW p \in Proc, Step(p) PROVE FileInv' /\ CrashInv'
  <2>0. orig' = orig
    BY <1>1 DEF Step, runEngine, DnsStart, SetRead, SetTruncate, SetWrite, MgrStart,
                Signal, ResRead, ResTruncate, ResWrite, DnsStop, Crash
  <2>1. CASE runEngine(p) BY <2>1 DEF runEngine, Clean, Live
  <2>2. CASE DnsStart(p) BY <2>2 DEF DnsStart, Clean, Live
  <2>3. CASE SetRead(p) BY <2>3 DEF SetRead, GiveUp, Clean, Live
  <2>4. CASE SetTruncate(p) BY <2>4 DEF SetTruncate, GiveUp, Clean, Live
  <2>5. CASE SetWrite(p) BY <2>5 DEF SetWrite, GiveUp, Clean, Live
  <2>6. CASE MgrStart(p) BY <2>6 DEF MgrStart, Clean, Live
  <2>7. CASE Signal(p) BY <2>7 DEF Signal, Clean, Live
  <2>8. CASE ResRead(p) BY <2>8 DEF ResRead, RestoreFails, Clean, Live
  <2>9. CASE ResTruncate(p) BY <2>9 DEF ResTruncate, RestoreFails, Clean, Live
  <2>10. CASE ResWrite(p)
    <3>1. faults = {} => Clean(RestoreConf(buf[p]))
      BY <2>10, RoundTrip DEF ResWrite
    <3>2. QED
      BY <2>10, <3>1 DEF ResWrite, RestoreFails, Clean, Live
  <2>11. CASE DnsStop(p) BY <2>11 DEF DnsStop, Clean, Live
  <2>12. CASE Crash(p) BY <2>12 DEF Crash, Clean, Live
  <2>13. QED
    BY <1>1, <2>1, <2>2, <2>3, <2>4, <2>5, <2>6, <2>7, <2>8, <2>9, <2>10, <2>11,
       <2>12 DEF Step
<1>2. ASSUME NEW f \in Confs, Rewrite(f) PROVE FileInv' /\ CrashInv'
  BY <1>2 DEF Rewrite, Rewriting, Clean, Live
<1>3. CASE UNCHANGED vars
  BY <1>3 DEF vars, Clean, Live
<1>4. QED
  BY <1>1, <1>2, <1>3 DEF Next

LEMMA Invariance == Spec => []IInv
<1>1. IInv /\ [Next]_vars => IInv'
  BY NextType, NextPort, NextFile DEF IInv
<1>2. QED
  BY InitIInv, <1>1, PTL DEF Spec

\* Every file, copy and history keeps its type.
THEOREM TypeCorrect == Spec => []TypeOK
  BY Invariance, PTL DEF IInv

\* run_linux.go:79-113: the bind of port 53 keeps the file to one process, for
\* any number of processes.
THEOREM PortGuards == Spec => []PortGuardsFile
<1>1. IInv => PortGuardsFile
  BY DEF IInv, PortInv, PortGuardsFile, Holding
<1>2. QED
  BY Invariance, <1>1, PTL

\* run_linux.go, system_linux.go: without faults the file is given back, for
\* any number of processes and any files.
THEOREM FileGivenBack == Spec => []FileRestored
<1>1. IInv => FileRestored
  BY DEF IInv, FileInv, FileRestored, Clean
<1>2. QED
  BY Invariance, <1>1, PTL

\* run_linux.go: without faults 127.0.0.1 is configured only while it is served.
THEOREM LoopbackSafe == Spec => []LoopbackServed
<1>1. IInv => LoopbackServed
  <2> SUFFICES ASSUME IInv, faults = {}, port = NoProc PROVE Loopback \notin conf.ns
    BY DEF LoopbackServed
  <2>1. Clean(conf) /\ Loopback \notin orig.ns
    BY OrigShape DEF IInv, FileInv, TypeOK
  <2>2. QED
    BY <2>1, ServerAssumption DEF Clean, FallbackConf
<1>2. QED
  BY Invariance, <1>1, PTL

\* system_linux.go:12-13: the original servers survive a crash until gecit is
\* started again.
THEOREM CrashSafe == Spec => []OriginalsSurviveCrash
<1>1. IInv => OriginalsSurviveCrash
  <2> SUFFICES ASSUME IInv, faults \subseteq {"crash"}, ~Torn
               PROVE  orig.ns \subseteq RestoreConf(conf).ns
    BY DEF OriginalsSurviveCrash
  <2>1. orig \in Confs
    BY DEF IInv, TypeOK
  <2>2. Live(conf)
    <3>1. CASE faults = {}
      <4>1. CASE port = NoProc
        BY <3>1, <4>1 DEF IInv, FileInv, Live
      <4>2. CASE port \in Proc
        <5>1. pc[port] \in Holding \ {"setWrite", "resWrite"}
          BY <4>2 DEF IInv, PortInv, Torn
        <5>2. QED
          BY <3>1, <4>2, <5>1 DEF IInv, FileInv, Live, Holding, PCs
      <4>3. QED
        BY <4>1, <4>2 DEF IInv, TypeOK
    <3>2. CASE faults = {"crash"}
      BY <3>2 DEF IInv, CrashInv
    <3>3. QED
      BY <3>1, <3>2
  <2>3. Clean(RestoreConf(conf))
    BY <2>1, <2>2, RoundTrip
  <2>4. QED
    BY <2>3 DEF Clean, EmptyConf
<1>2. QED
  BY Invariance, <1>1, PTL

\* system_linux.go:14-66: RestoreSystemDNS undoes SetSystemDNS for every file that is
\* not empty and has neither 127.0.0.1 nor saved lines, and leaves such a file itself
\* alone.
THEOREM RestoreUndoesSet ==
    ASSUME NEW f \in Conf, f.saved = {}, Loopback \notin f.ns, f # EmptyConf
    PROVE  RestoreConf(SetConf(f)) = f /\ RestoreConf(f) = f
<1>1. f = [ns |-> f.ns, saved |-> {}, other |-> f.other]
  BY DEF Conf
<1>2. ~(f.ns = {} /\ f.other = {})
  BY <1>1 DEF EmptyConf
<1>3. QED
  BY <1>1, <1>2 DEF RestoreConf, SetConf

\* system_linux.go:26: a run on the file a killed run has left drops the saved lines
\* and saves 127.0.0.1 in their place: no restore finds another server afterwards.
THEOREM RerunLosesServers ==
    ASSUME NEW f \in Conf
    PROVE  RestoreConf(SetConf(SetConf(f))).ns = {Loopback}
  BY DEF RestoreConf, SetConf
=============================================================================
