-------------------------- MODULE EbpfManagerProofs --------------------------
(* Proofs about the Linux engine, for every set of sockets, ports, addresses *)
(* and segment lengths, every threshold, counter width, map and ring size.   *)
EXTENDS EbpfManager, TLAPS

-----------------------------------------------------------------------------
(* The inductive invariant *)

\* A socket the program has not met yet.
FreshInv ==
    \A c \in Conn : sock[c] = "none" =>
        mss[c] = "normal" /\ c \notin tracked /\ ~cbFlag[c] /\ sent[c] = 0

\* What an entry of the map says of its socket: the count is at most the bytes
\* really sent, as it misses the segments no option space was reserved for and
\* those of a pause, and starts again when it wraps.
EntryInv ==
    \A c \in tracked : mss[c] = "small" /\ cbFlag[c] /\ bytesSent[c] <= sent[c]

KernelInv == FreshInv /\ EntryInv /\ RestoredOnlyPastThreshold

\* Which resources are held at which stage of Start and Stop.
StageInv ==
    /\ reader \in {"read", "inject"} => rawOpen
    /\ reader = "failed" => mgr \in {"run", "stop"}
    /\ rawOpen => mgr \in {"run", "stop", "wait"}
    /\ perfOpen => mgr \in {"raw", "run", "stop"}
    /\ attached => mgr \notin {"down", "attach", "unload"}
    /\ mgr \in {"down", "attach"} => ~enabled /\ tracked = {}

\* The ring is open only after the exclusions are in place.
RingInv ==
    /\ perfOpen => Excluded \subseteq excludeIps
    /\ reader = "inject" \/ cur = NoConn

\* Only configured ports are pushed.
FakeInv == targetPorts \subseteq Ports /\ FakeWarranted

IInv == TypeOK /\ KernelInv /\ StageInv /\ RingInv /\ ExcludedNeverFaked /\ FakeInv

-----------------------------------------------------------------------------
(* Helpers *)

\* The case split on Next that the proofs below share.
LEMMA NextCases ==
    ASSUME Next
    PROVE  \/ \E c \in Conn : Established(c) /\ UNCHANGED mgrVars
           \/ \E c \in Conn, n \in SegLens : SendSegment(c, n) /\ UNCHANGED mgrVars
           \/ \E c \in Conn : CloseSocket(c) /\ UNCHANGED mgrVars
           \/ Load \/ Attach \/ pushConfig
           \/ \E p \in Ports : pushTargetPort(p)
           \/ \E i \in Excluded : pushExcludeIP(i)
           \/ OpenReader \/ OpenRaw \/ StartFails
           \/ \E b \in BOOLEAN : UpdateEnabled(b)
           \/ Stop \/ StopReader \/ StopRaw \/ StopDetach \/ StopUnload
           \/ \E c \in Conn : readEvents(c)
           \/ injectFake \/ ReaderReturns \/ Crash
  BY DEF Next, KernelStep, StartStep, StopStep, ReaderStep

LEMMA ModBound == \A m \in Nat \ {0} : \A x \in Nat : x % m \in Nat /\ x % m <= x
  OBVIOUS

\* A counter that wraps shows at most what was added to it.
LEMMA CountAtMost ==
    ASSUME NEW a \in Nat, NEW n \in SegLens
    PROVE  n \in Nat /\ (a + n) % CounterMod \in Nat /\ (a + n) % CounterMod <= a + n
  BY ConnAssumption, ModBound

\* The threshold is a natural number, whatever int was configured.
LEMMA ThresholdType == RestoreAfter \in Nat
  BY ConnAssumption DEF RestoreAfter

LEMMA InitIInv == Init => IInv
<1> SUFFICES ASSUME Init PROVE IInv
  OBVIOUS
<1> USE DEF Init, KernelInit
<1>1. TypeOK
  BY ManagerAssumption DEF TypeOK, KernelTypeOK, Stages
<1>2. FreshInv /\ EntryInv /\ RestoredOnlyPastThreshold
  BY DEF FreshInv, EntryInv, RestoredOnlyPastThreshold
<1>3. StageInv /\ RingInv /\ ExcludedNeverFaked /\ FakeInv
  BY ManagerAssumption DEF StageInv, RingInv, ExcludedNeverFaked, FakeInv, FakeWarranted
<1>4. QED
  BY <1>1, <1>2, <1>3 DEF IInv, KernelInv

\* What InsertTracked and EmitEvent may do to their sets.
LEMMA InsertEffect ==
    ASSUME NEW c \in Conn, InsertTracked(c)
    PROVE  /\ c \in tracked'
           /\ tracked' \subseteq tracked \cup {c}
  BY DEF InsertTracked

LEMMA EmitEffect ==
    ASSUME NEW c \in Conn, EmitEvent(c)
    PROVE  perf' = perf \/ (perfOpen /\ perf' = perf \cup {c})
  BY DEF EmitEvent

-----------------------------------------------------------------------------
(* Type correctness *)

LEMMA NextType == TypeOK /\ [Next]_vars => TypeOK'
<1> SUFFICES ASSUME TypeOK, [Next]_vars PROVE TypeOK'
  OBVIOUS
<1> USE DEF TypeOK, KernelTypeOK
<1>1. ASSUME NEW c \in Conn, Established(c), UNCHANGED mgrVars PROVE TypeOK'
  <2>1. CASE HandleEstablished(c)
    <3>1. mss' \in [Conn -> {"normal", "small", "restored"}] /\ bytesSent' \in [Conn -> Nat]
      BY <2>1 DEF HandleEstablished
    <3>2. cbFlag' \in [Conn -> BOOLEAN]
      BY <2>1 DEF HandleEstablished
    <3>3. tracked' \subseteq Conn /\ perf' \subseteq Conn
      BY <2>1, InsertEffect, EmitEffect DEF HandleEstablished
    <3>4. sock' \in [Conn -> {"none", "est", "closed"}]
      BY <1>1 DEF Established
    <3>5. QED
      BY <1>1, <3>1, <3>2, <3>3, <3>4 DEF Established, mgrVars
  <2>2. CASE UNCHANGED <<mss, perf, tracked, bytesSent, cbFlag>>
    <3>1. sock' \in [Conn -> {"none", "est", "closed"}]
      BY <1>1 DEF Established
    <3>2. QED
      BY <1>1, <2>2, <3>1 DEF Established, mgrVars
  <2>3. QED
    BY <1>1, <2>1, <2>2 DEF Established
<1>2. ASSUME NEW c \in Conn, NEW n \in SegLens, SendSegment(c, n), UNCHANGED mgrVars PROVE TypeOK'
  <2>1. sent' \in [Conn -> Nat]
    BY <1>2, ConnAssumption DEF SendSegment
  <2>2. CASE HandleWriteHdrOpt(c, n)
    <3>1. (bytesSent[c] + n) % CounterMod \in Nat
      BY CountAtMost
    <3>2. mss' \in [Conn -> {"normal", "small", "restored"}] /\ bytesSent' \in [Conn -> Nat]
      BY <2>2, <3>1 DEF HandleWriteHdrOpt
    <3>3. cbFlag' \in [Conn -> BOOLEAN] /\ tracked' \subseteq Conn
      BY <2>2 DEF HandleWriteHdrOpt
    <3>4. QED
      BY <1>2, <2>1, <3>2, <3>3 DEF SendSegment, mgrVars, perfVars
  <2>3. CASE UNCHANGED <<mss, cbFlag, tracked, bytesSent>>
    BY <1>2, <2>1, <2>3 DEF SendSegment, mgrVars, perfVars
  <2>4. QED
    BY <1>2, <2>2, <2>3 DEF SendSegment
<1>3. ASSUME NEW c \in Conn, CloseSocket(c), UNCHANGED mgrVars PROVE TypeOK'
  <2>1. sock' \in [Conn -> {"none", "est", "closed"}]
    BY <1>3 DEF CloseSocket
  <2>2. QED
    BY <1>3, <2>1 DEF CloseSocket, mgrVars, mapVars, perfVars
<1> USE DEF Stages, kernelVars, mapVars, perfVars, sockVars
<1>4. CASE Load \/ StartFails \/ Stop \/ OpenRaw
  BY <1>4 DEF Load, StartFails, Stop, OpenRaw
<1>5. CASE Attach
  BY <1>5 DEF Attach
<1>6. CASE pushConfig
  BY <1>6 DEF pushConfig
<1>7. ASSUME NEW p \in Ports, pushTargetPort(p) PROVE TypeOK'
  <2>1. targetPorts' \subseteq Port /\ mgr' \in Stages
    BY <1>7, ManagerAssumption DEF pushTargetPort
  <2>2. QED
    BY <1>7, <2>1 DEF pushTargetPort
<1>8. ASSUME NEW i \in Excluded, pushExcludeIP(i) PROVE TypeOK'
  <2>1. excludeIps' \subseteq Ip
    BY <1>8, ManagerAssumption DEF pushExcludeIP, Excluded
  <2>2. QED
    BY <1>8, <2>1 DEF pushExcludeIP
<1>9. CASE OpenReader
  BY <1>9 DEF OpenReader
<1>10. ASSUME NEW b \in BOOLEAN, UpdateEnabled(b) PROVE TypeOK'
  BY <1>10 DEF UpdateEnabled, mgrVars
<1>11. CASE StopReader \/ StopRaw
  BY <1>11 DEF StopReader, StopRaw
<1>12. CASE StopDetach
  BY <1>12 DEF StopDetach
<1>13. CASE StopUnload
  BY <1>13 DEF StopUnload, FreeMaps
<1>14. ASSUME NEW c \in Conn, readEvents(c) PROVE TypeOK'
  BY <1>14 DEF readEvents
<1>15. CASE injectFake
  <2>1. faked' \subseteq Conn
    BY <1>15 DEF injectFake
  <2>2. QED
    BY <1>15, <2>1 DEF injectFake
<1>16. CASE ReaderReturns
  BY <1>16 DEF ReaderReturns
<1>17. CASE Crash
  BY <1>17 DEF Crash, FreeMaps
<1>18. CASE UNCHANGED vars
  BY <1>18 DEF vars, mgrVars
<1>19. QED
  BY <1>1, <1>2, <1>3, <1>4, <1>5, <1>6, <1>7, <1>8, <1>9, <1>10, <1>11, <1>12, <1>13, <1>14,
     <1>15, <1>16, <1>17, <1>18, NextCases

-----------------------------------------------------------------------------
(* Stages, ring and exclusions *)

LEMMA NextStage == TypeOK /\ StageInv /\ [Next]_vars => StageInv'
<1> SUFFICES ASSUME TypeOK, StageInv, [Next]_vars PROVE StageInv'
  OBVIOUS
<1> USE DEF StageInv
<1>1. ASSUME NEW c \in Conn, Established(c), UNCHANGED mgrVars PROVE StageInv'
  <2>1. CASE ~attached
    BY <1>1, <2>1 DEF Established, Active, mgrVars
  <2>2. CASE attached
    BY <1>1, <2>2 DEF Established, mgrVars
  <2>3. QED
    BY <2>1, <2>2
<1>2. ASSUME NEW c \in Conn, NEW n \in SegLens, SendSegment(c, n), UNCHANGED mgrVars
      PROVE  StageInv'
  <2>1. tracked' \subseteq tracked
    BY <1>2 DEF SendSegment, HandleWriteHdrOpt
  <2>2. QED
    BY <1>2, <2>1 DEF SendSegment, mgrVars, perfVars
<1> USE DEF kernelVars, mapVars, perfVars
<1>3. ASSUME NEW c \in Conn, CloseSocket(c), UNCHANGED mgrVars PROVE StageInv'
  BY <1>3 DEF CloseSocket, mgrVars
<1>4. CASE Load \/ StartFails \/ Stop \/ OpenRaw \/ Attach
  BY <1>4 DEF Load, StartFails, Stop, OpenRaw, Attach
<1>5. CASE pushConfig \/ OpenReader
  BY <1>5 DEF pushConfig, OpenReader
<1>6. ASSUME NEW p \in Ports, pushTargetPort(p) PROVE StageInv'
  BY <1>6 DEF pushTargetPort
<1>7. ASSUME NEW i \in Excluded, pushExcludeIP(i) PROVE StageInv'
  BY <1>7 DEF pushExcludeIP
<1>8. ASSUME NEW b \in BOOLEAN, UpdateEnabled(b) PROVE StageInv'
  BY <1>8 DEF UpdateEnabled, mgrVars
<1>9. CASE StopReader \/ StopRaw \/ StopDetach
  BY <1>9 DEF StopReader, StopRaw, StopDetach
<1>10. CASE StopUnload \/ Crash
  BY <1>10 DEF StopUnload, Crash, FreeMaps
<1>11. ASSUME NEW c \in Conn, readEvents(c) PROVE StageInv'
  BY <1>11 DEF readEvents
<1>12. CASE injectFake \/ ReaderReturns
  BY <1>12 DEF injectFake, ReaderReturns
<1>13. CASE UNCHANGED vars
  BY <1>13 DEF vars, mgrVars
<1>14. QED
  BY <1>1, <1>2, <1>3, <1>4, <1>5, <1>6, <1>7, <1>8, <1>9, <1>10, <1>11, <1>12, <1>13, NextCases

\* Only handle_established puts an event into the ring, only for a socket that
\* is not excluded at that moment, and an open ring has all the exclusions.
LEMMA NextRing ==
    TypeOK /\ StageInv /\ RingInv /\ ExcludedNeverFaked /\ [Next]_vars
        => RingInv' /\ ExcludedNeverFaked'
<1> SUFFICES ASSUME TypeOK, StageInv, RingInv, ExcludedNeverFaked, [Next]_vars
             PROVE  RingInv' /\ ExcludedNeverFaked'
  OBVIOUS
<1> USE DEF RingInv, ExcludedNeverFaked
<1>1. ASSUME NEW c \in Conn, Established(c), UNCHANGED mgrVars
      PROVE  RingInv' /\ ExcludedNeverFaked'
  <2>1. perf' = perf \/ (perf' = perf \cup {c} /\ remote_ip4(c) \notin Excluded)
    BY <1>1, EmitEffect DEF Established, HandleEstablished, Eligible
  <2>2. ExcludeMap /\ remote_ip4(c) \notin Excluded => dstIp[c] \notin ExcludeIPs \ V6
    BY DEF Excluded, remote_ip4
  <2>3. UNCHANGED <<perfOpen, excludeIps, reader, cur, faked>>
    BY <1>1 DEF Established, mgrVars
  <2>4. QED
    BY <2>1, <2>2, <2>3
<1> USE DEF kernelVars, mapVars, perfVars
<1>2. ASSUME NEW c \in Conn, NEW n \in SegLens, SendSegment(c, n), UNCHANGED mgrVars
      PROVE  RingInv' /\ ExcludedNeverFaked'
  BY <1>2 DEF SendSegment, mgrVars
<1>3. ASSUME NEW c \in Conn, CloseSocket(c), UNCHANGED mgrVars
      PROVE  RingInv' /\ ExcludedNeverFaked'
  BY <1>3 DEF CloseSocket, mgrVars
<1>4. CASE Load \/ StartFails \/ Stop \/ Attach \/ pushConfig
  BY <1>4 DEF Load, StartFails, Stop, Attach, pushConfig
<1>5. CASE OpenReader
  BY <1>5 DEF OpenReader
<1>6. CASE OpenRaw
  BY <1>6 DEF OpenRaw, StageInv
<1>7. ASSUME NEW p \in Ports, pushTargetPort(p) PROVE RingInv' /\ ExcludedNeverFaked'
  BY <1>7 DEF pushTargetPort
<1>8. ASSUME NEW i \in Excluded, pushExcludeIP(i) PROVE RingInv' /\ ExcludedNeverFaked'
  BY <1>8 DEF pushExcludeIP
<1>9. ASSUME NEW b \in BOOLEAN, UpdateEnabled(b) PROVE RingInv' /\ ExcludedNeverFaked'
  BY <1>9 DEF UpdateEnabled, mgrVars
<1>10. CASE StopReader \/ StopRaw \/ StopDetach
  BY <1>10 DEF StopReader, StopRaw, StopDetach
<1>11. CASE StopUnload
  BY <1>11 DEF StopUnload, StageInv
<1>12. CASE Crash
  BY <1>12 DEF Crash
<1>13. ASSUME NEW c \in Conn, readEvents(c) PROVE RingInv' /\ ExcludedNeverFaked'
  BY <1>13 DEF readEvents
<1>14. CASE injectFake
  <2>1. cur \in Conn /\ NoConn \notin Conn
    BY <1>14, ManagerAssumption DEF injectFake, TypeOK
  <2>2. QED
    BY <1>14, <2>1 DEF injectFake
<1>15. CASE ReaderReturns
  BY <1>15 DEF ReaderReturns
<1>16. CASE UNCHANGED vars
  BY <1>16 DEF vars, mgrVars
<1>17. QED
  BY <1>1, <1>2, <1>3, <1>4, <1>5, <1>6, <1>7, <1>8, <1>9, <1>10, <1>11, <1>12, <1>13, <1>14,
     <1>15, <1>16, NextCases

\* A socket meets the program once, so its event is made once; the goroutine moves
\* it from the ring to its hand and from there to the wire.
LEMMA NextFake == TypeOK /\ RingInv /\ FakeInv /\ [Next]_vars => FakeInv'
<1> SUFFICES ASSUME TypeOK, RingInv, FakeInv, [Next]_vars PROVE FakeInv'
  OBVIOUS
<1> USE DEF FakeInv, FakeWarranted
<1>1. ASSUME NEW c \in Conn, Established(c), UNCHANGED mgrVars PROVE FakeInv'
  <2>1. c \notin faked \cup perf \cup ({cur} \ {NoConn}) /\ NoConn \notin Conn
    BY <1>1, ManagerAssumption DEF Established
  <2>2. perf' = perf \/ (perf' = perf \cup {c} /\ dstPort[c] \in Ports)
    BY <1>1, EmitEffect DEF Established, HandleEstablished, Eligible
  <2>3. /\ sock'[c] = "est"
        /\ \A d \in Conn : sock[d] # "none" => sock'[d] # "none"
    BY <1>1 DEF Established, TypeOK, KernelTypeOK
  <2>4. faked \cup perf \cup ({cur} \ {NoConn}) \subseteq Conn
    BY DEF TypeOK, KernelTypeOK
  <2>5. UNCHANGED <<faked, cur, targetPorts>>
    BY <1>1 DEF Established, mgrVars
  <2>6. QED
    BY <2>1, <2>2, <2>3, <2>4, <2>5
<1> USE DEF kernelVars, mapVars, perfVars, sockVars
<1>2. ASSUME NEW c \in Conn, NEW n \in SegLens, SendSegment(c, n), UNCHANGED mgrVars
      PROVE  FakeInv'
  BY <1>2 DEF SendSegment, mgrVars
<1>3. ASSUME NEW c \in Conn, CloseSocket(c), UNCHANGED mgrVars PROVE FakeInv'
  <2>1. \A d \in Conn : sock[d] # "none" => sock'[d] # "none"
    BY <1>3 DEF CloseSocket, TypeOK, KernelTypeOK
  <2>2. faked \cup perf \cup ({cur} \ {NoConn}) \subseteq Conn
    BY DEF TypeOK, KernelTypeOK
  <2>3. QED
    BY <1>3, <2>1, <2>2 DEF CloseSocket, mgrVars
<1>4. CASE Load \/ StartFails \/ Stop \/ Attach \/ pushConfig
  BY <1>4 DEF Load, StartFails, Stop, Attach, pushConfig
<1>5. CASE OpenReader \/ OpenRaw
  BY <1>5 DEF OpenReader, OpenRaw
<1>6. ASSUME NEW p \in Ports, pushTargetPort(p) PROVE FakeInv'
  BY <1>6 DEF pushTargetPort
<1>7. ASSUME NEW i \in Excluded, pushExcludeIP(i) PROVE FakeInv'
  BY <1>7 DEF pushExcludeIP
<1>8. ASSUME NEW b \in BOOLEAN, UpdateEnabled(b) PROVE FakeInv'
  BY <1>8 DEF UpdateEnabled, mgrVars
<1>9. CASE StopReader \/ StopRaw \/ StopDetach
  BY <1>9 DEF StopReader, StopRaw, StopDetach
<1>10. CASE StopUnload
  BY <1>10 DEF StopUnload, FreeMaps
<1>11. CASE Crash
  <2>1. NoConn \notin faked
    BY ManagerAssumption DEF TypeOK
  <2>2. QED
    BY <1>11, <2>1 DEF Crash, FreeMaps
<1>12. ASSUME NEW c \in Conn, readEvents(c) PROVE FakeInv'
  BY <1>12 DEF readEvents
<1>13. CASE injectFake
  <2>1. cur \in Conn /\ NoConn \notin faked \cup perf \cup Conn
    BY <1>13, ManagerAssumption DEF injectFake, TypeOK, KernelTypeOK
  <2>2. QED
    BY <1>13, <2>1 DEF injectFake
<1>14. CASE ReaderReturns
  BY <1>14 DEF ReaderReturns
<1>15. CASE UNCHANGED vars
  BY <1>15 DEF vars, mgrVars
<1>16. QED
  BY <1>1, <1>2, <1>3, <1>4, <1>5, <1>6, <1>7, <1>8, <1>9, <1>10, <1>11, <1>12, <1>13, <1>14,
     <1>15, NextCases

-----------------------------------------------------------------------------
(* The MSS of every socket *)

\* A socket meets the program once: its entry starts at zero.
LEMMA EstablishedKernel ==
    ASSUME TypeOK, KernelInv, NEW c \in Conn, Established(c)
    PROVE  KernelInv'
<1> USE DEF KernelInv, TypeOK, KernelTypeOK
<1>0. /\ mss[c] = "normal" /\ c \notin tracked /\ sent[c] = 0
      /\ sock' = [sock EXCEPT ![c] = "est"]
      /\ UNCHANGED sent
  BY DEF Established, FreshInv
<1>1. CASE UNCHANGED <<mss, tracked, bytesSent, cbFlag>>
  <2>1. FreshInv'
    BY <1>0, <1>1 DEF FreshInv
  <2>2. EntryInv' /\ RestoredOnlyPastThreshold'
    BY <1>0, <1>1 DEF EntryInv, RestoredOnlyPastThreshold
  <2>3. QED
    BY <2>1, <2>2
<1>2. CASE HandleEstablished(c)
  <2>1. /\ mss'[c] = "small" /\ cbFlag'[c] /\ bytesSent'[c] = 0
        /\ \A d \in Conn \ {c} : /\ mss'[d] = mss[d] /\ cbFlag'[d] = cbFlag[d]
                                 /\ bytesSent'[d] = bytesSent[d] /\ sock'[d] = sock[d]
    BY <1>0, <1>2 DEF HandleEstablished
  <2>2. c \in tracked' /\ tracked' \subseteq tracked \cup {c}
    BY <1>2, InsertEffect DEF HandleEstablished
  <2>3. FreshInv'
    BY <1>0, <2>1, <2>2 DEF FreshInv
  <2>4. EntryInv'
    BY <1>0, <2>1, <2>2 DEF EntryInv
  <2>5. RestoredOnlyPastThreshold'
    BY <1>0, <2>1, <2>2 DEF RestoredOnlyPastThreshold
  <2>6. QED
    BY <2>3, <2>4, <2>5
<1>3. QED
  BY <1>1, <1>2 DEF Established

\* A segment the program sees is added to the count and to the bytes sent, one
\* it does not see to the bytes sent only: past the threshold the count shows
\* that the socket is past it too.
LEMMA SegmentKernel ==
    ASSUME TypeOK, KernelInv, NEW c \in Conn, NEW n \in SegLens, SendSegment(c, n)
    PROVE  KernelInv'
<1> USE DEF KernelInv, TypeOK, KernelTypeOK
<1> DEFINE count == (bytesSent[c] + n) % CounterMod
<1>0. /\ n \in Nat
      /\ sock[c] = "est"
      /\ sent'[c] = sent[c] + n
      /\ \A d \in Conn \ {c} : sent'[d] = sent[d]
      /\ UNCHANGED sock
  BY ConnAssumption DEF SendSegment
<1>1. CASE c \in tracked /\ HandleWriteHdrOpt(c, n)
  <2>0. count \in Nat /\ count <= sent'[c]
    <3>1. count \in Nat /\ count <= bytesSent[c] + n
      BY CountAtMost
    <3>2. bytesSent[c] <= sent[c]
      BY <1>1 DEF EntryInv
    <3> HIDE DEF count
    <3>3. QED
      BY <1>0, <3>1, <3>2
  <2>1. CASE count > RestoreAfter
    <3>1. /\ mss'[c] = "restored" /\ ~cbFlag'[c] /\ tracked' = tracked \ {c}
          /\ bytesSent' = bytesSent
          /\ \A d \in Conn \ {c} : mss'[d] = mss[d] /\ cbFlag'[d] = cbFlag[d]
      BY <1>1, <2>1 DEF HandleWriteHdrOpt
    <3> HIDE DEF count
    <3>2. FreshInv' /\ EntryInv'
      BY <1>0, <3>1 DEF FreshInv, EntryInv
    <3>3. sent'[c] > RestoreAfter
      BY <1>0, <2>0, <2>1, ThresholdType
    <3>4. RestoredOnlyPastThreshold'
      <4>1. ASSUME NEW d \in Conn, mss'[d] = "restored"
            PROVE  sent'[d] > RestoreAfter /\ d \notin tracked' /\ ~cbFlag'[d]
        BY <1>0, <3>1, <3>3, <4>1 DEF RestoredOnlyPastThreshold
      <4>2. QED
        BY <4>1 DEF RestoredOnlyPastThreshold, RestoreAfter
    <3>5. QED
      BY <3>2, <3>4
  <2>2. CASE ~(count > RestoreAfter)
    <3>1. /\ bytesSent'[c] = count
          /\ \A d \in Conn \ {c} : bytesSent'[d] = bytesSent[d]
          /\ UNCHANGED <<mss, cbFlag, tracked>>
      BY <1>1, <2>2 DEF HandleWriteHdrOpt
    <3> HIDE DEF count
    <3>2. FreshInv' /\ EntryInv'
      BY <1>0, <2>0, <3>1 DEF FreshInv, EntryInv
    <3>3. RestoredOnlyPastThreshold'
      BY <1>0, <1>1, <3>1 DEF RestoredOnlyPastThreshold, EntryInv
    <3>4. QED
      BY <3>2, <3>3
  <2>3. QED
    BY <2>1, <2>2
<1>2. CASE UNCHANGED <<mss, cbFlag, tracked, bytesSent>>
  <2>1. FreshInv' /\ EntryInv'
    BY <1>0, <1>2 DEF FreshInv, EntryInv
  <2>2. RestoredOnlyPastThreshold'
    <3>1. ASSUME NEW d \in Conn, mss'[d] = "restored"
          PROVE  sent'[d] > RestoreAfter /\ d \notin tracked' /\ ~cbFlag'[d]
      <4>1. sent[d] > RestoreAfter /\ d \notin tracked /\ ~cbFlag[d]
        BY <1>2, <3>1 DEF RestoredOnlyPastThreshold
      <4>2. QED
        BY <1>0, <1>2, <4>1, ThresholdType
    <3>2. QED
      BY <3>1 DEF RestoredOnlyPastThreshold, RestoreAfter
  <2>3. QED
    BY <2>1, <2>2
<1>3. QED
  BY <1>1, <1>2 DEF SendSegment

\* Steps of the manager touch no socket: they leave the entries or free the map.
LEMMA ManagerKernel ==
    ASSUME KernelInv, UNCHANGED <<mss, cbFlag, sent, bytesSent>>,
           \A c \in Conn : sock'[c] = "none" => sock[c] = "none",
           tracked' \subseteq tracked
    PROVE  KernelInv'
  BY DEF KernelInv, FreshInv, EntryInv, RestoredOnlyPastThreshold, RestoreAfter

LEMMA NextKernel == TypeOK /\ KernelInv /\ [Next]_vars => KernelInv'
<1> SUFFICES ASSUME TypeOK, KernelInv, [Next]_vars PROVE KernelInv'
  OBVIOUS
<1>1. ASSUME NEW c \in Conn, Established(c) PROVE KernelInv'
  BY <1>1, EstablishedKernel
<1>2. ASSUME NEW c \in Conn, NEW n \in SegLens, SendSegment(c, n) PROVE KernelInv'
  BY <1>2, SegmentKernel
<1> USE DEF kernelVars, mapVars, perfVars, sockVars
<1>3. ASSUME NEW c \in Conn, CloseSocket(c) PROVE KernelInv'
  BY <1>3, ManagerKernel DEF CloseSocket, TypeOK, KernelTypeOK
<1>4. ASSUME UNCHANGED kernelVars PROVE KernelInv'
  BY <1>4, ManagerKernel
<1>5. ASSUME NEW c \in Conn, readEvents(c) PROVE KernelInv'
  BY <1>5, ManagerKernel DEF readEvents
<1>6. CASE Attach \/ pushConfig \/ OpenReader \/ StopReader \/ StopDetach
  BY <1>6, ManagerKernel DEF Attach, pushConfig, OpenReader, StopReader, StopDetach
<1>7. ASSUME NEW p \in Ports, pushTargetPort(p) PROVE KernelInv'
  BY <1>7, ManagerKernel DEF pushTargetPort
<1>8. ASSUME NEW i \in Excluded, pushExcludeIP(i) PROVE KernelInv'
  BY <1>8, ManagerKernel DEF pushExcludeIP
<1>9. ASSUME NEW b \in BOOLEAN, UpdateEnabled(b) PROVE KernelInv'
  BY <1>9, ManagerKernel DEF UpdateEnabled
<1>10. CASE StopUnload \/ Crash
  BY <1>10, ManagerKernel DEF StopUnload, Crash, FreeMaps
<1>11. QED
  BY <1>1, <1>2, <1>3, <1>4, <1>5, <1>6, <1>7, <1>8, <1>9, <1>10, NextCases
     DEF Load, StartFails, Stop, OpenRaw, StopRaw, injectFake, ReaderReturns, vars

LEMMA Invariance == Spec => []IInv
<1>1. IInv /\ [Next]_vars => IInv'
  BY NextType, NextStage, NextRing, NextFake, NextKernel DEF IInv
<1>2. QED
  BY InitIInv, <1>1, PTL DEF Spec

-----------------------------------------------------------------------------

\* The kernel program and the manager keep their variables typed.
THEOREM TypeCorrect == Spec => []TypeOK
  BY Invariance, PTL DEF IInv

\* sockops.bpf.c:73-80: no MSS has been raised again.
NeverRestored == \A c \in Conn : mss[c] # "restored"

\* sockops.bpf.c:73-77: handle_hdr_opt_len reserves no option space, so unless a
\* neighbour does, the program never raises an MSS it has lowered: the finding of
\* the run mss_restored is not one of some interleavings but of all.
THEOREM NoWayBack == ~Neighbour => (Spec => []NeverRestored)
<1> SUFFICES ASSUME ~Neighbour PROVE Spec => []NeverRestored
  OBVIOUS
<1>1. Init => NeverRestored
  BY DEF Init, KernelInit, NeverRestored
<1>2. TypeOK /\ NeverRestored /\ [Next]_vars => NeverRestored'
  <2> SUFFICES ASSUME TypeOK, NeverRestored, [Next]_vars PROVE NeverRestored'
    OBVIOUS
  <2>1. ASSUME NEW c \in Conn, Established(c) PROVE NeverRestored'
    BY <2>1 DEF Established, HandleEstablished, NeverRestored, TypeOK, KernelTypeOK
  <2>2. CASE UNCHANGED mss
    BY <2>2 DEF NeverRestored
  <2>3. ASSUME NEW c \in Conn, NEW n \in SegLens, SendSegment(c, n) PROVE UNCHANGED mss
    BY <2>3 DEF SendSegment
  <2> USE DEF kernelVars, sockVars
  <2>4. CASE \/ Load \/ Attach \/ pushConfig \/ OpenReader \/ OpenRaw \/ StartFails \/ Stop
             \/ StopReader \/ StopRaw \/ StopDetach \/ StopUnload \/ Crash
             \/ injectFake \/ ReaderReturns \/ UNCHANGED vars
    BY <2>2, <2>4 DEF Load, Attach, pushConfig, OpenReader, OpenRaw, StartFails, Stop,
       StopReader, StopRaw, StopDetach, StopUnload, Crash, injectFake, ReaderReturns, vars
  <2>5. QED
    BY <2>1, <2>2, <2>3, <2>4, NextCases
       DEF CloseSocket, pushTargetPort, pushExcludeIP, UpdateEnabled, readEvents
<1>3. QED
  BY <1>1, <1>2, TypeCorrect, PTL DEF Spec

\* sockops.bpf.c:91-103: the MSS is never raised before more than
\* restore_after_bytes were sent, whatever the segment lengths, also when the
\* 32-bit counter wraps and for every configured int.
THEOREM RestoreSafe == Spec => []RestoredOnlyPastThreshold
  BY Invariance, PTL DEF IInv, KernelInv

\* config.go:51-70, manager.go:128-143: no fake for a DoH upstream with an IPv4
\* address, in any order of handshakes and map updates, if the object has the map.
THEOREM ExclusionSafe == Spec => []ExcludedNeverFaked
  BY Invariance, PTL DEF IInv

\* manager.go:228-241: the raw socket outlives the goroutine that uses it.
THEOREM RawSafe == Spec => []RawOpenWhileInjecting
<1>1. IInv => RawOpenWhileInjecting
  BY DEF IInv, StageInv, RawOpenWhileInjecting
<1>2. QED
  BY Invariance, <1>1, PTL

\* manager.go:110-145, 228-254: a manager that is down holds nothing.
THEOREM ReleaseSafe == Spec => []DownReleasesAll
<1>1. IInv => DownReleasesAll
  BY DEF IInv, TypeOK, StageInv, DownReleasesAll
<1>2. QED
  BY Invariance, <1>1, PTL

\* sockops.bpf.c:36-70, manager.go:166-194: at most one fake per socket, and only for
\* one that has connected to a configured port.
THEOREM FakeSafe == Spec => []FakeWarranted
  BY Invariance, PTL DEF IInv, FakeInv

-----------------------------------------------------------------------------
(* What the liveness of Stop rests on: it only goes forward *)

\* The stage of Stop that follows a stage.
StopNext == [stop |-> "wait", wait |-> "detach", detach |-> "unload", unload |-> "down"]

\* Steps readEvents has left once its reader is closed.
ReaderLeft == IF reader = "inject" THEN 2 ELSE IF reader = "read" THEN 1 ELSE 0

\* manager.go:228-254: whatever callbacks and the goroutine do, a Stop goes through its
\* stages in order, is left only at its end (or with the process), and its wg.Wait is
\* for at most two more steps of the goroutine: no event is taken up in between.
StopOnlyForward ==
    [][/\ mgr \in DOMAIN StopNext => mgr' \in {mgr, StopNext[mgr], "down"}
       /\ mgr = "wait" /\ reader' # reader => ReaderLeft' < ReaderLeft]_vars

\* manager.go:228-254: Stop is bounded, for every number of sockets and ring size.
THEOREM StopBounded == Spec => StopOnlyForward
<1>1. ASSUME IInv, [Next]_vars
      PROVE  /\ mgr \in DOMAIN StopNext => mgr' \in {mgr, StopNext[mgr], "down"}
             /\ mgr = "wait" /\ reader' # reader => ReaderLeft' < ReaderLeft
  <2> USE DEF StopNext, ReaderLeft
  <2>1. CASE mgr' = mgr /\ reader' = reader
    BY <2>1
  <2>2. CASE Load \/ Attach \/ pushConfig \/ OpenReader \/ OpenRaw \/ StartFails \/ Stop
    BY <2>2 DEF Load, Attach, pushConfig, OpenReader, OpenRaw, StartFails, Stop
  <2>3. ASSUME NEW p \in Ports, pushTargetPort(p) PROVE mgr \notin DOMAIN StopNext
    BY <2>3 DEF pushTargetPort
  <2>4. CASE StopReader \/ StopRaw \/ StopDetach \/ StopUnload
    BY <2>4 DEF StopReader, StopRaw, StopDetach, StopUnload
  <2>5. ASSUME NEW c \in Conn, readEvents(c) PROVE mgr' = mgr /\ mgr # "wait"
    BY <1>1, <2>5 DEF readEvents, IInv, StageInv
  <2>6. CASE injectFake \/ ReaderReturns
    BY <2>6 DEF injectFake, ReaderReturns
  <2>7. CASE Crash
    BY <1>1, <2>7 DEF Crash, IInv, TypeOK, StageInv
  <2>8. QED
    BY <1>1, <2>1, <2>2, <2>3, <2>4, <2>5, <2>6, <2>7, NextCases
       DEF pushExcludeIP, UpdateEnabled, mgrVars, vars
<1>2. QED
  BY Invariance, <1>1, PTL DEF StopOnlyForward, Spec
=============================================================================
