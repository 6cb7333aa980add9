---------------------------- MODULE TunFlowProofs ----------------------------
(* Proofs about the TUN engine's connections, for every number of them, of    *)
(* local ports and of fakes, and for any losses and copies of the SYN-ACKs.   *)
EXTENDS TunFlow, TLAPS

\* The stages before a handler has sent its last fake.
Early == {"idle", "dial", "read", "seq", "call", "wait", "inject"}

\* Where a handler is tells what it has sent.
PhaseInv ==
    \A c \in Conn :
        /\ pc[c] \in Early => c \notin real /\ c \notin gaveUp
        /\ pc[c] = "write" => c \notin real /\ (fakes[c] = Burst \/ c \in gaveUp)

Dialled == {c \in Conn : pc[c] \notin {"idle", "dial"} /\ lport[c] \in LPort}

\* A local port belongs to one open socket of a family.
OwnPort ==
    /\ \A c \in Conn : Open(c) => lport[c] \in LPort
    /\ \A c, d \in Conn : Open(c) /\ Open(d) /\ SameFamily(c, d) /\ lport[c] = lport[d] => c = d

\* A captured event belongs to a connection that was dialled, and is filed under
\* the port this connection has or had; only dialled connections ask for one.
RingInv  == \A i \in 1..Len(ring) : ring[i] \in Dialled
ConnsInv == \A q \in LPort : conns[q] # None => conns[q] \in Dialled /\ lport[conns[q]] = q
GotInv   ==
    \A c \in Conn :
        /\ got[c] # None => c \in Dialled
        /\ got[c] \in Conn => got[c] \in Dialled

PortInv == OwnPort /\ RingInv /\ ConnsInv /\ GotInv

IInv == TypeOK /\ PhaseInv /\ PortInv /\ NoCrosstalk

-----------------------------------------------------------------------------

\* A handler's loop and its write are steps of the promise; nothing else
\* touches what it speaks of.
LEMMA StepSimulation ==
    ASSUME TypeOK, PhaseInv, [Next]_vars
    PROVE  [Promise!Next]_(Promise!dvars)
<1> USE DEF TypeOK, PhaseInv, Early, Promise!dvars, Promise!Next
<1>1. ASSUME NEW c \in Conn, SendFake(c) PROVE Promise!Next \/ UNCHANGED Promise!dvars
  BY <1>1 DEF SendFake, At, Promise!Fake, Promise!GiveUp
<1>2. ASSUME NEW c \in Conn, WriteHello(c) PROVE Promise!Next \/ UNCHANGED Promise!dvars
  BY <1>2 DEF WriteHello, At, Promise!Real
<1>3. ASSUME NEW c \in Conn,
             \/ NewConnectionEx(c) \/ DialServer(c) \/ ReadHello(c) \/ CheckTracker(c)
             \/ CallTracker(c) \/ WaitForSeqAck(c) \/ PipeEnds(c)
      PROVE  UNCHANGED Promise!dvars
  BY <1>3 DEF NewConnectionEx, DialServer, ReadHello, CheckTracker, CallTracker,
              WaitForSeqAck, PipeEnds, flowVars
<1>4. ASSUME Store \/ StopStack \/ StopStep \/ UNCHANGED vars
      PROVE  UNCHANGED Promise!dvars
  BY <1>4 DEF Store, StopStack, StopStep, StopRaw, StopTracker, StopDns, StopExit,
              vars, flowVars
<1>5. QED
  BY <1>1, <1>2, <1>3, <1>4 DEF Next, HandlerStep

LEMMA InitIInv == Init => IInv
  BY TunFlowAssumption
     DEF Init, IInv, TypeOK, PhaseInv, PortInv, OwnPort, RingInv, ConnsInv, GotInv,
         NoCrosstalk, Early, PCs, Open, Dialled

\* What Capture appends are events of the connection being dialled.
LEMMA CaptureType ==
    ASSUME NEW c \in Conn, ring \in Seq(Conn), Capture(c)
    PROVE  /\ ring' \in Seq(Conn)
           /\ \A i \in 1..Len(ring') :
                  ring'[i] = c \/ (i \in 1..Len(ring) /\ ring'[i] = ring[i])
<1>1. PICK k \in 0..MaxCopies : ring' = ring \o [i \in 1..k |-> c]
  BY DEF Capture
<1>2. k \in Nat /\ [i \in 1..k |-> c] \in Seq(Conn) /\ Len([i \in 1..k |-> c]) = k
  BY TunFlowAssumption
<1>3. QED
  BY <1>1, <1>2

LEMMA NextType == TypeOK /\ PortInv /\ [Next]_vars => TypeOK'
<1> SUFFICES ASSUME TypeOK, PortInv, [Next]_vars PROVE TypeOK'
  OBVIOUS
<1> USE TunFlowAssumption DEF TypeOK, PCs, Goto, flowVars, seqVars, stopVars
<1>1. ASSUME NEW c \in Conn, NewConnectionEx(c) PROVE TypeOK'
  BY <1>1 DEF NewConnectionEx
<1>2. ASSUME NEW c \in Conn, DialServer(c) PROVE TypeOK'
  <2>1. ring' \in Seq(Conn)
    BY <1>2, CaptureType DEF DialServer
  <2>2. pc' \in [Conn -> PCs] /\ lport' \in [Conn -> LPort \cup {NoPort}]
    <3>1. ASSUME NEW q \in LPort, lport' = [lport EXCEPT ![c] = q],
                 pc' = [pc EXCEPT ![c] = IF c \in Target THEN "read" ELSE "pipe"]
          PROVE  pc' \in [Conn -> PCs] /\ lport' \in [Conn -> LPort \cup {NoPort}]
      <4>1. (IF c \in Target THEN "read" ELSE "pipe") \in PCs
        BY DEF PCs
      <4>2. QED
        BY <3>1, <4>1
    <3>2. QED
      BY <1>2, <3>1 DEF DialServer
  <2>3. QED
    BY <1>2, <2>1, <2>2 DEF DialServer
<1>3. ASSUME NEW c \in Conn, ReadHello(c) PROVE TypeOK'
  BY <1>3 DEF ReadHello
<1>4. ASSUME NEW c \in Conn, CheckTracker(c) PROVE TypeOK'
  BY <1>4 DEF CheckTracker
<1>5. ASSUME NEW c \in Conn, CallTracker(c) PROVE TypeOK'
  BY <1>5 DEF CallTracker
<1>6. ASSUME NEW c \in Conn, WaitForSeqAck(c) PROVE TypeOK'
  <2>1. lport[c] \in LPort
    BY <1>6 DEF WaitForSeqAck, At, PortInv, OwnPort, Open
  <2>2. QED
    BY <1>6, <2>1 DEF WaitForSeqAck
<1>7. ASSUME NEW c \in Conn, SendFake(c) PROVE TypeOK'
  <2>1. fakes' \in [Conn -> 0..Burst] /\ gaveUp' \subseteq Conn /\ pc' \in [Conn -> PCs]
    BY <1>7 DEF SendFake
  <2>2. QED
    BY <1>7, <2>1 DEF SendFake
<1>8. ASSUME NEW c \in Conn, WriteHello(c) PROVE TypeOK'
  BY <1>8 DEF WriteHello
<1>9. ASSUME NEW c \in Conn, PipeEnds(c) PROVE TypeOK'
  BY <1>9 DEF PipeEnds
<1>10. CASE Store
  <2>1. Head(ring) \in Conn /\ Tail(ring) \in Seq(Conn)
    BY <1>10 DEF Store
  <2>2. QED
    BY <1>10, <2>1 DEF Store
<1>11. CASE StopStack \/ StopStep
  BY <1>11 DEF StopStack, StopStep, StopRaw, StopTracker, StopDns, StopExit
<1>12. CASE UNCHANGED vars
  BY <1>12 DEF vars
<1>13. QED
  BY <1>1, <1>2, <1>3, <1>4, <1>5, <1>6, <1>7, <1>8, <1>9, <1>10, <1>11, <1>12
     DEF Next, HandlerStep

LEMMA NextPhase == TypeOK /\ PhaseInv /\ [Next]_vars => PhaseInv'
<1> SUFFICES ASSUME TypeOK, PhaseInv, [Next]_vars PROVE PhaseInv'
  OBVIOUS
<1> USE DEF TypeOK, PhaseInv, Early, PCs, At, Goto, flowVars
<1>1. ASSUME NEW c \in Conn, NewConnectionEx(c) \/ DialServer(c) \/ ReadHello(c)
      PROVE PhaseInv'
  BY <1>1 DEF NewConnectionEx, DialServer, ReadHello
<1>2. ASSUME NEW c \in Conn, CheckTracker(c) \/ CallTracker(c) \/ WaitForSeqAck(c)
      PROVE PhaseInv'
  BY <1>2 DEF CheckTracker, CallTracker, WaitForSeqAck
<1>3. ASSUME NEW c \in Conn, SendFake(c) PROVE PhaseInv'
  BY <1>3 DEF SendFake
<1>4. ASSUME NEW c \in Conn, WriteHello(c) \/ PipeEnds(c) PROVE PhaseInv'
  BY <1>4 DEF WriteHello, PipeEnds
<1>5. CASE Store \/ StopStack \/ StopStep \/ UNCHANGED vars
  BY <1>5 DEF Store, StopStack, StopStep, StopRaw, StopTracker, StopDns, StopExit, vars
<1>6. QED
  BY <1>1, <1>2, <1>3, <1>4, <1>5 DEF Next, HandlerStep

\* A dialled connection keeps its port, and a closed one stays closed.
LEMMA Stable ==
    ASSUME TypeOK, [Next]_vars, NEW d \in Conn
    PROVE  /\ d \in Dialled => d \in Dialled' /\ lport'[d] = lport[d]
           /\ pc[d] = "closed" => pc'[d] = "closed"
<1> USE DEF TypeOK, PCs, Dialled, At, Goto, flowVars
<1>1. ASSUME NEW c \in Conn, NewConnectionEx(c) \/ ReadHello(c) \/ CheckTracker(c) \/ CallTracker(c)
      PROVE  /\ d \in Dialled => d \in Dialled' /\ lport'[d] = lport[d]
             /\ pc[d] = "closed" => pc'[d] = "closed"
  BY <1>1 DEF NewConnectionEx, ReadHello, CheckTracker, CallTracker
<1>2. ASSUME NEW c \in Conn, DialServer(c)
      PROVE  /\ d \in Dialled => d \in Dialled' /\ lport'[d] = lport[d]
             /\ pc[d] = "closed" => pc'[d] = "closed"
  BY <1>2 DEF DialServer
<1>3. ASSUME NEW c \in Conn, WaitForSeqAck(c) \/ SendFake(c) \/ WriteHello(c) \/ PipeEnds(c)
      PROVE  /\ d \in Dialled => d \in Dialled' /\ lport'[d] = lport[d]
             /\ pc[d] = "closed" => pc'[d] = "closed"
  BY <1>3 DEF WaitForSeqAck, SendFake, WriteHello, PipeEnds
<1>4. CASE Store \/ StopStack \/ StopStep \/ UNCHANGED vars
  BY <1>4 DEF Store, StopStack, StopStep, StopRaw, StopTracker, StopDns, StopExit, vars
<1>5. QED
  BY <1>1, <1>2, <1>3, <1>4 DEF Next, HandlerStep

LEMMA NextOwnPort == TypeOK /\ OwnPort /\ [Next]_vars => OwnPort'
<1> SUFFICES ASSUME TypeOK, OwnPort, [Next]_vars PROVE OwnPort'
  OBVIOUS
<1>0. ASSUME UNCHANGED lport, \A d \in Conn : Open(d)' => Open(d) PROVE OwnPort'
  BY <1>0 DEF OwnPort
<1>1. ASSUME NEW c \in Conn, NewConnectionEx(c) \/ ReadHello(c) \/ CheckTracker(c) \/ CallTracker(c)
      PROVE  OwnPort'
  <2>1. UNCHANGED lport
    BY <1>1 DEF NewConnectionEx, ReadHello, CheckTracker, CallTracker, flowVars
  <2>2. \A d \in Conn : Open(d)' => Open(d)
    BY <1>1 DEF NewConnectionEx, ReadHello, CheckTracker, CallTracker, At, Goto, Open, PCs, TypeOK
  <2>3. QED
    BY <1>0, <2>1, <2>2
<1>2. ASSUME NEW c \in Conn, DialServer(c) PROVE OwnPort'
  <2>1. CASE UNCHANGED lport /\ pc' = [pc EXCEPT ![c] = "closed"]
    <3>1. \A d \in Conn : Open(d)' => Open(d)
      BY <2>1 DEF Open, PCs, TypeOK
    <3>2. QED
      BY <1>0, <2>1, <3>1
  <2>2. ASSUME NEW q \in LPort, \A d \in Conn : Open(d) /\ SameFamily(c, d) => lport[d] # q,
               lport' = [lport EXCEPT ![c] = q],
               pc' = [pc EXCEPT ![c] = IF c \in Target THEN "read" ELSE "pipe"]
        PROVE  OwnPort'
    <3>1. \A d \in Conn \ {c} : lport'[d] = lport[d] /\ (Open(d)' => Open(d))
      BY <2>2 DEF Open, PCs, TypeOK
    <3>2. lport'[c] = q
      BY <2>2 DEF TypeOK
    <3>3. QED
      BY <2>2, <3>1, <3>2 DEF OwnPort, SameFamily
  <2>3. QED
    BY <1>2, <2>1, <2>2 DEF DialServer, Goto
<1>3. ASSUME NEW c \in Conn, WaitForSeqAck(c) \/ SendFake(c) \/ WriteHello(c) \/ PipeEnds(c)
      PROVE  OwnPort'
  <2>1. UNCHANGED lport
    BY <1>3 DEF WaitForSeqAck, SendFake, WriteHello, PipeEnds, flowVars
  <2>2. \A d \in Conn : Open(d)' => Open(d)
    BY <1>3 DEF WaitForSeqAck, SendFake, WriteHello, PipeEnds, At, Goto, Open, PCs, TypeOK
  <2>3. QED
    BY <1>0, <2>1, <2>2
<1>4. CASE Store \/ StopStack \/ StopStep \/ UNCHANGED vars
  <2>1. UNCHANGED <<pc, lport>>
    BY <1>4 DEF Store, StopStack, StopStep, StopRaw, StopTracker, StopDns, StopExit, vars,
                flowVars
  <2>2. QED
    BY <1>0, <2>1 DEF Open
<1>5. QED
  BY <1>1, <1>2, <1>3, <1>4 DEF Next, HandlerStep

LEMMA NextRing == TypeOK /\ RingInv /\ [Next]_vars => RingInv'
<1> SUFFICES ASSUME TypeOK, RingInv, [Next]_vars PROVE RingInv'
  OBVIOUS
<1>s. Dialled \subseteq Dialled'
  BY Stable DEF Dialled
<1>1. ASSUME UNCHANGED ring PROVE RingInv'
  BY <1>1, <1>s DEF RingInv
<1>2. ASSUME NEW c \in Conn, DialServer(c), ~UNCHANGED ring PROVE RingInv'
  <2>1. Capture(c) /\ c \in Dialled'
    BY <1>2 DEF DialServer, Dialled, Goto, TypeOK, PCs
  <2>2. \A i \in 1..Len(ring') :
            ring'[i] = c \/ (i \in 1..Len(ring) /\ ring'[i] = ring[i])
    BY <2>1, CaptureType DEF TypeOK
  <2>3. QED
    BY <1>s, <2>1, <2>2 DEF RingInv
<1>3. CASE Store
  <2>1. ring' = Tail(ring) /\ ring # <<>> /\ ring \in Seq(Conn)
    BY <1>3 DEF Store, TypeOK
  <2>2. \A i \in 1..Len(ring') : i + 1 \in 1..Len(ring) /\ ring'[i] = ring[i + 1]
    BY <2>1
  <2>3. QED
    BY <1>s, <2>2 DEF RingInv
<1>4. QED
  BY <1>1, <1>2, <1>3
     DEF Next, HandlerStep, NewConnectionEx, ReadHello, CheckTracker, CallTracker,
         WaitForSeqAck, SendFake, WriteHello, PipeEnds, StopStack, StopStep, StopRaw,
         StopTracker, StopDns, StopExit, vars, seqVars

\* Only Store and LoadAndDelete change the map, Store with the event's own port.
LEMMA NextConns == TypeOK /\ PortInv /\ [Next]_vars => ConnsInv'
<1> SUFFICES ASSUME TypeOK, PortInv, [Next]_vars PROVE ConnsInv'
  OBVIOUS
<1>s. \A d \in Dialled : d \in Dialled' /\ lport'[d] = lport[d]
  BY Stable DEF Dialled
<1>1. ASSUME \A q \in LPort : conns'[q] = conns[q] \/ conns'[q] = None PROVE ConnsInv'
  BY <1>s, <1>1 DEF PortInv, ConnsInv
<1>2. ASSUME NEW c \in Conn, WaitForSeqAck(c) PROVE ConnsInv'
  <2>1. \A q \in LPort : conns'[q] = conns[q] \/ conns'[q] = None
    BY <1>2 DEF WaitForSeqAck, TypeOK
  <2>2. QED
    BY <1>1, <2>1
<1>3. CASE Store
  <2>1. Head(ring) = ring[1] /\ 1 \in 1..Len(ring)
    BY <1>3 DEF Store, TypeOK
  <2>2. PICK d \in Dialled : d = Head(ring)
    BY <2>1 DEF PortInv, RingInv
  <2>3. \A q \in LPort : conns'[q] = IF q = lport[d] THEN d ELSE conns[q]
    BY <1>3, <2>2 DEF Store, TypeOK
  <2>4. QED
    BY <1>s, <2>3 DEF PortInv, ConnsInv
<1>4. QED
  <2>1. CASE UNCHANGED conns
    BY <1>1, <2>1
  <2>2. QED
    BY <1>2, <1>3, <2>1
       DEF Next, HandlerStep, NewConnectionEx, DialServer, ReadHello, CheckTracker,
           CallTracker, SendFake, WriteHello, PipeEnds, StopStack, StopStep, StopRaw,
           StopTracker, StopDns, StopExit, vars, seqVars

\* A handler takes an event only from its own port's place in the map: the event
\* is its own, or that of a closed connection, as no two open ones of a family share a
\* port, or it is one of the other family.
LEMMA NextGot ==
    TypeOK /\ PortInv /\ NoCrosstalk /\ [Next]_vars => GotInv' /\ NoCrosstalk'
<1> SUFFICES ASSUME TypeOK, PortInv, NoCrosstalk, [Next]_vars
             PROVE  GotInv' /\ NoCrosstalk'
  OBVIOUS
<1>s. /\ \A d \in Dialled : d \in Dialled' /\ lport'[d] = lport[d]
      /\ \A d \in Conn : pc[d] = "closed" => pc'[d] = "closed"
  BY Stable DEF Dialled
\* A connection's event, in this state, fits what the invariants say.
<1> DEFINE Fits(c, e) ==
        /\ e # None => c \in Dialled
        /\ e \in Conn \ {c} =>
               e \in Dialled /\ lport[e] = lport[c] /\ (SameFamily(c, e) => pc[e] = "closed")
<1>0. \A c \in Conn : Fits(c, got[c])
  <2> SUFFICES ASSUME NEW c \in Conn PROVE Fits(c, got[c])
    OBVIOUS
  <2>1. got[c] # None => c \in Dialled
    BY DEF PortInv, GotInv
  <2>2. ASSUME got[c] \in Conn \ {c}
        PROVE  /\ got[c] \in Dialled /\ lport[got[c]] = lport[c]
               /\ SameFamily(c, got[c]) => pc[got[c]] = "closed"
    <3>1. lport[got[c]] = lport[c] /\ (SameFamily(c, got[c]) => pc[got[c]] = "closed")
      BY <2>2 DEF NoCrosstalk
    <3>2. got[c] \in Dialled
      BY <2>2 DEF PortInv, GotInv
    <3>3. QED
      BY <3>1, <3>2
  <2>3. QED
    BY <2>1, <2>2
<1>1. ASSUME \A c \in Conn : Fits(c, got'[c])
      PROVE  GotInv' /\ NoCrosstalk'
  <2>1. GotInv'
    BY <1>s, <1>1, TunFlowAssumption DEF GotInv
  <2>2. ASSUME NEW c \in Conn, got'[c] \in Conn \ {c}
        PROVE  /\ lport'[got'[c]] = lport'[c]
               /\ SameFamily(c, got'[c]) => pc'[got'[c]] = "closed"
    <3>1. /\ c \in Dialled /\ got'[c] \in Dialled
          /\ lport[got'[c]] = lport[c]
          /\ SameFamily(c, got'[c]) => pc[got'[c]] = "closed"
      BY <1>1, <2>2, TunFlowAssumption
    <3>2. QED
      BY <1>s, <2>2, <3>1
  <2>3. QED
    BY <2>1, <2>2 DEF NoCrosstalk
<1>2. ASSUME UNCHANGED got PROVE GotInv' /\ NoCrosstalk'
  BY <1>0, <1>1, <1>2
<1>3. ASSUME NEW c \in Conn, NEW e, Fits(c, e), got' = [got EXCEPT ![c] = e]
      PROVE  GotInv' /\ NoCrosstalk'
  <2>1. \A d \in Conn : got'[d] = IF d = c THEN e ELSE got[d]
    BY <1>3 DEF TypeOK
  <2>2. \A d \in Conn : Fits(d, got'[d])
    BY <1>0, <1>3, <2>1
  <2>3. QED
    BY <1>1, <2>2
<1>4. ASSUME NEW c \in Conn, c \in Dialled, got' = [got EXCEPT ![c] = Placeholder]
      PROVE  GotInv' /\ NoCrosstalk'
  <2>1. Fits(c, Placeholder)
    BY <1>4, TunFlowAssumption
  <2>2. QED
    BY <1>3, <1>4, <2>1
<1>5. ASSUME NEW c \in Conn, CheckTracker(c) PROVE GotInv' /\ NoCrosstalk'
  <2>1. c \in Dialled
    BY <1>5 DEF CheckTracker, At, PortInv, OwnPort, Open, Dialled, PCs
  <2>2. UNCHANGED got \/ got' = [got EXCEPT ![c] = Placeholder]
    BY <1>5 DEF CheckTracker
  <2>3. QED
    BY <1>2, <1>4, <2>1, <2>2
<1>6. ASSUME NEW c \in Conn, WaitForSeqAck(c) PROVE GotInv' /\ NoCrosstalk'
  <2>1. c \in Dialled /\ Open(c)
    BY <1>6 DEF WaitForSeqAck, At, PortInv, OwnPort, Open, Dialled, PCs
  <2>2. CASE got' = [got EXCEPT ![c] = Placeholder]
    BY <1>4, <2>1, <2>2
  <2>3. CASE conns[lport[c]] # None /\ got' = [got EXCEPT ![c] = conns[lport[c]]]
    <3>1. PICK d \in Dialled : d = conns[lport[c]] /\ lport[d] = lport[c]
      BY <2>1, <2>3 DEF PortInv, ConnsInv, Dialled
    <3>2. d # c /\ SameFamily(c, d) => pc[d] = "closed"
      BY <2>1, <3>1 DEF PortInv, OwnPort, Open, Dialled, TypeOK
    <3>3. Fits(c, d)
      BY <2>1, <3>1, <3>2
    <3>4. QED
      BY <1>3, <2>3, <3>1, <3>3
  <2>4. QED
    BY <1>6, <2>2, <2>3 DEF WaitForSeqAck
<1>7. QED
  BY <1>2, <1>5, <1>6
     DEF Next, HandlerStep, NewConnectionEx, DialServer, ReadHello, CallTracker,
         SendFake, WriteHello, PipeEnds, Store, StopStack, StopStep, StopRaw,
         StopTracker, StopDns, StopExit, vars, flowVars

LEMMA Invariance == Spec => []IInv
<1>1. IInv /\ [Next]_vars => IInv'
  BY NextType, NextPhase, NextOwnPort, NextRing, NextConns, NextGot DEF IInv, PortInv
<1>2. QED
  BY InitIInv, <1>1, PTL DEF Spec

-----------------------------------------------------------------------------

\* The handlers, the capture and Stop keep their variables typed.
THEOREM TypeCorrect == Spec => []TypeOK
  BY Invariance, PTL DEF IInv

\* seqtracker_darwin.go:26-43: no fake carries the numbers of another open connection
\* of its address family, and none those of another local port, for any number of
\* connections, families mixed in any way, and ports.
THEOREM CrosstalkSafe == Spec => []NoCrosstalk
  BY Invariance, PTL DEF IInv

\* handler.go:98-113: the TUN engine implements the promise that the fakes of a
\* connection precede its ClientHello.
THEOREM Refinement == Spec => ImplementsDesync
<1>1. Init => Promise!Init
  BY DEF Init, Promise!Init
<1>2. IInv /\ [Next]_vars => [Promise!Next]_(Promise!dvars)
  BY StepSimulation DEF IInv
<1>3. QED
  BY Invariance, <1>1, <1>2, PTL DEF Spec, ImplementsDesync, Promise!Spec
-----------------------------------------------------------------------------

\* handler.go:68-116: at most six steps and the burst hold a ClientHello up: the safety
\* half of HelloNotHeldUp, for any number of connections, ports and fakes.
THEOREM HelloSteps == Spec => HelloForward
<1> DEFINE Forward(c) ==
        pc[c] \in Handling /\ <<pc[c], fakes[c]>>' # <<pc[c], fakes[c]>> =>
            /\ Left(c)' < Left(c)
            /\ pc'[c] \in Handling \cup {"pipe", "closed"}
            /\ pc'[c] = "pipe" => c \in real'
<1>1. ASSUME TypeOK, [Next]_vars, NEW c \in Conn
      PROVE  Forward(c)
  <2>a. fakes[c] \in 0..Burst /\ Burst \in Nat
    BY <1>1, TunFlowAssumption DEF TypeOK
  <2> USE <1>1 DEF TypeOK, Goto, At
  <2>1. ASSUME NEW d \in Conn, d # c, NewConnectionEx(d) \/ HandlerStep(d) \/ PipeEnds(d)
        PROVE  UNCHANGED <<pc[c], fakes[c]>>
    BY <2>1 DEF NewConnectionEx, HandlerStep, PipeEnds, DialServer, ReadHello,
                CheckTracker, CallTracker, WaitForSeqAck, SendFake, WriteHello, flowVars
  <2>2. CASE NewConnectionEx(c) \/ DialServer(c) \/ PipeEnds(c)
    BY <2>2 DEF NewConnectionEx, DialServer, PipeEnds, Handling
  <2>3. CASE ReadHello(c)
    BY <2>a, <2>3 DEF ReadHello, Left, Handling, flowVars
  <2>4. CASE CheckTracker(c)
    BY <2>a, <2>4 DEF CheckTracker, Left, Handling
  <2>5. CASE CallTracker(c)
    BY <2>a, <2>5 DEF CallTracker, Left, Handling, flowVars
  <2>6. CASE WaitForSeqAck(c)
    BY <2>a, <2>6 DEF WaitForSeqAck, Left, Handling
  <2>7. CASE SendFake(c)
    BY <2>a, <2>7 DEF SendFake, Left, Handling
  <2>8. CASE WriteHello(c)
    BY <2>a, <2>8 DEF WriteHello, Left, Handling
  <2>9. CASE Store \/ StopStack \/ StopStep \/ UNCHANGED vars
    BY <2>9 DEF Store, StopStack, StopStep, StopRaw, StopTracker, StopDns, StopExit,
                flowVars, vars
  <2>10. QED
    BY <2>1, <2>2, <2>3, <2>4, <2>5, <2>6, <2>7, <2>8, <2>9 DEF Next, HandlerStep
<1>2. TypeOK /\ [Next]_vars => [\A c \in Conn : Forward(c)]_vars
  BY <1>1
<1>3. QED
  BY TypeCorrect, <1>2, PTL DEF Spec, HelloForward
=============================================================================
