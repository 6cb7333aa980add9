----------------------------- MODULE PipeProofs ------------------------------
(* Proofs about the copying goroutines of TCP and UDP, for every idle timeout. *)
EXTENDS Pipe, TLAPS

\* A goroutine that has expired a connection leaves it expired for writing:
\* Arm renews read deadlines only.
Expiry ==
    \A i \in Dir :
        /\ kind = "tcp" /\ pc[i] \in {"expireB", "done"} => ~writeable["app"]
        /\ kind = "tcp" /\ pc[i] = "done" => ~writeable["server"]

\* While a goroutine waits for data on a connection that nobody expired, the
\* ticks left and the ticks of silence make up the whole timeout.
Accounted ==
    \A i \in Dir :
        pc[i] = "read" /\ writeable[src(i)] => readLeft[src(i)] + silent[i] >= Idle

\* A connection is expired only by a goroutine that has left its loop, and those of
\* UDP expire none.
ExpiredBy ==
    /\ \A e \in End : ~writeable[e] => kind = "tcp" /\ \E i \in Dir : Out(i)
    /\ \A i \in Dir : pc[i] \in {"expireA", "expireB"} => kind = "tcp"

\* The last data of a broken source.
LastInv == \A i \in Dir : pc[i] = "writeLast" => broken

IInv == TypeOK /\ Expiry /\ Accounted /\ ExpiredBy /\ LastInv /\ EndedBySilence

LEMMA InitIInv == Init => IInv
<1> SUFFICES ASSUME Init PROVE IInv
  OBVIOUS
<1>0. broken \in BOOLEAN
  BY DEF Init
<1>1. TypeOK /\ Expiry /\ Accounted
  BY <1>0, IdleAssumption DEF Init, TypeOK, Expiry, Accounted, PCs, Dir, End, src
<1>2. ExpiredBy /\ LastInv
  BY DEF Init, ExpiredBy, LastInv
<1>3. EndedBySilence
  BY DEF Init, EndedBySilence, Out
<1>4. QED
  BY <1>1, <1>2, <1>3 DEF IInv

\* Each step of a goroutine keeps types, expiries and deadlines; one step per action.
LEMMA NextDeadlines ==
    ASSUME TypeOK, Expiry, Accounted, [Next]_vars
    PROVE  TypeOK' /\ Expiry' /\ Accounted'
<1> DEFINE Kept == TypeOK' /\ Expiry' /\ Accounted'
<1> USE IdleAssumption
    DEF TypeOK, Expiry, Accounted, PCs, Dir, End, Goto, Leave, src, dst
<1>1. ASSUME NEW i \in Dir, Arm(i) PROVE Kept
  BY <1>1 DEF Arm
<1>2. ASSUME NEW i \in Dir, ReadData(i) PROVE Kept
  <2>1. broken' \in BOOLEAN
    BY <1>2 DEF ReadData
  <2>2. silent' = [silent EXCEPT ![i] = 0] /\ UNCHANGED <<kind, readLeft, writeable>>
    BY <1>2 DEF ReadData
  <2>3. pc' = [pc EXCEPT ![i] = "write"] \/ pc' = [pc EXCEPT ![i] = "writeLast"]
    BY <1>2 DEF ReadData
  <2>4. QED
    BY <2>1, <2>2, <2>3
<1>3. ASSUME NEW i \in Dir, ReadEnd(i) PROVE Kept
  BY <1>3 DEF ReadEnd
<1>4. ASSUME NEW i \in Dir, ReadTimeout(i) PROVE Kept
  BY <1>4 DEF ReadTimeout
<1>5. ASSUME NEW i \in Dir, WriteData(i) PROVE Kept
  BY <1>5 DEF WriteData
<1>6. ASSUME NEW i \in Dir, WriteFails(i) PROVE Kept
  <2>1. broken' \in BOOLEAN
    BY <1>6 DEF WriteFails
  <2>2. QED
    BY <1>6, <2>1 DEF WriteFails
<1>7. ASSUME NEW i \in Dir, ExpireA(i) PROVE Kept
  BY <1>7 DEF ExpireA, Expire
<1>8. ASSUME NEW i \in Dir, ExpireB(i) PROVE Kept
  BY <1>8 DEF ExpireB, Expire
<1>9. CASE Tick
  BY <1>9 DEF Tick
<1>10. CASE UNCHANGED vars
  BY <1>10 DEF vars
<1>11. QED
  BY <1>1, <1>2, <1>3, <1>4, <1>5, <1>6, <1>7, <1>8, <1>9, <1>10 DEF Next

\* A goroutine that has left its loop stays out of it, and only such a one expires.
LEMMA NextExpiredBy ==
    ASSUME TypeOK, ExpiredBy, [Next]_vars
    PROVE  ExpiredBy'
<1> USE DEF TypeOK, Goto, Leave
<1>1. kind' = kind /\ \A i \in Dir : Out(i) => Out(i)'
  BY DEF Next, Arm, ReadData, ReadEnd, ReadTimeout, WriteData, WriteFails, ExpireA, ExpireB,
         Tick, vars, Out
<1>2. ASSUME UNCHANGED writeable PROVE ExpiredBy'
  <2>1. \A i \in Dir : pc'[i] \in {"expireA", "expireB"} => kind = "tcp"
    BY <1>2 DEF Next, Arm, ReadData, ReadEnd, ReadTimeout, WriteData, WriteFails, ExpireA,
                ExpireB, Tick, vars, ExpiredBy
  <2>2. QED
    BY <1>1, <1>2, <2>1 DEF ExpiredBy
<1>3. ASSUME NEW i \in Dir, ExpireA(i) \/ ExpireB(i) PROVE ExpiredBy'
  <2>1. Out(i)' /\ kind = "tcp"
    BY <1>3 DEF ExpireA, ExpireB, Out, ExpiredBy
  <2>2. QED
    BY <1>1, <2>1 DEF ExpiredBy
<1>4. QED
  BY <1>2, <1>3
     DEF Next, Arm, ReadData, ReadEnd, ReadTimeout, WriteData, WriteFails, Tick, vars

\* Only a read that fails makes its data the last, and what is broken stays so.
LEMMA NextLast ==
    ASSUME TypeOK, LastInv, [Next]_vars
    PROVE  LastInv'
  BY DEF TypeOK, LastInv, Goto, Leave, Next, Arm, ReadData, ReadEnd, ReadTimeout, WriteData,
         WriteFails, ExpireA, ExpireB, Tick, vars

\* The first goroutine that leaves an unbroken relay timed out on a deadline of its
\* own, and by Accounted its source was silent all that time; one that leaves later
\* finds the first one out, and of UDP none is expired by another.
LEMMA NextSilence ==
    ASSUME TypeOK, Accounted, ExpiredBy, LastInv, EndedBySilence, [Next]_vars
    PROVE  EndedBySilence'
<1> USE IdleAssumption DEF TypeOK, LastInv, EndedBySilence, Out, PCs, Dir, Goto, Leave
<1>1. ASSUME NEW i \in Dir, Arm(i) PROVE EndedBySilence'
  BY <1>1 DEF Arm
<1>2. ASSUME NEW i \in Dir, ReadData(i) PROVE EndedBySilence'
  BY <1>2 DEF ReadData
<1>3. ASSUME NEW i \in Dir, ReadEnd(i) PROVE EndedBySilence'
  BY <1>3 DEF ReadEnd
<1>4. ASSUME NEW i \in Dir, ReadTimeout(i) PROVE EndedBySilence'
  <2>1. writeable[src(i)] => silent[i] = Idle
    BY <1>4 DEF ReadTimeout, Accounted, End, src
  <2>2. ~writeable[src(i)] => kind = "tcp" /\ \E j \in Dir : Out(j)
    BY DEF ExpiredBy, End, src
  <2>3. QED
    BY <1>4, <2>1, <2>2 DEF ReadTimeout
<1>5. ASSUME NEW i \in Dir, WriteData(i) PROVE EndedBySilence'
  BY <1>5 DEF WriteData
<1>6. ASSUME NEW i \in Dir, WriteFails(i) PROVE EndedBySilence'
  <2>1. ~writeable[dst(i)] => kind = "tcp" /\ \E j \in Dir : Out(j)
    BY DEF ExpiredBy, End, dst
  <2>2. QED
    BY <1>6, <2>1 DEF WriteFails
<1>7. ASSUME NEW i \in Dir, ExpireA(i) \/ ExpireB(i) PROVE EndedBySilence'
  BY <1>7 DEF ExpireA, ExpireB
<1>8. CASE Tick
  BY <1>8 DEF Tick
<1>9. CASE UNCHANGED vars
  BY <1>9 DEF vars
<1>10. QED
  BY <1>1, <1>2, <1>3, <1>4, <1>5, <1>6, <1>7, <1>8, <1>9 DEF Next

LEMMA NextIInv == IInv /\ [Next]_vars => IInv'
  BY NextDeadlines, NextExpiredBy, NextLast, NextSilence DEF IInv

LEMMA Invariance == Spec => []IInv
  BY InitIInv, NextIInv, PTL DEF Spec

\* The deadlines and histories of pipe stay within idleTimeout.
THEOREM TypeCorrect == Spec => []TypeOK
  BY Invariance, PTL DEF IInv

\* handler.go:204-205: no goroutine of pipe writes after the other one has ended.
THEOREM TeardownSafe == Spec => NothingAfterTeardown
<1>1. IInv => (kind = "tcp" /\ (\E i \in Dir : pc[i] = "done") => \A i \in Dir : ~WriteData(i))
  BY DEF IInv, Expiry, WriteData, Dir, dst
<1>2. QED
  BY Invariance, <1>1, PTL DEF NothingAfterTeardown

\* handler.go:145, 158, 193: unless a peer broke it, a relay ends by silence for the
\* whole timeout: of the direction itself for UDP, of one of the two for TCP.
THEOREM SilenceSafe == Spec => []EndedBySilence
  BY Invariance, PTL DEF IInv
-----------------------------------------------------------------------------

\* handler.go:184-210: after the end of one goroutine the other takes at most five
\* steps: the safety half of BothEnd, for every idle timeout.
THEOREM EndsInFive == Spec => EndingOnly
<1> DEFINE Nearer(i) == pc'[i] # pc[i] => Left(pc'[i]) < Left(pc[i])
<1>1. ASSUME IInv, kind = "tcp", NEW j \in Dir, pc[j] = "done", [Next]_vars, NEW i \in Dir
      PROVE  Nearer(i)
  <2> USE <1>1 DEF IInv, TypeOK, Goto
  <2>1. ~WriteData(i)
    BY DEF Expiry, WriteData, Dir, dst
  <2>2. ASSUME NEW k \in Dir, k # i,
               \/ Arm(k) \/ ReadData(k) \/ ReadEnd(k) \/ ReadTimeout(k)
               \/ WriteData(k) \/ WriteFails(k) \/ ExpireA(k) \/ ExpireB(k)
        PROVE  pc'[i] = pc[i]
    BY <2>2 DEF Arm, ReadData, ReadEnd, ReadTimeout, WriteData, WriteFails, ExpireA, ExpireB
  <2>3. CASE Arm(i)
    BY <2>3 DEF Arm, Left
  <2>4. CASE ReadData(i)
    BY <2>4 DEF ReadData, Left
  <2>5. CASE ReadEnd(i) \/ ReadTimeout(i)
    BY <2>5 DEF ReadEnd, ReadTimeout, Leave, Left
  <2>6. CASE WriteFails(i)
    BY <2>6 DEF WriteFails, Leave, Left
  <2>7. CASE ExpireA(i) \/ ExpireB(i)
    BY <2>7 DEF ExpireA, ExpireB, Left
  <2>8. CASE Tick \/ UNCHANGED vars
    BY <2>8 DEF Tick, vars
  <2>9. QED
    BY <2>1, <2>2, <2>3, <2>4, <2>5, <2>6, <2>7, <2>8 DEF Next
<1>2. IInv /\ [Next]_vars =>
        [kind = "tcp" /\ (\E j \in Dir : pc[j] = "done") => \A i \in Dir : Nearer(i)]_vars
  BY <1>1
<1>3. QED
  BY Invariance, <1>2, PTL DEF Spec, EndingOnly
=============================================================================
