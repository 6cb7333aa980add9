-------------------------------- MODULE Pipe ---------------------------------
(***************************************************************************)
(* The two relays of pkg/tun/handler.go, each a pair of goroutines that    *)
(* copy between the application and the server and set a read deadline on  *)
(* their source before every read.  In pipe (TCP) whichever ends first     *)
(* expires every deadline of both connections so that the other one ends   *)
(* too; in NewPacketConnectionEx (UDP) each direction ends by itself, and  *)
(* the handler returns when both have.                                     *)
(*                                                                         *)
(* A deadline is modelled by the ticks left until it passes.  Go's         *)
(* SetDeadline sets the read and the write deadline, SetReadDeadline only  *)
(* the first; an operation past its deadline fails even if it could go on, *)
(* and a new deadline applies to an operation that is already blocked.     *)
(***************************************************************************)
EXTENDS Naturals

CONSTANT Idle      \* idleTimeout (TCP) or the 30 s of UDP, in ticks

ASSUME IdleAssumption == Idle \in Nat \ {0}

Dir == {"up", "down"}
End == {"app", "server"}

src(i) == IF i = "up" THEN "app" ELSE "server"
dst(i) == IF i = "up" THEN "server" ELSE "app"

VARIABLES
    kind,       \* which relay: "tcp" | "udp"
    pc,         \* pc[i]: where the goroutine of direction i is
    readLeft,   \* readLeft[e]: ticks until the read deadline of e passes
    writeable,  \* writeable[e]: the write deadline of e has not passed
    silent,     \* silent[i]: ticks since data was last read in direction i (history)
    broken      \* a peer ended or refused the connection (history)

vars == <<kind, pc, readLeft, writeable, silent, broken>>

PCs == {"arm", "read", "write", "writeLast", "expireA", "expireB", "done"}

TypeOK ==
    /\ kind \in {"tcp", "udp"}
    /\ pc \in [Dir -> PCs]
    /\ readLeft \in [End -> 0..Idle]
    /\ writeable \in [End -> BOOLEAN]
    /\ silent \in [Dir -> 0..Idle]
    /\ broken \in BOOLEAN

Init ==
    /\ kind \in {"tcp", "udp"}
    /\ pc = [i \in Dir |-> "arm"]
    /\ readLeft = [e \in End |-> Idle]
    /\ writeable = [e \in End |-> TRUE]
    /\ silent = [i \in Dir |-> 0]
    /\ broken = FALSE

Goto(i, l) == pc' = [pc EXCEPT ![i] = l] /\ kind' = kind

\* Where the loop goes when it breaks: TCP expires the other direction first.
Leave == IF kind = "tcp" THEN "expireA" ELSE "done"

-----------------------------------------------------------------------------

\* The deadline is not renewed once data has flowed.
ArmOnce(i) ==
    /\ pc[i] = "arm"
    /\ Goto(i, "read")
    /\ UNCHANGED <<readLeft, writeable, silent, broken>>

\* src.SetReadDeadline(time.Now().Add(idleTimeout))
Arm(i) ==
    /\ pc[i] = "arm"
    /\ readLeft' = [readLeft EXCEPT ![src(i)] = Idle]
    /\ Goto(i, "read")
    /\ UNCHANGED <<writeable, silent, broken>>

\* src.Read returns data, for TCP possibly with an error; UDP drops the data
\* of a failed read.
ReadData(i) ==
    /\ pc[i] = "read"
    /\ readLeft[src(i)] > 0
    /\ silent' = [silent EXCEPT ![i] = 0]
    /\ \/ Goto(i, "write") /\ UNCHANGED broken
       \/ kind = "tcp" /\ Goto(i, "writeLast") /\ broken' = TRUE
    /\ UNCHANGED <<readLeft, writeable>>

\* src.Read returns an error without data: the peer is gone.
ReadEnd(i) ==
    /\ pc[i] = "read"
    /\ readLeft[src(i)] > 0
    /\ Goto(i, Leave)
    /\ broken' = TRUE
    /\ UNCHANGED <<readLeft, writeable, silent>>

\* Only reads from the application have a deadline.
ReadTimeoutOneSided(i) ==
    /\ i = "up"
    /\ pc[i] = "read"
    /\ readLeft[src(i)] = 0
    /\ Goto(i, Leave)
    /\ UNCHANGED <<readLeft, writeable, silent, broken>>

\* src.Read returns a timeout.
ReadTimeout(i) ==
    /\ pc[i] = "read"
    /\ readLeft[src(i)] = 0
    /\ Goto(i, Leave)
    /\ UNCHANGED <<readLeft, writeable, silent, broken>>

\* dst.Write succeeds, and the loop goes on unless the read had failed.
WriteData(i) ==
    /\ pc[i] \in {"write", "writeLast"}
    /\ writeable[dst(i)]
    /\ Goto(i, IF pc[i] = "write" THEN "arm" ELSE Leave)
    /\ UNCHANGED <<readLeft, writeable, silent, broken>>

\* dst.Write fails, because the peer is gone or the deadline has passed.
WriteFails(i) ==
    /\ pc[i] \in {"write", "writeLast"}
    /\ Goto(i, Leave)
    /\ broken' = (broken \/ writeable[dst(i)])
    /\ UNCHANGED <<readLeft, writeable, silent>>

\* Only the read deadline is expired.
ExpireReadOnly(e) ==
    /\ readLeft' = [readLeft EXCEPT ![e] = 0]
    /\ UNCHANGED writeable

\* SetDeadline(time.Now())
Expire(e) ==
    /\ readLeft' = [readLeft EXCEPT ![e] = 0]
    /\ writeable' = [writeable EXCEPT ![e] = FALSE]

ExpireA(i) ==
    /\ pc[i] = "expireA"
    /\ Expire("app")
    /\ Goto(i, "expireB")
    /\ UNCHANGED <<silent, broken>>

\* Only the application's connection is expired.
ExpireBSkipped(i) ==
    /\ pc[i] = "expireB"
    /\ Goto(i, "done")
    /\ UNCHANGED <<readLeft, writeable, silent, broken>>

ExpireB(i) ==
    /\ pc[i] = "expireB"
    /\ Expire("server")
    /\ Goto(i, "done")
    /\ UNCHANGED <<silent, broken>>

\* Time passes.
Tick ==
    /\ readLeft' = [e \in End |-> IF readLeft[e] = 0 THEN 0 ELSE readLeft[e] - 1]
    /\ silent' = [i \in Dir |-> IF silent[i] = Idle THEN Idle ELSE silent[i] + 1]
    /\ UNCHANGED <<kind, pc, writeable, broken>>

\* wg.Wait() returns; the caller closes both connections.
Ended == \A i \in Dir : pc[i] = "done"

\* What a goroutine does without its peers: a blocked write of TCP becomes able
\* to fail when its deadline passes, one of UDP does not block.
Runs(i) ==
    \/ Arm(i) \/ ReadTimeout(i) \/ ExpireA(i) \/ ExpireB(i)
    \/ ~writeable[dst(i)] /\ WriteFails(i)
    \/ kind = "udp" /\ (WriteData(i) \/ WriteFails(i))

Next ==
    \/ \E i \in Dir :
        \/ Arm(i) \/ ReadData(i) \/ ReadEnd(i) \/ ReadTimeout(i)
        \/ WriteData(i) \/ WriteFails(i) \/ ExpireA(i) \/ ExpireB(i)
    \/ Tick

Spec == Init /\ [][Next]_vars

\* A goroutine that can run is run, and time passes; nothing is assumed of the
\* application and the server.
Fairness == (\A i \in Dir : WF_vars(Runs(i))) /\ WF_vars(Tick)

FairSpec == Spec /\ Fairness

-----------------------------------------------------------------------------
(* Properties *)

\* handler.go:204-205: when a goroutine of pipe has ended, nothing is written in either
\* direction any more, although the other one may set a new read deadline after
\* it and read again.
NothingAfterTeardown ==
    [][kind = "tcp" /\ (\E i \in Dir : pc[i] = "done") => \A i \in Dir : ~WriteData(i)]_vars

\* handler.go:184-210: once one goroutine of pipe ends both do, so that the handler
\* closes the connections: the race of the final SetDeadline calls with the
\* other goroutine's SetReadDeadline delays the end and does not prevent it.
BothEnd == (kind = "tcp" /\ \E i \in Dir : pc[i] = "done") ~> Ended

\* Both goroutines of pipe are in a write, which has no deadline of its own.
BothBlocked == kind = "tcp" /\ \A i \in Dir : pc[i] \in {"write", "writeLast"}

\* handler.go:140-171, 184-210: when no data comes from either side any more,
\* both goroutines end and the handler closes the connections, for UDP too,
\* where it waits for a reader that nobody interrupts; only two peers that both
\* take no data keep a TCP connection for ever.
QuietEnds ==
    <>[][\A i \in Dir : ~ReadData(i)]_vars => <>Ended \/ <>[]BothBlocked

\* The goroutine of direction i has left its loop.
Out(i) == pc[i] \in {"expireA", "expireB", "done"}

\* handler.go:145, 158, 193: a relay between two healthy peers is taken down by
\* silence only: a direction of UDP ends after its own source sent nothing for the
\* whole timeout, and pipe after at least one of its two sources did.  The other
\* direction of pipe is then cut whether or not it carries data.
EndedBySilence ==
    ~broken =>
        /\ kind = "udp" => \A i \in Dir : Out(i) => silent[i] = Idle
        /\ (\E i \in Dir : Out(i)) => \E i \in Dir : Out(i) /\ silent[i] = Idle

\* The steps a goroutine of pipe has at most before it ends, once nothing can be
\* written any more.
Left(l) ==
    CASE l = "arm" -> 5 [] l = "read" -> 4 [] l \in {"write", "writeLast"} -> 3
      [] l = "expireA" -> 2 [] l = "expireB" -> 1 [] OTHER -> 0

\* handler.go:184-210: once one goroutine of pipe has ended, every step of the other
\* brings it nearer to its end: it may renew its deadline and read once more, and
\* cannot go round the loop again.
EndingOnly ==
    [][kind = "tcp" /\ (\E j \in Dir : pc[j] = "done") =>
          \A i \in Dir : pc'[i] # pc[i] => Left(pc'[i]) < Left(pc[i])]_vars
=============================================================================
