------------------------------- MODULE TunFlow -------------------------------
(***************************************************************************)
(* A TCP connection through the TUN engine (macOS and Windows):            *)
(* pkg/tun/handler.go runs one goroutine per connection, pkg/seqtrack maps *)
(* local ports to captured SYN-ACKs, pkg/capture feeds that map from pcap, *)
(* and pkg/tun/manager.go with cmd/gecit/app/run_tun.go takes the engine   *)
(* down while handlers are still running.                                  *)
(*                                                                         *)
(* A captured SYN-ACK is named by the connection it belongs to: its        *)
(* sequence numbers are the ones of that connection and of no other.       *)
(***************************************************************************)
EXTENDS Naturals, Sequences

CONSTANTS
    Target,     \* connections accepted by the TUN to a target port
    Plain,      \* connections accepted by the TUN to any other port
    Doh,        \* the DoH client's own connections, dialled past the TUN
    V6,         \* the connections over IPv6; the TUN carries both families
    LPort,      \* local ports
    NoPort,     \* "no local port yet"
    Placeholder,\* the (1, 1, 0) GetSeqAck falls back to
    None,       \* "no event"
    Burst,      \* fakes per connection: 3 in the code
    MaxCopies,  \* bound: transmissions of one SYN-ACK
    RingCap     \* packets pcap buffers before it drops one

Conn == Target \cup Plain \cup Doh

ASSUME TunFlowAssumption ==
    /\ V6 \subseteq Conn
    /\ Burst \in Nat
    /\ MaxCopies \in Nat
    /\ RingCap \in Nat
    /\ Placeholder \notin Conn
    /\ None \notin Conn
    /\ NoPort \notin LPort

VARIABLES
    pc,       \* pc[c]: where the handler of c is
    lport,    \* lport[c]: local port of the connection to the server
    ring,     \* captured SYN-ACKs not yet processed
    conns,    \* SeqTracker.conns: local port -> captured event
    tracker,  \* globalSeqTracker is not nil
    rawOpen,  \* the raw socket is open
    got,      \* got[c]: the event whose numbers c's fakes carry
    fakes,    \* fakes[c]: fakes sent
    gaveUp,   \* connections whose SendFake failed
    real,     \* connections whose ClientHello was forwarded
    stop,     \* how far tunEngine.Stop has come
    dnsSet    \* the system resolver is 127.0.0.1

vars == <<pc, lport, ring, conns, tracker, rawOpen, got, fakes, gaveUp, real, stop, dnsSet>>

flowVars == <<lport, got, fakes, gaveUp, real>>
stopVars == <<tracker, rawOpen, stop, dnsSet>>
seqVars  == <<ring, conns>>

PCs == {"idle", "dial", "read", "seq", "call", "wait", "inject", "write", "pipe", "closed"}

\* The stages in which a connection owns a socket and its local port.
Open(c) == pc[c] \in PCs \ {"idle", "dial", "closed"}

Alive == stop \notin {"done", "panic"}

TypeOK ==
    /\ pc \in [Conn -> PCs]
    /\ lport \in [Conn -> LPort \cup {NoPort}]
    /\ ring \in Seq(Conn)
    /\ conns \in [LPort -> Conn \cup {None}]
    /\ tracker \in BOOLEAN
    /\ rawOpen \in BOOLEAN
    /\ got \in [Conn -> Conn \cup {Placeholder, None}]
    /\ fakes \in [Conn -> 0..Burst]
    /\ gaveUp \subseteq Conn
    /\ real \subseteq Conn
    /\ stop \in {"run", "raw", "tracker", "dns", "exit", "done", "panic"}
    /\ dnsSet \in BOOLEAN

\* The engine is up; startSeqTracker may have failed, which is only logged.
Init ==
    /\ pc = [c \in Conn |-> "idle"]
    /\ lport = [c \in Conn |-> NoPort]
    /\ ring = <<>>
    /\ conns = [q \in LPort |-> None]
    /\ tracker \in BOOLEAN
    /\ rawOpen = TRUE
    /\ got = [c \in Conn |-> None]
    /\ fakes = [c \in Conn |-> 0]
    /\ gaveUp = {}
    /\ real = {}
    /\ stop = "run"
    /\ dnsSet = TRUE

\* The goroutine of c is about to take the step l; a dead process takes none.
At(c, l)   == Alive /\ pc[c] = l
Goto(c, l) == pc' = [pc EXCEPT ![c] = l]

-----------------------------------------------------------------------------
(* handler.NewConnectionEx and injectAndForward *)

\* cancel() closes the TUN and fails the dials of its connections; the DoH
\* client dials with the context of its request.
Reachable(c) == stop = "run" \/ c \in Doh

\* sing-tun hands a connection to the handler, or the DoH client dials.
NewConnectionEx(c) ==
    /\ At(c, "idle")
    /\ Reachable(c)
    /\ Goto(c, "dial")
    /\ UNCHANGED <<flowVars, seqVars, stopVars>>

\* What the capture sees of the handshake: the SYN-ACK may be missed (another
\* port than 443, pcap drops), or be sent more than once.
Capture(c) ==
    \E k \in 0..MaxCopies :
        /\ Len(ring) + k <= RingCap
        /\ ring' = ring \o [i \in 1..k |-> c]

SameFamily(c, d) == c \in V6 <=> d \in V6

\* dialServer: the kernel picks a local port no open socket of the family has; an
\* IPv4 and an IPv6 connection may share one.
DialServer(c) ==
    /\ At(c, "dial")
    /\ \/ \E q \in LPort :
            /\ Reachable(c)
            /\ \A d \in Conn : Open(d) /\ SameFamily(c, d) => lport[d] # q
            /\ lport' = [lport EXCEPT ![c] = q]
            /\ Goto(c, IF c \in Target THEN "read" ELSE "pipe")
            /\ Capture(c)
       \/ Goto(c, "closed") /\ UNCHANGED <<lport, ring>>
    /\ UNCHANGED <<got, fakes, gaveUp, real, conns, stopVars>>

\* appConn.Read with its 5 s deadline.
ReadHello(c) ==
    /\ At(c, "read")
    /\ Goto(c, "seq") \/ Goto(c, "closed")
    /\ UNCHANGED <<flowVars, seqVars, stopVars>>

\* GetSeqAck reads globalSeqTracker a first time.
CheckTracker(c) ==
    /\ At(c, "seq")
    /\ IF tracker
       THEN Goto(c, "call") /\ got' = got
       ELSE Goto(c, "inject") /\ got' = [got EXCEPT ![c] = Placeholder]
    /\ UNCHANGED <<lport, fakes, gaveUp, real, seqVars, stopVars>>

\* GetSeqAck reads it again for the call: on a nil tracker WaitForSeqAck
\* dereferences nil and the panic ends the process.
CallTracker(c) ==
    /\ At(c, "call")
    /\ IF tracker
       THEN Goto(c, "wait") /\ stop' = stop
       ELSE pc' = pc /\ stop' = "panic"
    /\ UNCHANGED <<flowVars, seqVars, tracker, rawOpen, dnsSet>>

\* WaitForSeqAck polls until there is an event, without a deadline.
WaitForever(c) ==
    /\ At(c, "wait")
    /\ conns[lport[c]] # None
    /\ got' = [got EXCEPT ![c] = conns[lport[c]]]
    /\ conns' = [conns EXCEPT ![lport[c]] = None]
    /\ Goto(c, "inject")
    /\ UNCHANGED <<lport, fakes, gaveUp, real, ring, stopVars>>

\* After the 500 ms the tracker is asked again.
WaitAgain(c) ==
    /\ At(c, "wait")
    /\ \/ /\ conns[lport[c]] # None
          /\ got' = [got EXCEPT ![c] = conns[lport[c]]]
          /\ conns' = [conns EXCEPT ![lport[c]] = None]
          /\ Goto(c, "inject")
       \/ /\ Goto(c, "seq")
          /\ UNCHANGED <<got, conns>>
    /\ UNCHANGED <<lport, fakes, gaveUp, real, ring, stopVars>>

\* WaitForSeqAck: LoadAndDelete of the local port, or the 500 ms are over.
WaitForSeqAck(c) ==
    /\ At(c, "wait")
    /\ \/ /\ conns[lport[c]] # None
          /\ got' = [got EXCEPT ![c] = conns[lport[c]]]
          /\ conns' = [conns EXCEPT ![lport[c]] = None]
       \/ /\ got' = [got EXCEPT ![c] = Placeholder]
          /\ UNCHANGED conns
    /\ Goto(c, "inject")
    /\ UNCHANGED <<lport, fakes, gaveUp, real, ring, stopVars>>

\* An error of SendFake skips to the next attempt and is then forgotten.
SendFakeContinues(c) ==
    /\ At(c, "inject")
    /\ fakes[c] < Burst
    /\ \/ rawOpen /\ fakes' = [fakes EXCEPT ![c] = @ + 1] /\ pc' = pc
       \/ fakes' = fakes /\ Goto(c, "write")
    /\ UNCHANGED <<lport, got, gaveUp, real, seqVars, stopVars>>

\* One turn of the loop over SendFake; an error leaves the loop.
SendFake(c) ==
    /\ At(c, "inject")
    /\ \/ /\ fakes[c] < Burst
          /\ rawOpen
          /\ fakes' = [fakes EXCEPT ![c] = @ + 1]
          /\ UNCHANGED <<pc, gaveUp>>
       \/ /\ fakes[c] < Burst
          /\ gaveUp' = gaveUp \cup {c}
          /\ Goto(c, "write")
          /\ UNCHANGED fakes
       \/ /\ fakes[c] = Burst
          /\ Goto(c, "write")
          /\ UNCHANGED <<fakes, gaveUp>>
    /\ UNCHANGED <<lport, got, real, seqVars, stopVars>>

\* serverConn.Write of the ClientHello, after the 2 ms sleep.
WriteHello(c) ==
    /\ At(c, "write")
    /\ \/ real' = real \cup {c} /\ Goto(c, "pipe")
       \/ real' = real /\ Goto(c, "closed")
    /\ UNCHANGED <<lport, got, fakes, gaveUp, seqVars, stopVars>>

\* pipe returns (module Pipe); both sockets are closed.
PipeEnds(c) ==
    /\ At(c, "pipe")
    /\ Goto(c, "closed")
    /\ UNCHANGED <<flowVars, seqVars, stopVars>>

-----------------------------------------------------------------------------
(* capture and seqtrack *)

\* The event filed under the server's port, which all connections share.
StoreByServerPort ==
    /\ Alive
    /\ ring # <<>>
    /\ conns' = [q \in LPort |-> Head(ring)]
    /\ ring' = Tail(ring)
    /\ UNCHANGED <<pc, flowVars, stopVars>>

\* processPacket and the callback of NewSeqTracker: the event is filed under
\* its local port, over whatever is there.
Store ==
    /\ Alive
    /\ ring # <<>>
    /\ conns' = [conns EXCEPT ![lport[Head(ring)]] = Head(ring)]
    /\ ring' = Tail(ring)
    /\ UNCHANGED <<pc, flowVars, stopVars>>

-----------------------------------------------------------------------------
(* tunEngine.Stop *)

\* cancel, stack.Close, tunDevice.Close: no new connection from here on.
StopStack ==
    /\ stop = "run"
    /\ stop' = "raw"
    /\ UNCHANGED <<pc, flowVars, seqVars, tracker, rawOpen, dnsSet>>

StopRaw ==
    /\ stop = "raw"
    /\ rawOpen' = FALSE
    /\ stop' = "tracker"
    /\ UNCHANGED <<pc, flowVars, seqVars, tracker, dnsSet>>

\* The monitors are closed, then SetSeqTracker(nil); the capture is left running.
StopTracker ==
    /\ stop = "tracker"
    /\ tracker' = FALSE
    /\ stop' = "dns"
    /\ UNCHANGED <<pc, flowVars, seqVars, rawOpen, dnsSet>>

\* RestoreSystemDNS.
StopDns ==
    /\ stop = "dns"
    /\ dnsSet' = FALSE
    /\ stop' = "exit"
    /\ UNCHANGED <<pc, flowVars, seqVars, tracker, rawOpen>>

\* dns.Stop, resumeSystemDNS, and the process ends with every goroutine.
StopExit ==
    /\ stop = "exit"
    /\ stop' = "done"
    /\ UNCHANGED <<pc, flowVars, seqVars, tracker, rawOpen, dnsSet>>

-----------------------------------------------------------------------------

\* What a handler's goroutine does without waiting for the network's peers.
HandlerStep(c) ==
    \/ DialServer(c) \/ ReadHello(c) \/ CheckTracker(c) \/ CallTracker(c)
    \/ WaitForSeqAck(c) \/ SendFake(c) \/ WriteHello(c)

StopStep == StopRaw \/ StopTracker \/ StopDns \/ StopExit

Next ==
    \/ \E c \in Conn : NewConnectionEx(c) \/ HandlerStep(c) \/ PipeEnds(c)
    \/ Store
    \/ StopStack
    \/ StopStep

Spec == Init /\ [][Next]_vars

\* Dials and reads have deadlines, the wait for a SYN-ACK has its 500 ms, and
\* a goroutine that can run is eventually run.
Fairness ==
    /\ \A c \in Conn : WF_vars(HandlerStep(c))
    /\ WF_vars(StopStep)

FairSpec == Spec /\ Fairness

-----------------------------------------------------------------------------
(* Properties *)

\* What the TUN engine implements of the desynchronisation promise.
Promise == INSTANCE Desync
    WITH Conn <- Conn, Burst <- Burst, fakes <- fakes, gaveUp <- gaveUp, real <- real

\* handler.go:98-113: for every connection the fakes leave before the real
\* ClientHello, three of them unless sending one failed, whatever Stop does to
\* the raw socket and the tracker meanwhile.
ImplementsDesync == Promise!Spec

\* seqtracker_darwin.go:26-43: the numbers a fake carries are the connection's own, or
\* come from its local port: from a closed connection that had it before, or from one
\* of the other address family, open or not, as the tracker's key is the port alone.
\* Two open connections of one family never mix.
NoCrosstalk ==
    \A c \in Conn : got[c] \in Conn \ {c} =>
        /\ lport[got[c]] = lport[c]
        /\ SameFamily(c, got[c]) => pc[got[c]] = "closed"

\* The stages from the connection to the server to the write of the ClientHello.
Handling == {"read", "seq", "call", "wait", "inject", "write"}

\* The steps a handler in one of them has at most before the ClientHello is forwarded
\* or the connection closed.
Left(c) ==
    Burst - fakes[c]
        + (CASE pc[c] = "read" -> 6 [] pc[c] = "seq" -> 5 [] pc[c] = "call" -> 4
             [] pc[c] = "wait" -> 3 [] pc[c] = "inject" -> 2 [] pc[c] = "write" -> 1
             [] OTHER -> 0)

\* handler.go:68-116: from the connection to the server to the ClientHello a handler
\* only goes forward, whatever the capture, Stop and other handlers do: it is moved
\* by nothing but its own steps, and no failure makes it start over or wait again.
HelloForward ==
    [][\A c \in Conn :
          pc[c] \in Handling /\ <<pc[c], fakes[c]>>' # <<pc[c], fakes[c]>> =>
              /\ Left(c)' < Left(c)
              /\ pc'[c] \in Handling \cup {"pipe", "closed"}
              /\ pc'[c] = "pipe" => c \in real']_vars

\* handler.go:68-116: once the connection to the server is up, the ClientHello
\* is forwarded or the connection closed; a SYN-ACK that was never captured
\* does not hold it up.
HelloNotHeldUp ==
    \A c \in Target :
        pc[c] = "read" ~> (pc[c] = "closed" \/ c \in real \/ ~Alive)

\* pkg/engine/engine.go:10: Stop cleans up; the system's DNS is given back.
StopRestoresDns == stop = "raw" ~> ~dnsSet
=============================================================================
