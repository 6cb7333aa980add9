------------------------------- MODULE Desync --------------------------------
(***************************************************************************)
(* What gecit promises for one TLS connection (README.md, "How It Works"): *)
(* the fake ClientHellos leave before the real one.  A connection gets its *)
(* whole burst of fakes, or sending was given up after an error, and only  *)
(* then the real ClientHello; no fake follows the real one.                *)
(***************************************************************************)
EXTENDS Naturals

CONSTANTS
    Conn,     \* connections
    Burst     \* fakes per connection

VARIABLES
    fakes,    \* fakes[c]: how many fakes were sent for c
    gaveUp,   \* connections for which sending a fake failed
    real      \* connections whose real ClientHello was sent

dvars == <<fakes, gaveUp, real>>

Init ==
    /\ fakes = [c \in Conn |-> 0]
    /\ gaveUp = {}
    /\ real = {}

Fake(c) ==
    /\ c \notin real \cup gaveUp
    /\ fakes[c] < Burst
    /\ fakes' = [fakes EXCEPT ![c] = @ + 1]
    /\ UNCHANGED <<gaveUp, real>>

GiveUp(c) ==
    /\ c \notin real \cup gaveUp
    /\ gaveUp' = gaveUp \cup {c}
    /\ UNCHANGED <<fakes, real>>

Real(c) ==
    /\ c \notin real
    /\ fakes[c] = Burst \/ c \in gaveUp
    /\ real' = real \cup {c}
    /\ UNCHANGED <<fakes, gaveUp>>

Next == \E c \in Conn : Fake(c) \/ GiveUp(c) \/ Real(c)

Spec == Init /\ [][Next]_dvars
=============================================================================
