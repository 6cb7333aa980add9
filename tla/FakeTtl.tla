------------------------------- MODULE FakeTtl -------------------------------
(***************************************************************************)
(* The hop limit of the fake ClientHello (pkg/tun/fakettl.go) and what it  *)
(* buys: the server's SYN-ACK crosses revHops routers, the hop limit it    *)
(* arrives with is turned into the hop limit of the fake, and the fake     *)
(* crosses up to fwdHops routers until it expires or reaches the server.   *)
(*                                                                         *)
(* A router decrements the hop limit and drops the packet at zero; a       *)
(* packet that leaves with hop limit t reaches a server behind d routers   *)
(* iff t > d.                                                              *)
(***************************************************************************)
EXTENDS Integers

CONSTANTS
    Configs,    \* the values given to --fake-ttl
    Hops        \* the numbers of routers on either direction of a path

ASSUME ConfigsAssumption == Configs \subseteq Int
ASSUME HopsAssumption    == Hops \subseteq Nat

VARIABLES
    stage,      \* "syn" | "synack" | "fake" | "expired" | "arrived"
    configured, \* Manager.cfg.FakeTTL
    initial,    \* the hop limit the server's stack starts from
    revHops,    \* routers from the server to this host
    fwdHops,    \* routers from this host to the server
    observed,   \* hop limit the capture reports for the SYN-ACK
    ttl,        \* hop limit left in the fake
    crossed     \* routers the fake has crossed

vars == <<stage, configured, initial, revHops, fwdHops, observed, ttl, crossed>>

-----------------------------------------------------------------------------

\* How many hops short of the measured distance the fake dies.
hopMargin == 3

\* NewManager replaces an unset hop limit by its default.
DefaultFakeTTL(cfg) == IF cfg = 0 THEN 8 ELSE cfg

\* Routers that start from 255 are not thought of.
InitialGuessNo255(obs) == IF obs > 64 THEN 128 ELSE 64

\* The initial hop limit a stack is assumed to have used.
InitialGuess(obs) ==
    IF obs > 128 THEN 255 ELSE IF obs > 64 THEN 128 ELSE 64

\* A margin forgotten when the distance is turned into a hop limit.
fakeTTLNoMargin(cfg, obs) ==
    LET short == InitialGuess(obs) - obs
        atLeastOne == IF short < 1 THEN 1 ELSE short
    IN  IF obs = 0 \/ atLeastOne > cfg THEN cfg ELSE atLeastOne

\* fakeTTL: configured is used unchanged when nothing was observed, and it is
\* an upper bound of what the distance gives otherwise.
fakeTTL(cfg, obs) ==
    LET short == InitialGuess(obs) - obs - hopMargin
        atLeastOne == IF short < 1 THEN 1 ELSE short
    IN  IF obs = 0 \/ atLeastOne > cfg THEN cfg ELSE atLeastOne

\* buildIPv4Header and buildIPv6Header store the hop limit in one byte.
WireTtl(t) == t % 256

-----------------------------------------------------------------------------

Init ==
    /\ stage = "syn"
    /\ configured \in {DefaultFakeTTL(cfg) : cfg \in Configs}
    /\ initial \in {64, 128, 255}
    /\ revHops \in {d \in Hops : d < initial}
    /\ fwdHops \in Hops
    /\ observed = 0
    /\ ttl = 0
    /\ crossed = 0

\* The capture sees the SYN-ACK.  It reports the hop limit the packet arrived
\* with on darwin; the windows capture has no such field and reports zero, as
\* does the placeholder GetSeqAck falls back to.
ReceiveSynAck ==
    /\ stage = "syn"
    /\ stage' = "synack"
    /\ observed' \in {0, initial - revHops}
    /\ UNCHANGED <<configured, initial, revHops, fwdHops, ttl, crossed>>

\* injectAndForward computes the hop limit and sends the fake.
SendFake ==
    /\ stage = "synack"
    /\ stage' = "fake"
    /\ ttl' = WireTtl(fakeTTL(configured, observed))
    /\ UNCHANGED <<configured, initial, revHops, fwdHops, observed, crossed>>

\* The next router decrements the hop limit and drops the packet at zero.
CrossRouter ==
    /\ stage = "fake"
    /\ crossed < fwdHops
    /\ crossed' = crossed + 1
    /\ ttl' = IF ttl = 0 THEN 0 ELSE ttl - 1
    /\ stage' = IF ttl <= 1 THEN "expired" ELSE "fake"
    /\ UNCHANGED <<configured, initial, revHops, fwdHops, observed>>

\* No router is left: the fake is at the server.
ReachServer ==
    /\ stage = "fake"
    /\ crossed = fwdHops
    /\ stage' = "arrived"
    /\ UNCHANGED <<configured, initial, revHops, fwdHops, observed, ttl, crossed>>

Done == stage \in {"expired", "arrived"} /\ UNCHANGED vars

Next == ReceiveSynAck \/ SendFake \/ CrossRouter \/ ReachServer \/ Done

Spec == Init /\ [][Next]_vars

-----------------------------------------------------------------------------

TypeOK ==
    /\ stage \in {"syn", "synack", "fake", "expired", "arrived"}
    /\ configured \in Int
    /\ initial \in {64, 128, 255}
    /\ revHops \in Nat
    /\ fwdHops \in Nat
    /\ observed \in Nat
    /\ ttl \in 0..255
    /\ crossed \in Nat

\* The path is one the margin was measured for: there is a router before the
\* server, and the forward path is at most hopMargin routers shorter than the
\* return path the SYN-ACK measured.
WithinMargin == fwdHops >= 1 /\ revHops <= fwdHops + hopMargin

\* fakettl.go:18-19: the fake dies before the real server whenever the hop
\* limit was observed, the configured value is a hop limit, and the path is
\* within the margin, whichever initial hop limit the server's stack used (a
\* distance of more than 64 routers makes InitialGuess wrong, never unsafe).
FakeDiesOnPath ==
    stage = "arrived" /\ observed # 0 /\ configured >= 1 => ~WithinMargin

\* fakettl.go:18: the fake travels far enough to reach the DPI: one that expires
\* has crossed every router up to hopMargin before the server, or as many as were
\* configured, whichever initial hop limit the server's stack used, on return
\* paths of less than 64 routers (from there on InitialGuess may be too low).
FakeTravelsFar ==
    stage = "expired" /\ observed # 0 /\ configured >= 1 /\ revHops < 64 =>
        crossed >= configured \/ crossed >= revHops - hopMargin
=============================================================================
