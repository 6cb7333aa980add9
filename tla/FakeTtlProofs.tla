---------------------------- MODULE FakeTtlProofs ----------------------------
(* Proofs about the hop limit of the fake, for every path and every flag. *)
EXTENDS FakeTtl, TLAPS

\* The bound the fake's hop limit is kept under, given the measured distance.
Reach == IF revHops - hopMargin < 1 THEN 1 ELSE revHops - hopMargin

\* Whatever InitialGuess makes of an observed hop limit (fakettl.go:32-38), the
\* computed one is a byte, at least 1 and at most the measured distance less
\* the margin; within 64 routers the guess is right and it is no less either,
\* unless so configured.
LEMMA FakeTTLBound ==
    ASSUME NEW init \in {64, 128, 255}, NEW d \in Nat, d < init,
           NEW cfg \in Int, cfg >= 1
    PROVE  /\ WireTtl(fakeTTL(cfg, init - d)) >= 1
           /\ WireTtl(fakeTTL(cfg, init - d)) <= cfg
           /\ WireTtl(fakeTTL(cfg, init - d)) <= 1 \/ WireTtl(fakeTTL(cfg, init - d)) <= d - hopMargin
           /\ d < 64 => \/ WireTtl(fakeTTL(cfg, init - d)) >= cfg
                        \/ WireTtl(fakeTTL(cfg, init - d)) >= d - hopMargin
<1>1. PICK g \in {64, 128, 255} : g = InitialGuess(init - d) /\ g <= init /\ g >= init - d
                                        /\ (d < 64 => g = init)
  BY DEF InitialGuess
<1>2. /\ fakeTTL(cfg, init - d) \in 1..255
      /\ fakeTTL(cfg, init - d) <= 1 \/ fakeTTL(cfg, init - d) <= d - hopMargin
      /\ fakeTTL(cfg, init - d) <= cfg
      /\ d < 64 => fakeTTL(cfg, init - d) >= cfg \/ fakeTTL(cfg, init - d) >= d - hopMargin
  BY <1>1 DEF fakeTTL, hopMargin
<1>3. QED
  BY <1>2 DEF WireTtl

\* How the fake's hop limit and the routers it has crossed are related.
Travel ==
    /\ observed \in {0, initial - revHops}
    /\ revHops < initial
    /\ crossed <= fwdHops
    /\ stage = "syn" => crossed = 0
    /\ stage = "synack" => crossed = 0
    /\ stage = "arrived" => crossed = fwdHops
    /\ stage \in {"fake", "arrived"} /\ observed # 0 /\ configured >= 1 =>
          ttl >= 1 /\ ttl + crossed <= Reach
    /\ stage \in {"fake", "expired"} /\ observed # 0 /\ configured >= 1 /\ revHops < 64 =>
          ttl + crossed >= configured \/ ttl + crossed >= revHops - hopMargin
    /\ stage = "expired" => ttl = 0

IInv == TypeOK /\ Travel

LEMMA InitIInv == Init => IInv
  BY ConfigsAssumption, HopsAssumption
     DEF Init, IInv, TypeOK, Travel, DefaultFakeTTL

LEMMA NextIInv == IInv /\ [Next]_vars => IInv'
<1> SUFFICES ASSUME IInv, [Next]_vars PROVE IInv'
  OBVIOUS
<1> USE DEF IInv, TypeOK, Travel, Reach, hopMargin
<1>1. CASE ReceiveSynAck
  BY <1>1 DEF ReceiveSynAck
<1>2. CASE SendFake
  <2>1. ttl' \in 0..255
    <3>1. fakeTTL(configured, observed) \in Int
      BY DEF fakeTTL, InitialGuess
    <3>2. QED
      BY <1>2, <3>1 DEF SendFake, WireTtl
  <2>2. ASSUME observed # 0, configured >= 1
        PROVE  /\ ttl' >= 1 /\ ttl' <= Reach
               /\ revHops < 64 => ttl' >= configured \/ ttl' >= revHops - hopMargin
    <3>1. observed = initial - revHops /\ revHops < initial /\ revHops \in Nat
      BY <2>2
    <3>2. ttl' = WireTtl(fakeTTL(configured, initial - revHops))
      BY <1>2, <3>1 DEF SendFake
    <3>3. /\ ttl' >= 1 /\ (ttl' <= 1 \/ ttl' <= revHops - hopMargin)
          /\ revHops < 64 => ttl' >= configured \/ ttl' >= revHops - hopMargin
      <4> HIDE DEF hopMargin, Reach
      <4>1. QED
        BY <2>2, <3>1, <3>2, FakeTTLBound
    <3>4. QED
      BY <3>1, <3>3, <2>1
  <2>3. QED
    BY <1>2, <2>1, <2>2 DEF SendFake
<1>3. CASE CrossRouter
  BY <1>3 DEF CrossRouter
<1>4. CASE ReachServer
  BY <1>4 DEF ReachServer
<1>5. CASE UNCHANGED vars
  BY <1>5 DEF vars
<1>6. QED
  BY <1>1, <1>2, <1>3, <1>4, <1>5 DEF Next, Done

\* rawsock.go:68, 85: the hop limit put on the wire is a byte, whatever number
\* the flag was given.
THEOREM TypeCorrect == Spec => []TypeOK
<1>1. IInv => TypeOK
  BY DEF IInv
<1>2. QED
  BY InitIInv, NextIInv, <1>1, PTL DEF Spec

\* fakettl.go:16-26: on every path within the margin, with any configured hop
\* limit and any of the usual initial ones, a fake whose SYN-ACK was observed
\* does not reach the server.
THEOREM FakeDiesSafe == Spec => []FakeDiesOnPath
<1>1. IInv => FakeDiesOnPath
  BY DEF IInv, TypeOK, Travel, Reach, hopMargin, FakeDiesOnPath, WithinMargin
<1>2. QED
  BY InitIInv, NextIInv, <1>1, PTL DEF Spec

\* fakettl.go:18: on every return path of less than 64 routers a fake that expires
\* got as far as the margin, or the flag, allows.
THEOREM FakeTravelsSafe == Spec => []FakeTravelsFar
<1>1. IInv => FakeTravelsFar
  BY DEF IInv, TypeOK, Travel, hopMargin, FakeTravelsFar
<1>2. QED
  BY InitIInv, NextIInv, <1>1, PTL DEF Spec
=============================================================================
