--------------------------- MODULE DnsServerProofs ---------------------------
(***************************************************************************)
(* The safety of the fallback between upstreams, for any list of them and  *)
(* any number of queries.                                                  *)
(***************************************************************************)
EXTENDS DnsServer, TLAPS

\* No query has gone past a good client, a lookup waits for a client without an
\* address, and nothing is asked before the clients are made.
NotPast ==
    /\ phase = "new" => \A q \in All : st[q] = "none"
    /\ \A q \in All : st[q] = "lookup" => Current(q) \notin pinned
    /\ \A q \in All, k \in 1..Len(Upstreams) :
           st[q] \in Busy /\ Upstreams[k] \in good => at[q] <= k

Inv == TypeOK /\ NotPast /\ GoodSuffices

\* A query at a client that is not good has a good one, if there is any, ahead.
LEMMA GoodAhead ==
    ASSUME Inv, NEW q \in All, st[q] \in Busy, Current(q) \notin good
    PROVE  /\ \A k \in 1..Len(Upstreams) : Upstreams[k] \in good => at[q] + 1 <= k
           /\ good # {} => at[q] < Len(Upstreams)
<1>1. at[q] \in 1..Len(Upstreams) /\ Len(Upstreams) \in Nat
    BY DnsAssumption DEF Inv, TypeOK
<1>2. ASSUME NEW k \in 1..Len(Upstreams), Upstreams[k] \in good
      PROVE  at[q] + 1 <= k
  <2>1. at[q] <= k /\ at[q] # k
    BY <1>2 DEF Inv, NotPast, Current
  <2> QED
    BY <1>1, <2>1
<1>3. ASSUME good # {} PROVE at[q] < Len(Upstreams)
  <2>1. PICK k \in 1..Len(Upstreams) : Upstreams[k] \in good
    BY <1>3 DEF Inv, TypeOK, Client
  <2> QED
    BY <1>1, <1>2, <2>1
<1> QED
    BY <1>2, <1>3

\* Going on to the next client is safe at a client that is not good.
LEMMA NextClientInv ==
    ASSUME Inv, NEW q \in All, st[q] \in Busy, Current(q) \notin good,
           phase # "new", NextClient(q)
    PROVE  Inv'
<1>1. at[q] \in 1..Len(Upstreams) /\ Len(Upstreams) \in Nat
    BY DnsAssumption DEF Inv, TypeOK
<1>2. TypeOK'
    BY <1>1 DEF Inv, TypeOK, NextClient, Busy
<1>3. NotPast'
    BY <1>1, GoodAhead DEF Inv, TypeOK, NotPast, NextClient, Busy, Current
<1>4. GoodSuffices'
    BY <1>1, GoodAhead DEF Inv, TypeOK, GoodSuffices, NextClient
<1> QED
    BY <1>2, <1>3, <1>4 DEF Inv

\* Inv holds initially.
LEMMA InitInv == Init => Inv
BY DnsAssumption DEF Init, Inv, TypeOK, NotPast, GoodSuffices, Busy, Client, Current

\* Every step preserves Inv.
LEMMA StepInv == Inv /\ [Next]_vars => Inv'
<1> SUFFICES ASSUME Inv, [Next]_vars PROVE Inv'
    OBVIOUS
<1>a. TypeOK /\ NotPast /\ GoodSuffices /\ Len(Upstreams) \in Nat \ {0}
    BY DnsAssumption DEF Inv
<1>b. \A q \in All : st[q] \in Busy => phase # "new"
    BY <1>a DEF NotPast, Busy
<1>c. phase # "new" => good \subseteq pinned
    BY <1>a DEF TypeOK
<1>1. CASE NewServer
    BY <1>1, <1>a, DnsAssumption DEF NewServer, Inv, TypeOK, NotPast, GoodSuffices, Current
<1>2. CASE TakeOver
    BY <1>2, <1>a DEF TakeOver, Inv, TypeOK, NotPast, GoodSuffices, Current
<1>3. CASE Shutdown
    BY <1>3, <1>a DEF Shutdown, Inv, TypeOK, NotPast, GoodSuffices, Current
<1>4. CASE Stopped
    BY <1>4, <1>a DEF Stopped, Inv, TypeOK, NotPast, GoodSuffices, Current
<1>5. ASSUME NEW q \in All, Begin(q) PROVE Inv'
    BY <1>5, <1>a DEF Begin, Inv, TypeOK, NotPast, GoodSuffices, Busy, Current
<1>6. ASSUME NEW q \in All, Step(q) PROVE Inv'
  <2>1. CASE Dial(q)
    BY <1>6, <2>1, <1>a, <1>b DEF Dial, Inv, TypeOK, NotPast, GoodSuffices, Busy, Current
  <2>2. CASE Lookup(q)
    <3>1. Current(q) \in All
      BY <1>a DEF TypeOK, Current, All, Client
    <3>2. /\ DOMAIN st' = All
          /\ \A r \in All : st'[r] # st[r] =>
                \/ r = q /\ st'[r] = "lookup"
                \/ st[r] \notin Busy /\ st'[r] = "none"
      BY <2>2, <3>1, <1>a DEF Lookup, TypeOK, Busy
    <3>3. TypeOK'
      BY <2>2, <3>1, <1>a DEF Lookup, TypeOK, Busy
    <3> QED
      BY <2>2, <3>2, <3>3, <1>a, <1>b DEF Lookup, Inv, NotPast, GoodSuffices, Busy, Current
  <2>3. CASE LookupEnds(q)
    <3>1. CASE NextClient(q)
      <4>1. st[q] \in Busy /\ phase # "new" /\ Current(q) \notin good
        BY <2>3, <1>a, <1>b, <1>c DEF LookupEnds, NotPast, Busy
      <4> QED
        BY <3>1, <4>1, NextClientInv
    <3>2. CASE /\ st' = [st EXCEPT ![q] = "request"]
               /\ UNCHANGED <<good, phase, here, pinned, at, bad>>
      BY <2>3, <3>2, <1>a, <1>b
      DEF LookupEnds, Inv, TypeOK, NotPast, GoodSuffices, Busy, Current
    <3> QED
      BY <2>3, <3>1, <3>2 DEF LookupEnds
  <2>4. CASE Answer(q)
    BY <1>6, <2>4, <1>a, <1>b DEF Answer, Inv, TypeOK, NotPast, GoodSuffices, Busy, Current
  <2>5. CASE Error(q) \/ Timeout(q)
    <3>1. st[q] \in Busy /\ Current(q) \notin good /\ NextClient(q)
      BY <2>5 DEF Error, Timeout, Busy
    <3> QED
      BY <3>1, <1>b, NextClientInv
  <2>6. CASE Unpack(q)
    BY <1>6, <2>6, <1>a, <1>b DEF Unpack, Inv, TypeOK, NotPast, GoodSuffices, Busy, Current
  <2> QED
    BY <1>6, <2>1, <2>2, <2>3, <2>4, <2>5, <2>6 DEF Step
<1>7. CASE UNCHANGED vars
    BY <1>7, <1>a DEF vars, Inv, TypeOK, NotPast, GoodSuffices, Current
<1> QED
    BY <1>1, <1>2, <1>3, <1>4, <1>5, <1>6, <1>7 DEF Next, LookupHere, All

\* Inv is an invariant of the specification.
LEMMA SpecInv == Spec => []Inv
BY InitInv, StepInv, PTL DEF Spec

\* The variables keep their types; in particular no query goes past the last client.
THEOREM TypeCorrect == Spec => []TypeOK
<1>1. Inv => TypeOK
    BY DEF Inv
<1> QED
    BY SpecInv, <1>1, PTL

\* doh.go:123-133: one good upstream suffices, wherever it is in a list of any
\* length and however the lookups of the others' names are entangled.
THEOREM OneGoodUpstream == Spec => []GoodSuffices
<1>1. Inv => GoodSuffices
    BY DEF Inv
<1> QED
    BY SpecInv, <1>1, PTL
-----------------------------------------------------------------------------

\* The steps a query under way has at most before it is answered.
Left(q) ==
    3 * (Len(Upstreams) - at[q])
        + (CASE st[q] = "dial" -> 3 [] st[q] = "lookup" -> 2 [] OTHER -> 1)

\* server.go:95-119, doh.go:80: a query under way is moved by its own handler only,
\* and whatever moves it brings it nearer to its answer: a lookup that goes round
\* through this server, a retry or a late answer takes it back to no client.
NearerOnly ==
    [][\A q \in All :
          st[q] \in Busy /\ <<st[q], at[q]>>' # <<st[q], at[q]>> =>
              st'[q] \notin Busy \/ Left(q)' < Left(q)]_vars

\* doh.go:123-133: at most three steps for each upstream that is left: the safety half
\* of QueryEnds, for any list of upstreams and any number of queries.
THEOREM EndsInThreeEach == Spec => NearerOnly
<1> DEFINE Nearer(q) ==
        st[q] \in Busy /\ <<st[q], at[q]>>' # <<st[q], at[q]>> =>
            st'[q] \notin Busy \/ Left(q)' < Left(q)
<1>1. ASSUME TypeOK, [Next]_vars, NEW q \in All
      PROVE  Nearer(q)
  <2>a. Len(Upstreams) \in Nat /\ at[q] \in 1..Len(Upstreams)
    BY <1>1, DnsAssumption DEF TypeOK
  <2> USE <1>1
  <2>1. CASE NewServer \/ TakeOver \/ Shutdown \/ Stopped \/ UNCHANGED vars
    BY <2>1 DEF NewServer, TakeOver, Shutdown, Stopped, vars
  <2>2. ASSUME NEW r \in All, Begin(r) PROVE Nearer(q)
    BY <2>2 DEF Begin, TypeOK
  <2>3. ASSUME NEW r \in All, r # q, Step(r), st[q] \in Busy
        PROVE  UNCHANGED <<st[q], at[q]>>
    <3>1. CASE Lookup(r)
      <4>1. Current(r) \in All
        BY DEF TypeOK, Current, All, Client
      <4> QED
        BY <2>3, <3>1, <4>1 DEF Lookup, TypeOK
    <3>2. CASE Dial(r) \/ LookupEnds(r) \/ Answer(r) \/ Error(r) \/ Unpack(r) \/ Timeout(r)
      BY <2>3, <3>2 DEF Dial, LookupEnds, Answer, Error, Unpack, Timeout, NextClient, TypeOK
    <3> QED
      BY <2>3, <3>1, <3>2 DEF Step
  <2>4. ASSUME NextClient(q) PROVE st'[q] \notin Busy \/ Left(q)' < Left(q)
    <3>1. CASE at[q] < Len(Upstreams)
      <4>1. at'[q] = at[q] + 1 /\ st'[q] = "dial"
        BY <2>4, <3>1 DEF NextClient, TypeOK
      <4> QED
        BY <2>a, <4>1 DEF Left
    <3>2. CASE ~(at[q] < Len(Upstreams))
      BY <2>4, <3>2 DEF NextClient, TypeOK, Busy
    <3> QED
      BY <3>1, <3>2
  <2>5. ASSUME Step(q) PROVE Nearer(q)
    <3>1. CASE Dial(q)
      BY <3>1, <2>a DEF Dial, TypeOK, Left
    <3>2. CASE Lookup(q)
      <4>1. Current(q) \in All
        BY DEF TypeOK, Current, All, Client
      <4>2. st'[q] = "lookup" /\ at' = at
        BY <3>2, <4>1 DEF Lookup, TypeOK, Busy
      <4> QED
        BY <3>2, <4>2, <2>a DEF Lookup, Left
    <3>3. CASE LookupEnds(q)
      BY <3>3, <2>a, <2>4 DEF LookupEnds, TypeOK, Left
    <3>4. CASE Answer(q) \/ Unpack(q)
      BY <3>4 DEF Answer, Unpack, TypeOK, Busy
    <3>5. CASE Error(q) \/ Timeout(q)
      BY <3>5, <2>4 DEF Error, Timeout
    <3> QED
      BY <2>5, <3>1, <3>2, <3>3, <3>4, <3>5 DEF Step
  <2> QED
    BY <2>1, <2>2, <2>3, <2>5 DEF Next, LookupHere, All
<1>2. TypeOK /\ [Next]_vars => [\A q \in All : Nearer(q)]_vars
    BY <1>1
<1> QED
    BY TypeCorrect, <1>2, PTL DEF Spec, NearerOnly
\* server.go:88-93: Shutdown only waits for handlers that are there when it is called.
NoNewWork ==
    [][phase = "closing" => \A q \in All : st'[q] \in Busy => st[q] \in Busy]_vars

\* server.go:88-93: while Stop waits no handler is added, a lookup that reaches this
\* server on behalf of one of its own queries included: the safety half of
\* ShutdownEnds, with EndsInThreeEach for the handlers that are there.
THEOREM ShutdownDrains == Spec => NoNewWork
<1>1. ASSUME TypeOK, [Next]_vars, phase = "closing", NEW q \in All, st'[q] \in Busy
      PROVE  st[q] \in Busy
  <2> USE <1>1
  <2>1. CASE NewServer \/ TakeOver \/ Shutdown \/ Stopped \/ UNCHANGED vars
    BY <2>1 DEF NewServer, TakeOver, Shutdown, Stopped, vars
  <2>2. ASSUME NEW r \in All, Begin(r) PROVE FALSE
    BY <2>2 DEF Begin
  <2>3. ASSUME NEW r \in All, Lookup(r) PROVE st[q] \in Busy
    <3>1. Current(r) \in All
      BY DEF TypeOK, Current, All, Client
    <3> QED
      BY <2>3, <3>1 DEF Lookup, TypeOK, Busy
  <2>4. ASSUME NEW r \in All,
               Dial(r) \/ LookupEnds(r) \/ Answer(r) \/ Error(r) \/ Unpack(r) \/ Timeout(r)
        PROVE  st[q] \in Busy
    BY <2>4 DEF Dial, LookupEnds, Answer, Error, Unpack, Timeout, NextClient, TypeOK, Busy
  <2> QED
    BY <2>1, <2>2, <2>3, <2>4 DEF Next, LookupHere, Step, All
<1>2. TypeOK /\ [Next]_vars =>
        [phase = "closing" => \A q \in All : st'[q] \in Busy => st[q] \in Busy]_vars
    BY <1>1
<1> QED
    BY TypeCorrect, <1>2, PTL DEF Spec, NoNewWork
=============================================================================
