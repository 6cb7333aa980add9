------------------------------ MODULE DnsServer ------------------------------
(***************************************************************************)
(* The DNS server on 127.0.0.1:53 (pkg/dns/server.go) and its DoH clients  *)
(* (pkg/dns/doh.go).  Every query has a goroutine of its own, which tries  *)
(* the upstreams in order.                                                 *)
(*                                                                         *)
(* An upstream given by name is looked up when its client is made; if that *)
(* fails, the name stays in the URL and every dial looks it up through the *)
(* system, that is, once gecit has taken over, through this very server.   *)
(* The lookup is then a query like any other, identified here by the       *)
(* upstream it is for.  Of two lookups of one name at a time Go's resolver *)
(* makes one, so that a query may come to wait for itself.                 *)
(***************************************************************************)
EXTENDS Naturals, Sequences

CONSTANTS
    Upstreams,  \* the clients, in the order of --doh-upstream
    Named,      \* those whose URL has a name
    Query       \* queries of applications

Client == {Upstreams[i] : i \in 1..Len(Upstreams)}

ASSUME DnsAssumption ==
    /\ Len(Upstreams) \in Nat \ {0}
    /\ Named \subseteq Client
    /\ Query \cap Client = {}

VARIABLES
    good,    \* clients with an address that answer every request in time
    phase,   \* where the engine is
    here,    \* the system asks 127.0.0.1
    pinned,  \* clients with an address in their URL
    st,      \* where a query is; those of Client are lookups
    at,      \* the client a query has come to
    bad      \* a client answered the query with status 200 and no DNS message

vars == <<good, phase, here, pinned, st, at, bad>>

All == Query \cup Client

Busy == {"dial", "lookup", "request"}

TypeOK ==
    /\ good \subseteq Client \ Named
    /\ phase \in {"new", "started", "taken", "restored", "closing", "stopped"}
    /\ here \in BOOLEAN
    /\ pinned \subseteq Client
    /\ Client \ Named \subseteq pinned \/ phase = "new"
    /\ st \in [All -> Busy \cup {"none", "ok", "fail"}]
    /\ at \in [All -> 1..Len(Upstreams)]
    /\ bad \in [All -> BOOLEAN]

\* A killed run may have left the system asking 127.0.0.1.
Init ==
    /\ good \in SUBSET (Client \ Named)
    /\ phase = "new"
    /\ here \in BOOLEAN
    /\ pinned = {}
    /\ st = [q \in All |-> "none"]
    /\ at = [q \in All |-> 1]
    /\ bad = [q \in All |-> FALSE]

Current(q) == Upstreams[at[q]]

-----------------------------------------------------------------------------
(* The engine *)

\* NewResolver, then Server.Start: the names are looked up while nobody listens
\* on 127.0.0.1.
NewServer ==
    /\ phase = "new"
    /\ \E P \in SUBSET Named :
            /\ here => P = {}
            /\ pinned' = (Client \ Named) \cup P
    /\ phase' = "started"
    /\ UNCHANGED <<good, here, st, at, bad>>

\* SetSystemDNS, and RestoreSystemDNS, which may fail.
TakeOver ==
    \/ /\ phase = "started"
       /\ phase' = "taken"
       /\ here' = TRUE
       /\ UNCHANGED <<good, pinned, st, at, bad>>
    \/ /\ phase = "taken"
       /\ phase' = "restored"
       /\ here' \in BOOLEAN
       /\ UNCHANGED <<good, pinned, st, at, bad>>

\* Server.Stop: Shutdown takes no more queries and waits for the handlers.
Shutdown ==
    /\ phase = "restored"
    /\ phase' = "closing"
    /\ UNCHANGED <<good, here, pinned, st, at, bad>>

Stopped ==
    /\ phase = "closing"
    /\ \A q \in All : st[q] \notin Busy
    /\ phase' = "stopped"
    /\ UNCHANGED <<good, here, pinned, st, at, bad>>

-----------------------------------------------------------------------------
(* A query *)

\* A handler is started whatever Stop has begun.
BeginWhileClosing(q) ==
    /\ phase \in {"started", "taken", "restored", "closing"}
    /\ st[q] \notin Busy
    /\ st' = [st EXCEPT ![q] = "dial"]
    /\ at' = [at EXCEPT ![q] = 1]
    /\ bad' = [bad EXCEPT ![q] = FALSE]
    /\ UNCHANGED <<good, phase, here, pinned>>

\* handleQuery is started for q.
Begin(q) ==
    /\ phase \in {"started", "taken", "restored"}
    /\ st[q] \notin Busy
    /\ st' = [st EXCEPT ![q] = "dial"]
    /\ at' = [at EXCEPT ![q] = 1]
    /\ bad' = [bad EXCEPT ![q] = FALSE]
    /\ UNCHANGED <<good, phase, here, pinned>>

\* Resolve has failed: the first error is final.
NextClientNone(q) ==
    /\ st' = [st EXCEPT ![q] = "fail"]
    /\ UNCHANGED <<good, phase, here, pinned, at, bad>>

\* Resolve has failed for this client: the next one is tried, and after the last
\* SERVFAIL is sent.
NextClient(q) ==
    /\ IF at[q] < Len(Upstreams)
       THEN st' = [st EXCEPT ![q] = "dial"] /\ at' = [at EXCEPT ![q] = at[q] + 1]
       ELSE st' = [st EXCEPT ![q] = "fail"] /\ at' = at
    /\ UNCHANGED <<good, phase, here, pinned, bad>>

\* The client has an address and connects to it.
Dial(q) ==
    /\ st[q] = "dial"
    /\ Current(q) \in pinned
    /\ st' = [st EXCEPT ![q] = "request"]
    /\ UNCHANGED <<good, phase, here, pinned, at, bad>>

\* The client has a name, and the dial looks it up; it joins a lookup of that name
\* that is under way, be it the one q itself is for.
Lookup(q) ==
    /\ st[q] = "dial"
    /\ Current(q) \notin pinned
    /\ st' = [st EXCEPT ![q] = "lookup",
                        ![Current(q)] = IF @ \in Busy THEN @ ELSE "none"]
    /\ UNCHANGED <<good, phase, here, pinned, at, bad>>

\* The system asks here: the lookup reaches this server as a query.
LookupHere(c) ==
    /\ here
    /\ st[c] = "none"
    /\ \E q \in All : st[q] = "lookup" /\ Current(q) = c
    /\ Begin(c)

\* The answer of this server, or of another.
LookupEnds(q) ==
    /\ st[q] = "lookup"
    /\ \/ /\ ~here \/ st[Current(q)] = "ok"
          /\ st' = [st EXCEPT ![q] = "request"]
          /\ UNCHANGED <<good, phase, here, pinned, at, bad>>
       \/ /\ ~here \/ st[Current(q)] = "fail"
          /\ NextClient(q)

\* The answer arrives, unpacks and is sent on.
Answer(q) ==
    /\ st[q] = "request"
    /\ st' = [st EXCEPT ![q] = "ok"]
    /\ UNCHANGED <<good, phase, here, pinned, at, bad>>

\* The connection fails, or the status is not 200.
Error(q) ==
    /\ st[q] = "request"
    /\ Current(q) \notin good
    /\ NextClient(q)

\* Status 200 with a body that Unpack rejects: Resolve has succeeded, and no
\* other client is tried.
Unpack(q) ==
    /\ st[q] = "request"
    /\ Current(q) \notin good
    /\ st' = [st EXCEPT ![q] = "fail"]
    /\ bad' = [bad EXCEPT ![q] = TRUE]
    /\ UNCHANGED <<good, phase, here, pinned, at>>

\* The time-out is the connection's, once there is one.
TimeoutConnected(q) ==
    /\ st[q] = "request"
    /\ Current(q) \notin good
    /\ NextClient(q)

\* http.Client.Timeout covers the dial, the lookup within it included.
Timeout(q) ==
    /\ st[q] \in Busy
    /\ Current(q) \notin good
    /\ NextClient(q)

Step(q) ==
    \/ Dial(q) \/ Lookup(q) \/ LookupEnds(q)
    \/ Answer(q) \/ Error(q) \/ Unpack(q) \/ Timeout(q)

Next ==
    \/ NewServer \/ TakeOver \/ Shutdown \/ Stopped
    \/ \E q \in Query : Begin(q)
    \/ \E c \in Client : LookupHere(c)
    \/ \E q \in All : Step(q)

Spec == Init /\ [][Next]_vars

\* Timers fire, good upstreams answer, and Shutdown's wait is scheduled.
FairSpec ==
    /\ Spec
    /\ \A q \in All : WF_vars(Dial(q)) /\ WF_vars(Answer(q)) /\ WF_vars(Timeout(q))
    /\ WF_vars(Stopped)

-----------------------------------------------------------------------------
(* Properties *)

\* doh.go:123-133: if one upstream is reachable by its address and answers, no
\* query fails, whatever the others do, wherever it is in the list and although
\* the lookup of another's name may go round through this server; but an
\* upstream tried before it that sends something else than DNS spoils the query.
GoodSuffices ==
    good # {} => \A q \in All : st[q] = "fail" => bad[q]

\* server.go:95-119, doh.go:80: every query gets an answer or SERVFAIL, though it
\* may be waiting for a lookup that waits for itself.
QueryEnds == \A q \in Query : st[q] \in Busy ~> st[q] \notin Busy

\* server.go:88-93: Stop returns, with queries under way that will get no more
\* help from this server.
ShutdownEnds == phase = "closing" ~> phase = "stopped"
=============================================================================
