------------------------- MODULE MacosProofs ---------------------------------
(***************************************************************************)
(* The invariants of DarwinEngine, for any servers and any server lists,   *)
(* and those of HelperDaemon, which are reduced to them: an engine under   *)
(* the daemon is an engine (ImplementsEngine).                             *)
(***************************************************************************)
EXTENDS HelperDaemon, SequenceTheorems, TLAPS

\* Without faults, the servers and the breadcrumb at every step of a run.
RunInv ==
    faults = {} =>
        /\ pc \in {"off", "restoreFirst", "save", "dnsStop"} => dns = orig /\ crumb = NoFile
        /\ pc = "saveWrite" => dns = orig /\ saved = orig /\ crumb = <<>>
        /\ pc = "set" => dns = orig /\ saved = orig /\ crumb = Breadcrumb(orig)
        /\ pc \in {"start", "run", "restore"} =>
               dns = <<Loopback>> /\ saved = orig /\ crumb = Breadcrumb(orig)
        /\ pc = "remove" => dns = orig /\ crumb = Breadcrumb(orig)

\* Until the next run, what a killed process left: the user's breadcrumb, or, once
\* cleanup has used it, a single server restored.
CrashInv ==
    faults = {"crash"} =>
        /\ pc \in {"off", "restoreFirst"}
        /\ \/ crumb = Breadcrumb(orig) /\ dns \in {orig, <<Loopback>>}
           \/ crumb = NoFile /\ (Len(orig) <= 1 => dns = orig)

\* What cleanup has left stays until the next run.
CleanInv == cleaned => pc = "off" /\ dns # <<Loopback>> /\ crumb = NoFile

IInv == TypeOK /\ RunInv /\ CrashInv /\ CleanInv

\* A user's servers are addresses, and none is 127.0.0.1.
LEMMA UserServers ==
    ASSUME NEW d \in UserDns
    PROVE  /\ d \in Seq(Server) /\ d \in Seq(Address)
           /\ d # <<Loopback>> /\ d # <<Empty>>
           /\ \A i \in 1..Len(d) : d[i] \in Server
<1>1. d \in Seq(Server)
    BY DarwinAssumption
<1>2. \A i \in 1..Len(d) : d[i] \in Server
    BY <1>1
<1>3. d \in Seq(Address)
    BY <1>1 DEF Address
<1>4. ASSUME NEW x, d = <<x>> PROVE x \in Server
  <2>1. Len(d) = 1 /\ d[1] = x
    BY <1>4
  <2> QED
    BY <1>2, <2>1
<1> QED
    BY <1>1, <1>2, <1>3, <1>4, DarwinAssumption DEF Address

\* networksetup keeps to lists of addresses.
LEMMA NetworkSetupType ==
    ASSUME dns \in Seq(Address), NEW a \in Seq(Token)
    PROVE  NetworkSetup(a) \subseteq Seq(Address)
<1>1. <<>> \in Seq(Address)
    OBVIOUS
<1>2. (\A i \in 1..Len(a) : a[i] \in Address) => a \in Seq(Address)
    OBVIOUS
<1> QED
    BY <1>1, <1>2 DEF NetworkSetup

\* What RestoreSystemDNS passes to networksetup for a user's servers sets them.
LEMMA RestoreExact ==
    ASSUME NEW d \in UserDns
    PROVE  NetworkSetup(ServerArgs(d)) = {d}
<1>1. CASE d = <<>>
    BY <1>1 DEF NetworkSetup, ServerArgs
<1>2. CASE d # <<>>
  <2>1. d # <<Empty>> /\ \A i \in 1..Len(d) : d[i] \in Address
    BY UserServers DEF Address
  <2> QED
    BY <1>2, <2>1 DEF NetworkSetup, ServerArgs
<1> QED
    BY <1>1, <1>2

\* A breadcrumb has a first line and the service after it.
LEMMA BreadcrumbShape ==
    ASSUME NEW s \in Seq(Address)
    PROVE  /\ Breadcrumb(s) \in Seq(Token)
           /\ Len(Breadcrumb(s)) >= 2
           /\ Breadcrumb(s) # <<>>
           /\ Len(s) = 0 => Breadcrumb(s)[1] = Empty /\ Breadcrumb(s)[2] = Svc
           /\ Len(s) = 1 => Breadcrumb(s)[1] = s[1] /\ Breadcrumb(s)[2] = Svc
           /\ Len(s) > 1 => Breadcrumb(s)[2] = s[2]
<1>1. CASE s = <<>>
  <2>1. Breadcrumb(s) = <<Empty>> \o <<Svc>>
    BY <1>1 DEF Breadcrumb, ServerArgs
  <2>2. <<Empty>> \in Seq(Token) /\ <<Svc>> \in Seq(Token)
    BY DEF Token
  <2>3. /\ Breadcrumb(s) \in Seq(Token) /\ Len(Breadcrumb(s)) = 2
        /\ Breadcrumb(s)[1] = Empty /\ Breadcrumb(s)[2] = Svc
    BY <2>1, <2>2
  <2>4. Len(s) = 0
    BY <1>1
  <2>5. Breadcrumb(s) # <<>>
    <3>1. ASSUME Breadcrumb(s) = <<>> PROVE FALSE
      <4>1. Len(Breadcrumb(s)) = Len(<<>>)
        BY <3>1, Zenon
      <4>2. Len(<<>>) = 0
        OBVIOUS
      <4>3. Len(Breadcrumb(s)) = 2
        BY <2>3
      <4> QED
        BY <4>1, <4>2, <4>3
    <3> QED
      BY <3>1
  <2> QED
    BY <2>3, <2>4, <2>5
<1>2. CASE s # <<>>
  <2>1. Breadcrumb(s) = s \o <<Svc>>
    BY <1>2 DEF Breadcrumb, ServerArgs
  <2>2. s \in Seq(Token) /\ <<Svc>> \in Seq(Token) /\ Len(s) >= 1
    BY <1>2 DEF Token
  <2>3. /\ Breadcrumb(s) \in Seq(Token)
        /\ Len(Breadcrumb(s)) = Len(s) + 1
        /\ \A i \in 1..Len(s) : Breadcrumb(s)[i] = s[i]
        /\ Breadcrumb(s)[Len(s) + 1] = Svc
    BY <2>1, <2>2
  <2>4. Len(s) \in Nat /\ Len(<<>>) = 0
    BY <2>2
  <2> QED
    BY <2>2, <2>3, <2>4
<1> QED
    BY <1>1, <1>2

\* The files are told apart.
LEMMA FilesDiffer ==
    ASSUME NEW s \in Seq(Address)
    PROVE  Breadcrumb(s) # NoFile /\ <<>> # NoFile /\ Breadcrumb(s) # <<>>
<1>1. Token = Server \cup {Loopback, Empty, Svc}
    BY DEF Token, Address
<1>2. <<>> \in Seq(Token)
    OBVIOUS
<1> QED
    BY <1>1, <1>2, BreadcrumbShape, DarwinAssumption

\* Cleanup passes one word of the breadcrumb to networksetup.
LEMMA FromBreadcrumbType ==
    ASSUME TypeOK
    PROVE  FromBreadcrumb \subseteq Seq(Address)
<1>1. <<>> \in Seq(Address) /\ dns \in Seq(Address)
    BY DEF TypeOK
<1>2. CASE crumb = NoFile
    BY <1>1, <1>2 DEF FromBreadcrumb
<1>3. CASE crumb = <<>> /\ crumb # NoFile
    BY <1>1, <1>3 DEF FromBreadcrumb
<1>4. CASE crumb # <<>> /\ crumb # NoFile
  <2>1. crumb \in Seq(Token) /\ Len(crumb) >= 2
    BY <1>4 DEF TypeOK
  <2>2. <<crumb[1]>> \in Seq(Token)
    BY <2>1
  <2>3. FromBreadcrumb = IF crumb[2] = Svc THEN NetworkSetup(<<crumb[1]>>) ELSE {dns}
    BY <1>4 DEF FromBreadcrumb
  <2> QED
    BY <1>1, <2>2, <2>3, NetworkSetupType
<1> QED
    BY <1>2, <1>3, <1>4

\* With the breadcrumb of a user with at most one server, cleanup finds that server.
LEMMA FromBreadcrumbOne ==
    ASSUME NEW d \in UserDns, Len(d) <= 1, crumb = Breadcrumb(d)
    PROVE  FromBreadcrumb = {d}
<1>1. d \in Seq(Address) /\ Len(d) \in Nat
    BY UserServers
<1>2. crumb # NoFile /\ crumb # <<>>
    BY <1>1, FilesDiffer
<1>3. crumb[2] = Svc /\ <<crumb[1]>> = ServerArgs(d)
  <2>1. CASE d = <<>>
    BY <1>1, <2>1, BreadcrumbShape DEF ServerArgs
  <2>2. CASE d # <<>>
    <3>1. Len(d) = 1
      BY <1>1, <2>2, EmptySeq
    <3>2. d = <<d[1]>>
      <4>1. <<d[1]>> \in Seq(Address) /\ Len(<<d[1]>>) = 1 /\ <<d[1]>>[1] = d[1]
        BY <1>1, <3>1
      <4> QED
        BY <1>1, <3>1, <4>1, SeqEqual
    <3> QED
      BY <1>1, <2>2, <3>1, <3>2, BreadcrumbShape DEF ServerArgs
  <2> QED
    BY <2>1, <2>2
<1>4. FromBreadcrumb = NetworkSetup(<<crumb[1]>>)
    BY <1>2, <1>3 DEF FromBreadcrumb
<1> QED
    BY <1>3, <1>4, RestoreExact

\* The invariant holds initially.
LEMMA InitInv == Init => IInv
<1> SUFFICES ASSUME Init PROVE IInv
    OBVIOUS
<1>a. <<>> \in Seq(Address)
    OBVIOUS
<1>1. TypeOK
    BY <1>a, UserServers DEF Init, TypeOK, PCs, Faults
<1> QED
    BY <1>1 DEF Init, IInv, RunInv, CrashInv, CleanInv

\* Every step preserves the type invariant.
LEMMA TypeStep == TypeOK /\ [Next]_vars => TypeOK'
<1> SUFFICES ASSUME TypeOK, [Next]_vars PROVE TypeOK'
    OBVIOUS
<1>a. <<>> \in Seq(Address) /\ <<Loopback>> \in Seq(Address)
    BY DEF Address
<1> USE DEF PCs, Faults
<1>1. CASE Start BY <1>1, <1>a DEF Start, TypeOK
<1>2. CASE RestoreFirst
  <2>1. dns' \in Seq(Address)
    BY <1>2, NetworkSetupType DEF RestoreFirst, TypeOK
  <2> QED
    BY <1>2, <2>1 DEF RestoreFirst, TypeOK
<1>3. CASE Save BY <1>3, <1>a DEF Save, TypeOK
<1>4. CASE SaveWrite BY <1>4, BreadcrumbShape DEF SaveWrite, TypeOK
<1>5. CASE Set BY <1>5, <1>a DEF Set, TypeOK
<1>6. CASE MgrStart BY <1>6 DEF MgrStart, TypeOK
<1>7. CASE Stop BY <1>7 DEF Stop, TypeOK
<1>8. CASE Restore
  <2>1. ServerArgs(saved) \in Seq(Token)
    <3>1. saved \in Seq(Token) /\ <<Empty>> \in Seq(Token)
      BY DEF TypeOK, Token
    <3> QED
      BY <3>1 DEF ServerArgs
  <2>2. dns' \in Seq(Address)
    BY <1>8, <2>1, NetworkSetupType DEF Restore, TypeOK
  <2> QED
    BY <1>8, <2>2 DEF Restore, TypeOK
<1>9. CASE Remove BY <1>9 DEF Remove, TypeOK
<1>10. CASE DnsStop BY <1>10 DEF DnsStop, TypeOK
<1>11. CASE Crash BY <1>11 DEF Crash, TypeOK
<1>12. CASE Cleanup
  <2>1. dns' \in Seq(Address)
    BY <1>12, <1>a, FromBreadcrumbType DEF Cleanup, platformCleanup
  <2> QED
    BY <1>12, <2>1 DEF Cleanup, platformCleanup, TypeOK
<1>13. ASSUME NEW d \in UserDns, UserSets(d) PROVE TypeOK'
    BY <1>13, UserServers DEF UserSets, TypeOK
<1>14. CASE UNCHANGED vars BY <1>14 DEF vars, TypeOK
<1> QED
    BY <1>1, <1>2, <1>3, <1>4, <1>5, <1>6, <1>7, <1>8, <1>9, <1>10, <1>11, <1>12,
       <1>13, <1>14 DEF Next

\* Every step preserves what is said of runs without faults.
LEMMA RunStep == IInv /\ [Next]_vars => RunInv'
<1> SUFFICES ASSUME IInv, [Next]_vars PROVE RunInv'
    OBVIOUS
<1>a. TypeOK /\ RunInv
    BY DEF IInv
<1>b. orig \in UserDns /\ NetworkSetup(ServerArgs(orig)) = {orig}
    BY <1>a, RestoreExact DEF TypeOK
<1>1. CASE Start BY <1>1, <1>a DEF Start, RunInv
<1>2. CASE RestoreFirst BY <1>2, <1>a DEF RestoreFirst, RunInv
<1>3. CASE Save BY <1>3, <1>a DEF Save, RunInv
<1>4. CASE SaveWrite BY <1>4, <1>a DEF SaveWrite, RunInv
<1>5. CASE Set BY <1>5, <1>a DEF Set, RunInv
<1>6. CASE MgrStart BY <1>6, <1>a DEF MgrStart, RunInv
<1>7. CASE Stop BY <1>7, <1>a DEF Stop, RunInv
<1>8. CASE Restore BY <1>8, <1>a, <1>b DEF Restore, RunInv
<1>9. CASE Remove BY <1>9, <1>a DEF Remove, RunInv
<1>10. CASE DnsStop BY <1>10, <1>a DEF DnsStop, RunInv
<1>11. CASE Crash
  <2>1. CASE pc \in {"restoreFirst", "save", "dnsStop"}
    BY <1>11, <2>1, <1>a DEF Crash, RunInv
  <2>2. CASE pc \notin {"restoreFirst", "save", "dnsStop"}
    <3>1. faults' # {}
      <4>1. CASE pc = "saveWrite"
        BY <1>11, <4>1 DEF Crash
      <4>2. CASE pc # "saveWrite"
        BY <1>11, <2>2, <4>2 DEF Crash
      <4> QED
        BY <4>1, <4>2
    <3> QED
      BY <3>1 DEF RunInv
  <2> QED
    BY <2>1, <2>2
<1>12. CASE Cleanup
  <2>1. ASSUME faults = {} PROVE dns' = orig /\ crumb' = NoFile /\ pc' = "off" /\ orig' = orig
    <3>1. crumb = NoFile /\ dns = orig /\ orig # <<Loopback>>
      BY <1>12, <2>1, <1>a, <1>b, UserServers DEF Cleanup, RunInv
    <3>2. FromBreadcrumb = {dns}
      BY <3>1 DEF FromBreadcrumb
    <3> QED
      BY <1>12, <3>1, <3>2 DEF Cleanup, platformCleanup
  <2> QED
    BY <1>12, <2>1 DEF Cleanup, platformCleanup, RunInv
<1>13. ASSUME NEW d \in UserDns, UserSets(d) PROVE RunInv'
    BY <1>13 DEF UserSets, RunInv
<1>14. CASE UNCHANGED vars BY <1>14, <1>a DEF vars, RunInv
<1> QED
    BY <1>1, <1>2, <1>3, <1>4, <1>5, <1>6, <1>7, <1>8, <1>9, <1>10, <1>11, <1>12,
       <1>13, <1>14 DEF Next

\* Every step preserves what is said of the time after a crash.
LEMMA CrashStep == IInv /\ [Next]_vars => CrashInv'
<1> SUFFICES ASSUME IInv, [Next]_vars, faults' = {"crash"} PROVE CrashInv'
    BY DEF CrashInv
<1>a. TypeOK /\ RunInv /\ CrashInv
    BY DEF IInv
<1>b. orig \in UserDns /\ orig \in Seq(Address) /\ orig # <<Loopback>>
    BY <1>a, UserServers DEF TypeOK
<1>1. CASE Start BY <1>1, <1>a DEF Start, CrashInv
<1>2. CASE RestoreFirst BY <1>2 DEF RestoreFirst
<1>3. CASE Save BY <1>3, <1>a DEF Save, CrashInv
<1>4. CASE SaveWrite BY <1>4, <1>a DEF SaveWrite, CrashInv
<1>5. CASE Set BY <1>5, <1>a DEF Set, CrashInv
<1>6. CASE MgrStart BY <1>6, <1>a DEF MgrStart, CrashInv
<1>7. CASE Stop BY <1>7, <1>a DEF Stop, CrashInv
<1>8. CASE Restore BY <1>8, <1>a DEF Restore, CrashInv
<1>9. CASE Remove BY <1>9, <1>a DEF Remove, CrashInv
<1>10. CASE DnsStop BY <1>10, <1>a DEF DnsStop, CrashInv
<1>11. CASE Crash
  <2>1. CASE faults = {"crash"}
    BY <1>11, <2>1, <1>a DEF Crash, CrashInv
  <2>2. CASE faults # {"crash"}
    <3>1. faults = {} /\ pc \notin {"off", "restoreFirst", "save", "dnsStop", "saveWrite"}
      <4>1. faults \subseteq {"crash"}
        BY <1>11 DEF Crash
      <4>2. faults = {}
        BY <4>1, <2>2
      <4>3. CASE pc = "saveWrite"
        BY <1>11, <4>3 DEF Crash
      <4>4. CASE pc \in {"restoreFirst", "save", "dnsStop"}
        BY <1>11, <4>2, <4>4 DEF Crash
      <4> QED
        BY <1>11, <4>2, <4>3, <4>4 DEF Crash
    <3>2. crumb = Breadcrumb(orig) /\ dns \in {orig, <<Loopback>>}
      BY <3>1, <1>a DEF RunInv, TypeOK, PCs
    <3> QED
      BY <1>11, <3>2 DEF Crash, CrashInv
  <2> QED
    BY <2>1, <2>2
<1>12. CASE Cleanup
  <2>1. /\ pc' = "off" /\ crumb' = NoFile /\ orig' = orig /\ faults = {"crash"}
        /\ \E e \in FromBreadcrumb : dns' = IF e = <<Loopback>> THEN <<>> ELSE e
    BY <1>12 DEF Cleanup, platformCleanup
  <2>2. ASSUME Len(orig) <= 1 PROVE FromBreadcrumb = {orig}
    <3>1. CASE crumb = Breadcrumb(orig)
      BY <3>1, <2>2, <1>b, FromBreadcrumbOne
    <3>2. CASE crumb = NoFile /\ dns = orig
      BY <3>2 DEF FromBreadcrumb
    <3> QED
      BY <2>1, <2>2, <3>1, <3>2, <1>a DEF CrashInv
  <2>3. Len(orig) <= 1 => dns' = orig
    BY <2>1, <2>2, <1>b
  <2> QED
    BY <2>1, <2>3 DEF CrashInv
<1>13. ASSUME NEW d \in UserDns, UserSets(d) PROVE CrashInv'
    BY <1>13 DEF UserSets
<1>14. CASE UNCHANGED vars BY <1>14, <1>a DEF vars, CrashInv
<1> QED
    BY <1>1, <1>2, <1>3, <1>4, <1>5, <1>6, <1>7, <1>8, <1>9, <1>10, <1>11, <1>12,
       <1>13, <1>14 DEF Next

\* Every step preserves what cleanup has left.
LEMMA CleanStep == IInv /\ [Next]_vars => CleanInv'
<1> SUFFICES ASSUME IInv, [Next]_vars PROVE CleanInv'
    OBVIOUS
<1>a. CleanInv
    BY DEF IInv
<1>b. <<>> # <<Loopback>>
    OBVIOUS
<1>1. CASE Start BY <1>1 DEF Start, CleanInv
<1>2. CASE \/ RestoreFirst \/ Save \/ SaveWrite \/ Set \/ MgrStart \/ Stop
           \/ Restore \/ Remove \/ DnsStop \/ Crash
  <2>1. pc # "off" /\ cleaned' = cleaned
    BY <1>2 DEF RestoreFirst, Save, SaveWrite, Set, MgrStart, Stop, Restore, Remove,
                DnsStop, Crash
  <2> QED
    BY <2>1, <1>a DEF CleanInv
<1>3. CASE Cleanup BY <1>3, <1>b DEF Cleanup, platformCleanup, CleanInv
<1>4. ASSUME NEW d \in UserDns, UserSets(d) PROVE CleanInv'
    BY <1>4 DEF UserSets, CleanInv
<1>5. CASE UNCHANGED vars BY <1>5, <1>a DEF vars, CleanInv
<1> QED
    BY <1>1, <1>2, <1>3, <1>4, <1>5 DEF Next

\* The invariant holds in every state.
LEMMA Invariance == Spec => []IInv
<1>1. IInv /\ [Next]_vars => IInv'
    BY TypeStep, RunStep, CrashStep, CleanStep DEF IInv
<1> QED
    BY InitInv, <1>1, PTL DEF Spec

\* The variables keep their types; in particular a breadcrumb that is not empty has
\* the two lines cleanup reads.
THEOREM TypeCorrect == Spec => []TypeOK
<1>1. IInv => TypeOK
    BY DEF IInv
<1> QED
    BY Invariance, <1>1, PTL

\* system_darwin.go:46-111: a run without a fault gives any list of servers back.
THEOREM Restores == Spec => []RunRestores
<1>1. IInv => RunRestores
    BY DEF IInv, RunInv, RunRestores
<1> QED
    BY Invariance, <1>1, PTL

\* run_tun.go:41-77: without a fault, 127.0.0.1 is configured only while it is served.
THEOREM LoopbackSafe == Spec => []LoopbackServed
<1>1. IInv => LoopbackServed
    BY UserServers DEF IInv, TypeOK, RunInv, LoopbackServed, Serving
<1> QED
    BY Invariance, <1>1, PTL

\* cleanup_darwin.go:10-45: cleanup never leaves 127.0.0.1, after any history.
THEOREM CleanupSafe == Spec => []CleanupUnstrands
<1>1. IInv => CleanupUnstrands
    BY DEF IInv, CleanInv, CleanupUnstrands
<1> QED
    BY Invariance, <1>1, PTL

\* cleanup_darwin.go:13-30: cleanup after a crash gives a single server, or DHCP, back.
THEOREM CleanupExact == Spec => []CleanupRestoresOne
<1>1. ASSUME IInv PROVE CleanupRestoresOne
  <2>1. SUFFICES ASSUME cleaned, faults \subseteq {"crash"}, Len(orig) <= 1
                 PROVE  dns = orig
    BY DEF CleanupRestoresOne
  <2>2. pc = "off" /\ crumb = NoFile
    BY <1>1, <2>1 DEF IInv, CleanInv
  <2>3. CASE faults = {}
    BY <1>1, <2>2, <2>3 DEF IInv, RunInv
  <2>4. CASE faults = {"crash"}
    <3>1. Breadcrumb(orig) # NoFile
      BY <1>1, UserServers, FilesDiffer DEF IInv, TypeOK
    <3> QED
      BY <1>1, <2>1, <2>2, <2>4, <3>1 DEF IInv, CrashInv
  <2> QED
    BY <2>1, <2>3, <2>4
<1> QED
    BY Invariance, <1>1, PTL

\* system_darwin.go:53-58: the restore at the start of a run passes the service's name
\* among the servers, so that for every list a user configures it changes nothing.
THEOREM RestoreFirstRefused ==
    ASSUME NEW d \in UserDns, d # <<>>, crumb = Breadcrumb(d), RestoreFirst
    PROVE  dns' = dns
<1>1. d \in Seq(Server) /\ Len(d) \in Nat /\ Len(d) >= 1
    BY UserServers, EmptySeq
<1>2. crumb = d \o <<Svc>>
    BY DEF Breadcrumb, ServerArgs
<1>3. Len(crumb) = Len(d) + 1 /\ crumb[Len(d) + 1] = Svc /\ crumb[1] = d[1]
    BY <1>1, <1>2
<1>4. crumb[1] # Empty /\ Svc \notin Address
    BY <1>1, <1>3, UserServers, DarwinAssumption DEF Address
<1>5. crumb # <<Empty>>
    BY <1>1, <1>3
<1>6. ~ \A i \in 1..Len(crumb) : crumb[i] \in Address
  <2>1. Len(d) + 1 \in 1..Len(crumb)
    BY <1>1, <1>3
  <2> QED
    BY <2>1, <1>3, <1>4
<1>7. NetworkSetup(crumb) = {dns}
    BY <1>4, <1>5, <1>6 DEF NetworkSetup
<1>8. crumb \notin {NoFile, <<>>}
    BY UserServers, FilesDiffer
<1> QED
    BY <1>7, <1>8 DEF RestoreFirst

\* cleanup_darwin.go:13-45: with several servers in the breadcrumb cleanup takes the
\* second for the network service, and the user is left with DHCP.
THEOREM CleanupManyToDhcp ==
    ASSUME NEW d \in UserDns, Len(d) > 1, crumb = Breadcrumb(d),
           dns = <<Loopback>>, Cleanup
    PROVE  dns' = <<>>
<1>1. d \in Seq(Address) /\ Len(d) \in Nat /\ d[2] \in Server
    BY UserServers
<1>2. crumb # NoFile /\ crumb # <<>>
    BY <1>1, FilesDiffer
<1>3. crumb[2] # Svc
    BY <1>1, BreadcrumbShape, DarwinAssumption
<1>4. FromBreadcrumb = {dns}
    BY <1>2, <1>3 DEF FromBreadcrumb
<1> QED
    BY <1>4 DEF Cleanup, platformCleanup

-----------------------------------------------------------------------------
(* HelperDaemon *)

\* The engine is the process the pid file names, except just after the fork.
Tracked == EngineAlive => pidFile = "engine" \/ dpc = "pid"

\* Where in its script the daemon can rely on there being no engine.
Quiet == dpc \in {"boot", "fork", "rm", "cleanup", "stopped"} => pc = "off"

\* What the status file says before the fork, and that cleanup ends a stop.
Reports == /\ dpc = "fork" => status = "starting"
           /\ dpc = "stopped" => cleaned

HInv == HelperTypeOK /\ Tracked /\ Quiet /\ Reports /\ StoppedMeansOff

LEMMA HelperInitInv == HelperInit => HInv
<1> SUFFICES ASSUME HelperInit PROVE HInv
    OBVIOUS
<1>1. TypeOK
    BY InitInv DEF HelperInit, IInv
<1> QED
    BY <1>1 DEF HelperInit, Init, HInv, HelperTypeOK, Tracked, Quiet, Reports,
       StoppedMeansOff, EngineAlive, Commands, DaemonPCs, States

\* Only Fork, Term, Kill, RunCleanup and DaemonDies reach for the engine; each
\* of them takes a step of it, or none.
LEMMA EngineRefined == HInv /\ [HelperNext]_hvars => [Next]_vars
<1> SUFFICES ASSUME HInv, [HelperNext]_hvars PROVE [Next]_vars
    OBVIOUS
<1>0. UNCHANGED engineVars => UNCHANGED vars
    BY DEF engineVars, vars
<1>1. CASE PressStop \/ PressStart \/ SendOther \/ refreshStatus
    BY <1>0, <1>1 DEF PressStop, PressStart, SendOther, refreshStatus, send
<1>2. CASE Boot \/ Poll \/ ReadCommand \/ Truncate \/ WritePid \/ Check \/ RemovePid \/ Stopped
    BY <1>0, <1>2 DEF Boot, Poll, ReadCommand, Truncate, WritePid, Check, RemovePid, Stopped
<1>3. CASE Refuse \/ Accept \/ TakeStop \/ TakeStatus
    BY <1>0, <1>3 DEF Refuse, Accept, TakeStop, TakeStatus, Take
<1>4. CASE Fork BY <1>4 DEF Fork, Next
<1>5. CASE Term BY <1>0, <1>5 DEF Term, Next
<1>6. CASE Kill BY <1>0, <1>6 DEF Kill, Next
<1>7. CASE RunCleanup
  <2>1. pc = "off"
    BY <1>7 DEF RunCleanup, HInv, Quiet
  <2> QED
    BY <1>7, <2>1 DEF RunCleanup, Cleanup, Next
<1>8. CASE EngineStep BY <1>8 DEF EngineStep, Next
<1>9. CASE DaemonDies BY <1>0, <1>9 DEF DaemonDies, Next
<1>10. CASE PidReused \/ ForeignEnds
    BY <1>0, <1>10 DEF PidReused, ForeignEnds
<1>11. CASE UNCHANGED hvars BY <1>0, <1>11 DEF hvars
<1> QED
    BY <1>1, <1>2, <1>3, <1>4, <1>5, <1>6, <1>7, <1>8, <1>9, <1>10, <1>11
       DEF HelperNext, DaemonStep

\* A step of the engine by itself does not start it, and leaves one that is off alone.
LEMMA EngineAlone ==
    ASSUME EngineStep
    PROVE  pc # "off" /\ UNCHANGED helperVars
BY DEF EngineStep, RestoreFirst, Save, SaveWrite, Set, MgrStart, Restore, Remove,
   DnsStop, Crash

LEMMA HelperStep == HInv /\ [HelperNext]_hvars => HInv'
<1> SUFFICES ASSUME HInv, [HelperNext]_hvars PROVE HInv'
    OBVIOUS
<1>0. TypeOK'
    BY EngineRefined, TypeStep DEF HInv, HelperTypeOK
<1> USE DEF HInv, HelperTypeOK, Tracked, Quiet, Reports, StoppedMeansOff, EngineAlive,
        Commands, DaemonPCs, States
<1>1. CASE PressStop \/ PressStart \/ SendOther
    BY <1>0, <1>1 DEF PressStop, PressStart, SendOther, send, engineVars
<1>2. CASE refreshStatus
    BY <1>0, <1>2 DEF refreshStatus, engineVars, daemonVars
<1>3. CASE Boot BY <1>0, <1>3 DEF Boot, write_status, engineVars
<1>4. CASE Poll BY <1>0, <1>4 DEF Poll, write_status, engineVars
<1>5. CASE ReadCommand BY <1>0, <1>5 DEF ReadCommand, engineVars, appVars
<1>6. CASE Truncate BY <1>0, <1>6 DEF Truncate, engineVars, appVars
<1>7. CASE Refuse BY <1>0, <1>7 DEF Refuse, Take, write_status, engineVars
<1>8. CASE Accept BY <1>0, <1>8 DEF Accept, Take, write_status, is_running, engineVars
<1>9. CASE Fork BY <1>0, <1>9 DEF Fork, Start, appVars
<1>10. CASE WritePid BY <1>0, <1>10 DEF WritePid, engineVars, appVars
<1>11. CASE Check BY <1>0, <1>11 DEF Check, write_status, is_running, engineVars
<1>12. CASE TakeStop BY <1>0, <1>12 DEF TakeStop, Take, write_status, is_running, engineVars
<1>13. CASE TakeStatus BY <1>0, <1>13 DEF TakeStatus, Take, write_status, is_running, engineVars
<1>14. CASE Term
  <2>1. pc = "off" => pc' = "off"
    BY <1>14 DEF Term, Stop, Crash, engineVars
  <2> QED
    BY <1>0, <1>14, <2>1 DEF Term, appVars
<1>15. CASE Kill
  <2>1. pc' = "off"
    BY <1>15 DEF Kill, Crash, engineVars
  <2> QED
    BY <1>0, <1>15, <2>1 DEF Kill, appVars
<1>16. CASE RemovePid BY <1>0, <1>16 DEF RemovePid, engineVars, appVars
<1>17. CASE RunCleanup BY <1>0, <1>17 DEF RunCleanup, platformCleanup, appVars
<1>18. CASE Stopped BY <1>0, <1>18 DEF Stopped, write_status, engineVars
<1>19. CASE EngineStep
    BY <1>0, <1>19, EngineAlone DEF helperVars, daemonVars, appVars
<1>20. CASE DaemonDies
  <2>1. pc' = "off"
    BY <1>20 DEF DaemonDies, Crash, engineVars
  <2> QED
    BY <1>0, <1>20, <2>1 DEF DaemonDies, appVars
<1>21. CASE PidReused \/ ForeignEnds
    BY <1>0, <1>21 DEF PidReused, ForeignEnds, engineVars, appVars
<1>22. CASE UNCHANGED hvars
    BY <1>0, <1>22 DEF hvars, engineVars, helperVars, daemonVars, appVars
<1> QED
    BY <1>1, <1>2, <1>3, <1>4, <1>5, <1>6, <1>7, <1>8, <1>9, <1>10, <1>11, <1>12, <1>13,
       <1>14, <1>15, <1>16, <1>17, <1>18, <1>19, <1>20, <1>21, <1>22
       DEF HelperNext, DaemonStep

LEMMA HelperInvariance == HelperSpec => []HInv
BY HelperInitInv, HelperStep, PTL DEF HelperSpec

\* The variables of app, daemon and engine keep their types; the daemon has a command
\* in hand while it truncates the file and handles it.
THEOREM HelperTypeCorrect == HelperSpec => []HelperTypeOK
<1>1. HInv => HelperTypeOK
    BY DEF HInv
<1> QED
    BY HelperInvariance, <1>1, PTL

\* HelperDaemonScriptBuilder.swift:145-190: the engine under the daemon behaves as
\* DarwinEngine says, whoever kills what and whose the pids are.
THEOREM HelperRefinement == HelperSpec => ImplementsEngine
<1>1. HelperInit => Init
    BY DEF HelperInit
<1> QED
    BY HelperInvariance, EngineRefined, <1>1, PTL DEF HelperSpec, ImplementsEngine, Spec

\* HelperDaemonScriptBuilder.swift:145-176: no second engine next to a living one.
THEOREM OneEngine == HelperSpec => []NoSecondEngine
<1>1. HInv => NoSecondEngine
    BY DEF HInv, Quiet, NoSecondEngine
<1> QED
    BY HelperInvariance, <1>1, PTL

\* HelperDaemonScriptBuilder.swift:178-189: a completed stop leaves no engine and a
\* resolver that works; what cleanup restores is taken over from the engine's theorems.
THEOREM StopSafe == HelperSpec => []StopUnstrands
<1>1. HInv /\ CleanupUnstrands /\ CleanupRestoresOne => StopUnstrands
    BY DEF HInv, Quiet, Reports, CleanupUnstrands, CleanupRestoresOne, StopUnstrands
<1> QED
    BY HelperInvariance, HelperRefinement, CleanupSafe, CleanupExact, <1>1, PTL
       DEF ImplementsEngine

\* HelperDaemonScriptBuilder.swift:49-62: the status file says "stopped" only while no
\* engine runs.
THEOREM StatusHonest == HelperSpec => []StoppedMeansOff
<1>1. HInv => StoppedMeansOff
    BY DEF HInv
<1> QED
    BY HelperInvariance, <1>1, PTL
\* system_darwin.go:44-110: what a run promises by itself it keeps under the daemon
\* too, which may signal and kill it at any step and run cleanup after it.
THEOREM PromisesKept == HelperSpec => [](RunRestores /\ LoopbackServed)
BY HelperRefinement, Restores, LoopbackSafe, PTL DEF ImplementsEngine

\* The steps of a stop that are left to the daemon.
StopLeft(l) ==
    CASE l = "handle" -> 6 [] l = "term" -> 5 [] l = "kill" -> 4 [] l = "rm" -> 3
      [] l = "cleanup" -> 2 [] l = "stopped" -> 1 [] OTHER -> 0

\* HelperDaemonScriptBuilder.swift:178-190: a stop only goes forward, whatever the
\* engine, the app and the pids do: no step leads back or leaves it out of the
\* report and the idle loop, except the death of the daemon.
StopForward ==
    [][StopLeft(dpc) > 0 /\ (dpc = "handle" => got = "stop") /\ dpc' # dpc =>
          \/ dpc' = "boot"
          \/ StopLeft(dpc') > 0 /\ StopLeft(dpc') < StopLeft(dpc)
          \/ dpc = "stopped" /\ dpc' = "idle" /\ status' = "stopped"]_hvars

\* HelperDaemonScriptBuilder.swift:178-190: a stop that was taken is over after at
\* most six steps of the daemon: the safety half of StopHeeded.
THEOREM StopInSix == HelperSpec => StopForward
<1> DEFINE Forward ==
        StopLeft(dpc) > 0 /\ (dpc = "handle" => got = "stop") /\ dpc' # dpc =>
            \/ dpc' = "boot"
            \/ StopLeft(dpc') > 0 /\ StopLeft(dpc') < StopLeft(dpc)
            \/ dpc = "stopped" /\ dpc' = "idle" /\ status' = "stopped"
<1>1. ASSUME [HelperNext]_hvars PROVE Forward
  <2>1. CASE PressStop \/ PressStart \/ SendOther \/ refreshStatus \/ UNCHANGED hvars
    BY <2>1 DEF PressStop, PressStart, SendOther, send, refreshStatus, hvars, helperVars,
                daemonVars
  <2>2. CASE EngineStep \/ DaemonDies \/ PidReused \/ ForeignEnds
    BY <2>2 DEF EngineStep, DaemonDies, PidReused, ForeignEnds, helperVars, daemonVars
  <2>3. CASE Boot \/ Poll \/ ReadCommand \/ Truncate \/ Fork \/ WritePid \/ Check
    BY <2>3 DEF Boot, Poll, ReadCommand, Truncate, Fork, WritePid, Check, StopLeft
  <2>4. CASE Refuse \/ Accept \/ TakeStatus
    BY <2>4 DEF Refuse, Accept, TakeStatus, Take
  <2>5. CASE TakeStop
    BY <2>5 DEF TakeStop, Take, StopLeft
  <2>6. CASE Term \/ Kill \/ RemovePid \/ RunCleanup
    BY <2>6 DEF Term, Kill, RemovePid, RunCleanup, StopLeft
  <2>7. CASE Stopped
    BY <2>7 DEF Stopped, write_status
  <2> QED
    BY <1>1, <2>1, <2>2, <2>3, <2>4, <2>5, <2>6, <2>7 DEF HelperNext, DaemonStep
<1>2. [HelperNext]_hvars => [Forward]_hvars
    BY <1>1
<1> QED
    BY <1>2, PTL DEF HelperSpec, StopForward
=============================================================================
