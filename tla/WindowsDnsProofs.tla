-------------------------- MODULE WindowsDnsProofs ---------------------------
(***************************************************************************)
(* The invariants of WindowsDns, for any interfaces, servers and leases.   *)
(* None of them is inductive: what SetSystemDNS overwrites is safe because *)
(* of what its earlier steps have established, so the strengthening says   *)
(* what holds between them.                                                *)
(***************************************************************************)
EXTENDS WindowsDns, TLAPS

\* Without failures: no interface is at 127.0.0.1 from RestoreFirst to Set and
\* after Restore, and from SaveWrite to Restore the breadcrumb is this run's.
Steps ==
    "failed" \notin faults =>
        /\ pc \in {"save", "saveWrite", "set", "remove"} =>
               \A i \in Iface : dns[i] # Loopback
        /\ pc \in {"set", "start", "run", "restore"} => Known(iface)

\* A breadcrumb is true of the interface it names.
CrumbOwn ==
    faults \subseteq {"crash"} =>
        (crumb \in Breadcrumb => Own(crumb.iface, crumb.prev))

\* Without faults, there is a breadcrumb only within a run.
CrumbWithinRun ==
    faults = {} =>
        (pc \in {"off", "detect", "restoreFirst", "save", "dnsStop"} => crumb = NoFile)

Safe == NoneForgotten /\ Steps /\ FirstServerKept /\ CrumbOwn /\ CrumbWithinRun

Inv == TypeOK /\ Safe

\* Inv holds initially: nothing is at 127.0.0.1 and there is no breadcrumb.
LEMMA InitInv == Init => Inv
BY WindowsAssumption, NoBreadcrumbAssumption
DEF Init, Inv, Safe, TypeOK, NoneForgotten, Steps, FirstServerKept, CrumbOwn,
    CrumbWithinRun, Own, Asked, UserConfig, Config, Faults, PCs

\* What getCurrentDNS returns for an interface that is not at 127.0.0.1 stands for
\* the server the interface asks.
LEMMA CurrentAsked ==
    ASSUME NEW i \in Iface, TypeOK, dns[i] # Loopback
    PROVE  /\ getCurrentDNS(i) \in UserConfig
           /\ Asked(i, getCurrentDNS(i)) = Asked(i, dns[i])
BY WindowsAssumption DEF TypeOK, getCurrentDNS, Asked, UserConfig, Config

\* Every step preserves the type invariant.
LEMMA TypeStep == TypeOK /\ [Next]_vars => TypeOK'
<1> SUFFICES ASSUME TypeOK, [Next]_vars PROVE TypeOK'
    OBVIOUS
<1> USE WindowsAssumption DEF TypeOK, UserConfig, Config, Breadcrumb, Faults, PCs, SetDns, Failed
<1>1. CASE Start BY <1>1 DEF Start
<1>2. CASE Detect BY <1>2 DEF Detect
<1>3. CASE RestoreFirst BY <1>3 DEF RestoreFirst
<1>4. CASE Save BY <1>4 DEF Save
<1>5. CASE SaveWrite
  <2>1. getCurrentDNS(iface) \in UserConfig /\ iface \in Iface
    BY <1>5 DEF SaveWrite, getCurrentDNS
  <2>2. crumb' \in Breadcrumb \cup {NoFile, Torn}
    BY <1>5, <2>1 DEF SaveWrite
  <2> QED
    BY <1>5, <2>2 DEF SaveWrite
<1>6. CASE Set BY <1>6 DEF Set
<1>7. CASE MgrStart BY <1>7 DEF MgrStart
<1>8. CASE Stop BY <1>8 DEF Stop
<1>9. CASE Restore BY <1>9 DEF Restore
<1>10. CASE Remove BY <1>10 DEF Remove
<1>11. CASE DnsStop BY <1>11 DEF DnsStop
<1>12. CASE Crash BY <1>12 DEF Crash
<1>13. CASE platformCleanup BY <1>13 DEF platformCleanup
<1>14. CASE Switch BY <1>14 DEF Switch
<1>15. ASSUME NEW i \in Iface, NEW c \in UserConfig, UserSets(i, c) PROVE TypeOK'
    BY <1>15 DEF UserSets
<1>16. CASE UNCHANGED vars BY <1>16 DEF vars
<1> QED
    BY <1>1, <1>2, <1>3, <1>4, <1>5, <1>6, <1>7, <1>8, <1>9, <1>10, <1>11, <1>12,
       <1>13, <1>14, <1>15, <1>16 DEF Next

\* Every step preserves the rest of Inv: RestoreFirst empties the one interface
\* the old breadcrumb names before Save destroys it, and Set moves the one
\* interface SaveWrite has just written down.
LEMMA SafeStep == Inv /\ TypeOK' /\ [Next]_vars => Safe'
<1> SUFFICES ASSUME Inv, TypeOK', [Next]_vars PROVE Safe'
    OBVIOUS
<1>a. TypeOK /\ NoneForgotten /\ Steps /\ FirstServerKept /\ CrumbOwn /\ CrumbWithinRun
    BY DEF Inv, Safe
<1> USE <1>a, WindowsAssumption, NoBreadcrumbAssumption
        DEF Safe, NoneForgotten, Steps, FirstServerKept, CrumbOwn, CrumbWithinRun,
            Known, Own, Asked
<1>1. CASE Start BY <1>1 DEF Start
<1>2. CASE Detect BY <1>2 DEF Detect
<1>3. CASE RestoreFirst BY <1>3 DEF RestoreFirst, SetDns, Failed, TypeOK, Breadcrumb, UserConfig, Config
<1>4. CASE Save BY <1>4 DEF Save, Failed
<1>5. CASE SaveWrite BY <1>5, CurrentAsked DEF SaveWrite, Failed, TypeOK, Breadcrumb
<1>6. CASE Set BY <1>6 DEF Set, SetDns, Failed, TypeOK
<1>7. CASE MgrStart BY <1>7 DEF MgrStart
<1>8. CASE Stop BY <1>8 DEF Stop
<1>9. CASE Restore BY <1>9 DEF Restore, SetDns, Failed, TypeOK, Breadcrumb, UserConfig, Config
<1>10. CASE Remove BY <1>10 DEF Remove, Failed
<1>11. CASE DnsStop BY <1>11 DEF DnsStop
<1>12. CASE Crash BY <1>12 DEF Crash
<1>13. CASE platformCleanup BY <1>13 DEF platformCleanup, SetDns, Failed, TypeOK, Breadcrumb, UserConfig, Config
<1>14. CASE Switch BY <1>14 DEF Switch
<1>15. ASSUME NEW i \in Iface, NEW c \in UserConfig, UserSets(i, c) PROVE Safe'
    BY <1>15 DEF UserSets, TypeOK, UserConfig
<1>16. CASE UNCHANGED vars BY <1>16 DEF vars
<1> QED
    BY <1>1, <1>2, <1>3, <1>4, <1>5, <1>6, <1>7, <1>8, <1>9, <1>10, <1>11, <1>12,
       <1>13, <1>14, <1>15, <1>16 DEF Next

\* Inv is an invariant of the specification.
LEMMA SpecInv == Spec => []Inv
<1>1. Inv /\ [Next]_vars => Inv'
    BY TypeStep, SafeStep DEF Inv
<1> QED
    BY InitInv, <1>1, PTL DEF Spec

\* The variables keep their types; what a breadcrumb says is never 127.0.0.1.
THEOREM TypeCorrect == Spec => []TypeOK
<1>1. Inv => TypeOK
    BY DEF Inv
<1> QED
    BY SpecInv, <1>1, PTL

\* system_windows.go:22-38: without a failure of netsh or of the file, no interface
\* at 127.0.0.1 is forgotten, for any number of interfaces, runs and crashes.
THEOREM NeverForgotten == Spec => []NoneForgotten
<1>1. Inv => NoneForgotten
    BY DEF Inv, Safe
<1> QED
    BY SpecInv, <1>1, PTL

\* system_windows.go:15-96: the user's first server is in use or in the breadcrumb.
THEOREM NeverLost == Spec => []FirstServerKept
<1>1. Inv => FirstServerKept
    BY DEF Inv, Safe
<1> QED
    BY SpecInv, <1>1, PTL

\* run_tun.go:41-77: a run that is not killed and meets no failure restores every
\* interface.
THEOREM Restores == Spec => []RunRestores
<1>1. Inv => RunRestores
    BY NoBreadcrumbAssumption
    DEF Inv, Safe, RunRestores, FirstServerKept, CrumbWithinRun, Known
<1> QED
    BY SpecInv, <1>1, PTL

\* system_windows.go:22-38, cleanup_windows.go:27-45: without a failure, one cleanup or
\* one more run's first step recovers every interface: only the one the breadcrumb
\* names can be at 127.0.0.1, and what the breadcrumb says of it is true.
THEOREM Recovery == Spec => RecoveredAtOnce
<1>1. ASSUME Inv, platformCleanup \/ RestoreFirst, faults' \subseteq {"crash"}, NEW i \in Iface
      PROVE  Own(i, dns'[i])
  <2>1. TypeOK /\ faults' = faults
    BY <1>1 DEF Inv, TypeOK, platformCleanup, RestoreFirst, Failed
  <2>2. /\ Own(i, dns[i]) \/ (dns[i] = Loopback /\ Known(i) /\ Own(i, crumb.prev))
        /\ crumb \in Breadcrumb => Own(crumb.iface, crumb.prev) /\ crumb.iface \in Iface
    BY <1>1, <2>1 DEF Inv, Safe, FirstServerKept, CrumbOwn, Breadcrumb
  <2>3. \/ /\ crumb \in Breadcrumb
           /\ dns' = [dns EXCEPT ![crumb.iface] = crumb.prev]
        \/ crumb \notin Breadcrumb /\ dns' = dns
    BY <1>1, <2>2, NoBreadcrumbAssumption DEF platformCleanup, RestoreFirst, SetDns, Failed
  <2> QED
    BY <2>1, <2>2, <2>3 DEF TypeOK, Known
<1>2. Inv => ((platformCleanup \/ RestoreFirst) /\ faults' \subseteq {"crash"} =>
                  \A i \in Iface : Own(i, dns'[i]))
    BY <1>1
<1> QED
    BY SpecInv, <1>2, PTL DEF RecoveredAtOnce
=============================================================================
