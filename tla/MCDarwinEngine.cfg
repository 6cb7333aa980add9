SPECIFICATION Spec
CONSTANTS
  s1 = s1
  s2 = s2
  Server = {s1, s2}
  Loopback = Loopback
  Empty = Empty
  Svc = Svc
  NoFile = NoFile
  UserDns <- MCUserDns
INVARIANTS TypeOK RunRestores LoopbackServed CleanupUnstrands CleanupRestoresOne
