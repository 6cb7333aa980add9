SPECIFICATION HelperFairSpec
CONSTANTS
  s1 = s1
  Server = {s1}
  Loopback = Loopback
  Empty = Empty
  Svc = Svc
  NoFile = NoFile
  UserDns <- OneServer
INVARIANTS NoSecondEngine StopUnstrands StoppedMeansOff
PROPERTIES ImplementsEngine StopHeeded StoppingNotForEver
