SPECIFICATION Spec
CONSTANTS
  s1 = s1
  s2 = s2
  search = search
  Server = {s1, s2}
  Other = {search}
  Loopback = Loopback
  Fallback = Fallback
  Proc = {p1, p2}
  NoProc = NoProc
  Confs <- MCConfs
INVARIANTS PortGuardsFile FileRestored LoopbackServed OriginalsSurviveCrash
