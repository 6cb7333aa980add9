SPECIFICATION FairSpec
CONSTANTS
  Target = {t1}
  Plain = {p1}
  Doh = {}
  V6 = {p1}
  LPort = {q1, q2}
  NoPort = NoPort
  Placeholder = Placeholder
  None = None
  Burst = 2
  MaxCopies = 2
  RingCap = 2
PROPERTIES StopRestoresDns
CHECK_DEADLOCK FALSE
