SPECIFICATION FairSpec
CONSTANTS
  Target = {t1}
  Plain = {p1}
  Doh = {d1}
  V6 = {d1}
  LPort = {q1, q2}
  NoPort = NoPort
  Placeholder = Placeholder
  None = None
  Burst = 2
  MaxCopies = 2
  RingCap = 2
INVARIANTS NoCrosstalk
PROPERTIES ImplementsDesync HelloForward HelloNotHeldUp
CHECK_DEADLOCK FALSE
