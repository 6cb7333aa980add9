SPECIFICATION FairSpec
CONSTANTS
  u1 = u1
  u2 = u2
  u3 = u3
  Upstreams <- MCUpstreams
  Named = {u1, u2}
  Query = {q1}
INVARIANTS GoodSuffices
PROPERTIES QueryEnds ShutdownEnds
CHECK_DEADLOCK FALSE
