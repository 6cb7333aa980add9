SPECIFICATION Spec
CONSTANTS
  Configs <- MCConfigs
  Hops <- MCHops
INVARIANTS FakeDiesOnPath FakeTravelsFar
