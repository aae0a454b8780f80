CONSTANTS
  Nodes = {n1, n2}
  Nobody = Nobody
  Founders = {n1}
  MAX_SUCCESSORS = 6
  MaxClock = 4
  MaxJoins = 1
  Faults = {}
  MaxFaults = 0
SPECIFICATION Spec
CHECK_DEADLOCK FALSE
INVARIANT PingsEveryOther
