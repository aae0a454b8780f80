CONSTANTS
  Nodes = {n1, n2, n3}
  Nobody = Nobody
  Founders = {n1}
  MAX_SUCCESSORS = 2
  MaxClock = 6
  MaxJoins = 1
  Faults = {"crash", "leave", "late", "clear"}
  MaxFaults = 1
SPECIFICATION Spec
CHECK_DEADLOCK FALSE
SYMMETRY NotFounders
INVARIANT TypeOK
INVARIANT PoolIsSuspects
INVARIANT LeaderIsEarliest
PROPERTY DeadStaysDead
