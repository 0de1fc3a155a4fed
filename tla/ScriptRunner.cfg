SPECIFICATION Spec
CONSTANTS
  Request = {r1, r2, m}
  Mapper = {m}
  Worker = {w1}
  None = None
  Broken = Broken
INVARIANTS TypeOK RunsOnOwnArgs
PROPERTIES EveryCallEnds
CHECK_DEADLOCK FALSE
