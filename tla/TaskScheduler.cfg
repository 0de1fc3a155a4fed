SPECIFICATION FairSpec
CONSTANTS
  ReadTask = {r1, r2}
  WriteTask = {t1, t2}
  RWorker = {rw1, rw2}
  WWorker = {ww1, ww2}
  MaxErrors = 1
  None = None
INVARIANTS TypeOK SingleReader RunningIsExact WrittenOnce
PROPERTIES TasksAreServed StopReturns
CHECK_DEADLOCK FALSE
