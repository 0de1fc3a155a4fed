SPECIFICATION Spec
CONSTANTS
  ReadTask = {r1}
  WriteTask = {t1}
  RWorker = {rw1}
  WWorker = {ww1}
  MaxErrors = 1
  None = None
INVARIANT ShutdownWithoutPanic
CHECK_DEADLOCK FALSE
