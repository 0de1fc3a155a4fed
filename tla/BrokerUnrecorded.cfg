SPECIFICATION Spec
CONSTANTS
  a = a
  b = b
  None = None
  Pool <- MCPool
  Link <- MCLink
  Source = a
  NumMsgs = 1
  NumAgain = 0
  WWorker = {w1}
  Scenarios <- JustUnrecorded
INVARIANTS RecordedFirst
