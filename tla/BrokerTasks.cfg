SPECIFICATION Spec
CONSTANTS
  a = a
  b = b
  None = None
  Pool <- MCPool
  Link <- MCLink
  Source = a
  NumMsgs = 2
  NumAgain = 2
  WWorker = {w1}
  Scenarios <- AllScenarios
INVARIANTS TypeOK RabbitRecordsFirst NeverDuplicated LogsInOrder QueuedIsListed
PROPERTIES DeliversInOrder ReadTasksEnd SentIsReadAtTheEnd
