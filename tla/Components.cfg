SPECIFICATION CSpec
CONSTANTS
  Container = {c1, c2, c3}
  Port = {p1, p2, p3}
  WorkerCnt = 2
  Borrower = {h, t}
  Handler = {h}
  Faults = {"exited", "killed", "dead", "removed", "refused"}
  MaxFaults = 2
  Configs = {{"server", "brokers", "coderun"}, {"server", "brokers"}, {"coderun"}}
  None = None
INVARIANTS ComponentsTypeOK OneTokenPerWorker SendsNeverBlock NothingElseSurvivesStop StopIsOrderly
PROPERTIES ImplementsWatcher SignalEndsProcess RepairRestores
CHECK_DEADLOCK FALSE
