SPECIFICATION FairSpec
CONSTANTS
  Putters = {p1, p2, p3}
  Getters = {g1, g2}
  Elem = {a, b, c, d}
  MaxSize = 2
INVARIANTS TypeOK GetterWakeups PutterWakeups
PROPERTIES ImplementsClosableQueue ElementsLeave ParkedPutReturns
