SPECIFICATION Spec
CONSTANTS
  Path = {p1, p2}
  Type = {"static", "proxy"}
  Value = {v1, v2}
  ValidURL = {v1}
  Reader = {r1, r2}
  CacheSize = 1
  DbErrors = {"before", "after"}
  MaxUnknown = 2
  None = None
  NoAnswer = NoAnswer
  Failed = Failed
INVARIANTS TypeOK NoFatalRoute
PROPERTIES ImplementsRouteMap
