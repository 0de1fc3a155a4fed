SPECIFICATION Spec
CONSTANTS
  Path = {p1, p2}
  Type = {"proxy"}
  Value = {v1, v2}
  ValidURL = {v1, v2}
  Reader = {r1}
  CacheSize = 1
  DbErrors = {}
  MaxUnknown = 2
  None = None
  NoAnswer = NoAnswer
  Failed = Failed
PROPERTIES ReadsAreCurrent
