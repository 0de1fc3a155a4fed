SPECIFICATION Spec
CONSTANTS
  Path = {p1, p2}
  Pool = {q}
  Code = {c1, c2}
  Handler = {h1, h2}
  MaxTime = 0
  SameSecond = TRUE
  None = None
  Broken = Broken
  Empty = Empty
INVARIANTS ServesOwnCode
