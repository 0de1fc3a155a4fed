SPECIFICATION Spec
CONSTANTS
  Path = {p1, p2}
  Pool = {q}
  Code = {c1, c2}
  Handler = {h1, h2}
  MaxTime = 1
  SameSecond = FALSE
  None = None
  Broken = Broken
  Empty = Empty
SYMMETRY Symmetry
INVARIANTS TypeOK ServesOwnCode UntouchedIsWhole
