SPECIFICATION Spec
CONSTANTS
  Callers = {p1, p2}
  Kids = {a, b}
  BadKid = BadKid
  Keys = {k1, k2}
  BadKey = BadKey
  NoKey = NoKey
  AADs = {x}
  MaxCts = 1
  Serialized = FALSE
INVARIANT SealedReadable
SYMMETRY Symmetry
