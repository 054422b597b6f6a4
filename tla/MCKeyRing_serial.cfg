SPECIFICATION Spec
CONSTANTS
  Callers = {p1, p2}
  Kids = {a, b, c}
  BadKid = BadKid
  Keys = {k1, k2}
  BadKey = BadKey
  NoKey = NoKey
  AADs = {x, y}
  MaxCts = 1
  Serialized = TRUE
INVARIANTS TypeOK ActiveUsable SealedReadable
PROPERTY OnlyRemoveLoses
SYMMETRY Symmetry
