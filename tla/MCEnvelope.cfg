SPECIFICATION Spec
CONSTANTS
  Callers = {p1, p2}
  KeyIDs = {id1}
  KEKs = {k1, k2}
  BadKey = BadKey
  NoKek = NoKek
  DataKeys = {d1, d2}
  Zero = Zero
  AADs = {x, y}
  NilAAD = NilAAD
  MaxWraps = 2
  MaxInners = 2
INVARIANTS TypeOK OpenedAsSealed SealedReadable KeysWiped
SYMMETRY Symmetry
