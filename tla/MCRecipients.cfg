SPECIFICATION Spec
CONSTANTS
  Parties = {acme, globex}
  Root = Root
  NoKey = NoKey
  NonceSize = 3
  TagSize = 4
  X25519KeySize = 5
  MaxKidLen = 6
  ByteMod = 8
  LenMod = 32
  MaxPt = 2
  MaxWrapped = 4
  MaxRaw = 28
  Lengths <- OfferedLengths
INVARIANTS NoPanic WholeParts PartsRecovered OnlyOwnerReads
CHECK_DEADLOCK FALSE
