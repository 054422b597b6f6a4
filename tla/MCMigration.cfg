SPECIFICATION Spec
CONSTANTS
  RowIds = {r1}
  Keys = {k32}
  CbcKeys = {k32, k16}
  BadKey = BadKey
  BlockSize = 2
  Bytes <- SmallBytes
  MaxText = 2
  Texts <- SmallTexts
  AADs = {x, y}
  IVs <- OfferedIVs
  aeadMinSize = 4
  TextLens = {2, 4, 5, 6, 8, 12}
INVARIANTS AutoReads AeadStaysAuthentic OnlyPaddedAccepted DetectionIsExact ScriptMigrates
