SPECIFICATION Spec
CONSTANTS
  Streams = {s1, s2}
  NoStream = NoStream
  Keys = {k1}
  BadKey = BadKey
  MaxLen = 1
  Sources <- FullSources
  ChunkSizes = {1}
  MaxChunk = 1
  TagSize = 1
  LastBit = 3
  CounterMod = 3
  MaxFaults = 2
INVARIANT NonceNeverReused
PROPERTY Delivers
SYMMETRY Symmetry
CHECK_DEADLOCK FALSE
