SPECIFICATION Spec
CONSTANTS
  Streams = {s1}
  NoStream = NoStream
  Keys = {k1}
  BadKey = BadKey
  MaxLen = 3
  Sources <- AllSources
  ChunkSizes = {2}
  MaxChunk = 2
  TagSize = 1
  LastBit = 4
  CounterMod = 4
  MaxFaults = 0
INVARIANT SourceErrorReported
CHECK_DEADLOCK FALSE
