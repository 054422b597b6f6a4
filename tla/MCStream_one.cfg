SPECIFICATION FairSpec
CONSTANTS
  Streams = {s1}
  NoStream = NoStream
  Keys = {k1}
  BadKey = BadKey
  MaxLen = 3
  Sources <- AllSources
  ChunkSizes <- OfferedSizes
  MaxChunk = 2
  TagSize = 1
  LastBit = 4
  CounterMod = 3
  MaxFaults = 2
INVARIANTS TypeOK DeliveredInOrder SuccessMeansComplete RoundTrip CutIsNotTampering NonceNeverReused
PROPERTY CallsReturn
CHECK_DEADLOCK FALSE
