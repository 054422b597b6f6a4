------------------------------ MODULE MCStream ------------------------------
(* Small instances of Stream for TLC.                                      *)
EXTENDS Stream

CONSTANTS MaxLen  \* bound: units in a source

\* Every length up to the bound, every way of ending.
AllSources == [len : 0 .. MaxLen, end : SourceEnds]

\* Below, at and above each limit of chunkSize.
OfferedSizes == {0, 1, MaxChunk, MaxChunk + 1}
=============================================================================
