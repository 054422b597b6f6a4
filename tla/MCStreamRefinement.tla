------------------------- MODULE MCStreamRefinement -------------------------
(* A small instance of StreamRefinement for TLC: sources of one length.    *)
EXTENDS StreamRefinement, TLC

CONSTANTS MaxLen  \* bound: units in a source

FullSources == {[len |-> MaxLen, end |-> "EOF"]}
Symmetry == Permutations(Streams)

ASSUME SmallSources == ShortSources
=============================================================================
