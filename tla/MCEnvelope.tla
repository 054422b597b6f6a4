------------------------------ MODULE MCEnvelope ------------------------------
(* Small instances of Envelope for TLC.                                    *)
EXTENDS Envelope, TLC

Symmetry == Permutations(Callers) \cup Permutations(KeyIDs) \cup Permutations(KEKs)
            \cup Permutations(DataKeys) \cup Permutations(AADs)
=============================================================================
