------------------------------ MODULE MCKeyRing ------------------------------
(* Small instances of KeyRing for TLC.                                     *)
EXTENDS KeyRing, TLC

Symmetry == Permutations(Callers) \cup Permutations(Kids)
            \cup Permutations(Keys) \cup Permutations(AADs)
=============================================================================
