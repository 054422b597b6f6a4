------------------------------- MODULE MCLogin -------------------------------
(* Small instances of Login for TLC: passwords whose first 72 bytes are    *)
(* distinct, one of them longer, and passwords that share them.            *)
EXTENDS Login, TLC

CONSTANTS h, g, s, tail

DistinctPasswords ==
  {[head |-> x, tail |-> NoTail] : x \in {h, g}} \cup {[head |-> s, tail |-> tail]}
SharedPasswords == {[head |-> h, tail |-> x] : x \in {NoTail, tail}}
Symmetry == Permutations(Procs)
=============================================================================
