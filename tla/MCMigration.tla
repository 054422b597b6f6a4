----------------------------- MODULE MCMigration -----------------------------
(* A small instance of Migration for TLC: first IV bytes 0x01, 0xaa, 0xff, *)
(* 0x1a and 0xa1, with every combination of a digit and a letter in hex.   *)
EXTENDS Migration

CONSTANT MaxText  \* bound: plaintext length

SmallBytes == 0 .. BlockSize + 1
SmallTexts == UNION {[1 .. n -> SmallBytes] : n \in 0 .. MaxText}
OfferedIVs == {<<0, 1>>, <<10, 10>>, <<15, 15>>, <<1, 10>>, <<10, 1>>}
=============================================================================
