------------------------------ MODULE MCTokens ------------------------------
(* Small instances of Tokens for TLC: seconds of two ticks, so that both   *)
(* a clock and a ttl fall between whole seconds; timestamps up to the ends *)
(* of int64, where durations overflow.  The purposes are those timelock.go *)
(* suggests and examples/time_locked_token uses, the aads of magic links.  *)
EXTENDS Tokens, TLC

OfferedTtls == -1 .. 4
OfferedStamps == {-Half, -Half + 1, -Half \div 2, -1, Half \div 2, Half - 1} \cup 0 .. 3
Symmetry == Permutations(Keys)
=============================================================================
