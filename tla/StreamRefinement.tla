-------------------------- MODULE StreamRefinement --------------------------
(***************************************************************************)
(* Stream implements Delivery when every source has fewer units than there *)
(* are counter values, so that no chunk counter wraps.                     *)
(***************************************************************************)
EXTENDS Stream

ShortSources == \A x \in Sources : x.len < CounterMod

Received == IF out = <<>> THEN 0 ELSE Last(out).to
Status ==
  IF opc = "idle" THEN "idle"
  ELSE IF opc = "loop" THEN "open"
  ELSE IF res = "nil" THEN "complete" ELSE "failed"

D == INSTANCE Delivery WITH chosen <- oprefix, got <- Received, status <- Status

\* Whatever the medium and the I/O do, the pair SealStream / OpenStream only
\* takes steps of Delivery: every step of it is one of an all-or-a-beginning
\* transfer of a single source.
Delivers == D!Spec
=============================================================================
