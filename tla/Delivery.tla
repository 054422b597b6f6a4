------------------------------ MODULE Delivery ------------------------------
(***************************************************************************)
(* What SealStream and OpenStream promise together, without chunks, nonces *)
(* or a medium: a reader picks one source and receives a growing beginning *)
(* of it; it is told "complete" only when it has all of it, and may be     *)
(* told "failed" at any time.                                              *)
(***************************************************************************)
EXTENDS Naturals

CONSTANTS
  Streams,   \* the sources there are
  NoStream,  \* none of them
  Sources    \* what a source may be

VARIABLES
  src,       \* the sources
  chosen,    \* the one being received
  got,       \* units of it received, from the first
  status     \* "idle", "open", "complete", "failed"

vars == <<src, chosen, got, status>>

Init ==
  /\ src \in [Streams -> Sources]
  /\ chosen = NoStream
  /\ got = 0
  /\ status = "idle"

Choose(s) ==
  /\ status = "idle"
  /\ status' = "open"
  /\ chosen' = s
  /\ UNCHANGED <<src, got>>

\* How much of the chosen source may have been received after this step.
Beginnings == IF chosen \in Streams THEN got .. src[chosen].len ELSE {got}

Receive(n) ==
  /\ status = "open"
  /\ got' = n
  /\ UNCHANGED <<src, chosen, status>>

Complete ==
  /\ status = "open"
  /\ chosen \in Streams
  /\ src[chosen].end # "ioErr"
  /\ got' = src[chosen].len
  /\ status' = "complete"
  /\ UNCHANGED <<src, chosen>>

Fail(n) ==
  /\ status \in {"idle", "open"}
  /\ got' = n
  /\ status' = "failed"
  /\ UNCHANGED <<src, chosen>>

Next ==
  \/ \E s \in Streams \cup {NoStream} : Choose(s)
  \/ \E n \in Beginnings : Receive(n)
  \/ Complete
  \/ \E n \in Beginnings : Fail(n)

Spec == Init /\ [][Next]_vars
=============================================================================
