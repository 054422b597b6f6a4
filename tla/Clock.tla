-------------------------------- MODULE Clock --------------------------------
(***************************************************************************)
(* The wall clock that timelock.go and the token examples read, in ticks,  *)
(* Sec of them a second.  It advances and can be set back; a verifier on   *)
(* another machine, whose clock is behind, is the clock set back.          *)
(* Arithmetic on seconds and durations is that of int64.                   *)
(***************************************************************************)
EXTENDS Integers

CONSTANTS
  Sec,         \* ticks per second
  Half,        \* 2^63: half the values of a uint64
  MaxTime,     \* bound: the clock's last tick
  MaxBacks     \* bound: times the clock is set back

ASSUME ClockAssumption ==
  /\ Sec \in Nat \ {0} /\ Half \in Nat \ {0}
  /\ MaxTime \in Nat /\ MaxBacks \in Nat

VARIABLES
  now,     \* the wall clock
  backs    \* history: how often it was set back

clockVars == <<now, backs>>

\* time.Time.Unix: whole seconds, rounded down.
Unix(ticks) == ticks \div Sec

\* The two conversions between int64 and uint64.
ToUint64(x) == x % (2 * Half)
ToInt64(u) == IF u >= Half THEN u - 2 * Half ELSE u

Tick == now < MaxTime /\ now' = now + 1 /\ UNCHANGED backs

\* The clock is corrected backwards.
SetBack(t) ==
  /\ backs < MaxBacks /\ t < now
  /\ now' = t /\ backs' = backs + 1
=============================================================================
