------------------------------ MODULE Webhook ------------------------------
(***************************************************************************)
(* examples/webhook_with_timestamp: a sender signs a body together with    *)
(* the time in seconds; the header with both travels with the body, is     *)
(* delayed, delivered any number of times and altered; a receiver accepts  *)
(* what is signed and not further than a tolerance from its own clock.     *)
(***************************************************************************)
EXTENDS Integers, Sequences, Clock, Hmac

CONSTANTS
  Secrets,
  Bodies,
  Tolerance,  \* in ticks
  Stamps      \* timestamps a changed header may carry, int64

ASSUME WebhookAssumption ==
  /\ Tolerance \in Nat /\ Stamps \subseteq -Half .. Half - 1
  /\ 2 * MaxTime < Half

VARIABLES
  hooks,  \* history: what was signed, when, and its header
  heard,  \* history: per webhook, how its unaltered header was last answered
  got     \* history: the verification just made

hookVars == <<hooks, heard, got>>

NoReceipt == [n |-> 0, err |-> "none"]
InitHooks == hooks = <<>> /\ heard = <<>> /\ got = NoReceipt

\* A timestamp: its text is "digits", other text of the same number (a sign,
\* leading zeros) or no number.  A header: whole if it has a t and a v1 part
\* and nothing else; hex if v1 is hex.
Stamp(s) == [text |-> "digits", val |-> s]
Signed_BodyOnly(ts, body) == body  \* mutant: the timestamp is not signed
Signed(ts, body) == <<ts, body>>

SignWebhook(secret, body) ==
  LET ts == Stamp(Unix(now))
  IN /\ hooks' = Append(hooks, [at |-> now, secret |-> secret, body |-> body,
          hdr |-> [whole |-> TRUE, ts |-> ts, hex |-> TRUE,
                   mac |-> Sign(secret, Signed(ts, body))]])
     /\ heard' = Append(heard, [err |-> "none", backs |-> backs])
     /\ got' = NoReceipt

-----------------------------------------------------------------------------
\* What may become of a header on its way.
Altered(h) ==
  {h, [h EXCEPT !.whole = FALSE], [h EXCEPT !.hex = FALSE], [h EXCEPT !.mac.len = Size - 1]}
  \cup {[h EXCEPT !.ts.text = x] : x \in {"signed", "none"}}
  \cup {[h EXCEPT !.ts = Stamp(s)] : s \in Stamps}

\* The result of int64 arithmetic.
Int64(x) == ToInt64(ToUint64(x))

Outside_Twice(s) ==  \* mutant: a unit twice as long as a second
  LET d == Unix(now) - s IN (IF d < 0 THEN -d ELSE d) * 2 * Sec > Tolerance
Outside_Field(s) ==  \* mutant: only the field that counts seconds is compared
  LET d == Unix(now) - s IN ((IF d < 0 THEN -d ELSE d) % 3) * Sec > Tolerance
Outside(s) ==
  LET d == Int64(Unix(now) - s)
      delta == IF d < 0 THEN Int64(-d) ELSE d
  IN Int64(delta * Sec) > Tolerance

VerifyWebhook(secret, body, h) ==
  IF ~h.whole THEN "malformed signature header"
  ELSE IF h.ts.text = "none" THEN "malformed timestamp"
  ELSE IF Outside(h.ts.val) THEN "outside tolerance"
  ELSE IF ~h.hex THEN "malformed mac"
  ELSE IF ~Verify(secret, Signed(h.ts, body), h.mac) THEN "signature mismatch" ELSE "nil"

\* The header of webhook n, perhaps altered, arrives with some body.
Receive(n, secret, body, h) ==
  LET err == VerifyWebhook(secret, body, h)
      stale == err = "outside tolerance" /\ Unix(now) > h.ts.val
  IN /\ got' = [n |-> n, secret |-> secret, body |-> body, err |-> err,
                genuine |-> h = hooks[n].hdr]
     /\ heard' = IF h = hooks[n].hdr /\ (stale \/ err = "nil")
                 THEN [heard EXCEPT ![n] = [err |-> err, backs |-> backs]] ELSE heard
     /\ UNCHANGED hooks

-----------------------------------------------------------------------------
Distance(a, b) == IF a < b THEN b - a ELSE a - b

\* Whatever is altered, delayed or repeated, an accepted webhook is one its
\* secret's holder signed with this very body, less than the tolerance and a
\* second ago (or ahead) on the receiver's clock.  A timestamp so far off that
\* the duration overflows, and looks fresh, is no exception.
FreshAndGenuine ==
  got.err = "nil" =>
    /\ got.genuine
    /\ got.secret = hooks[got.n].secret /\ got.body = hooks[got.n].body
    /\ Distance(now, hooks[got.n].at) < Tolerance + Sec

\* A genuine webhook is refused only when the clocks or the delay make it
\* older, or younger, than the tolerance less a second.
DeliveredInTime ==
  /\ got.n # 0 /\ got.err # "nil" /\ got.genuine
  /\ got.secret = hooks[got.n].secret /\ got.body = hooks[got.n].body
  => Distance(now, hooks[got.n].at) > Tolerance - Sec

\* Replays end: a webhook refused for its age is accepted later only if the
\* receiver's clock was set back in between.
ReplaysEnd ==
  [][\A n \in 1 .. Len(heard) :
       heard[n].err = "outside tolerance" /\ heard'[n].err = "nil" =>
         heard'[n].backs > heard[n].backs]_hookVars
=============================================================================
