------------------------------- MODULE Tokens -------------------------------
(***************************************************************************)
(* Everything that is issued, travels and is checked against the clock,    *)
(* together: time-locked tokens, the tokens of the examples, sealed under  *)
(* the same keys, and timestamped webhooks.                                *)
(***************************************************************************)
EXTENDS Sessions, Webhook

CONSTANT MaxTokens    \* bound: ciphertexts and webhooks issued

ASSUME TokensAssumption ==
  /\ MaxTokens \in Nat
  /\ OtherAAD \notin ExampleAADs

vars == <<clockVars, sealedVars, hookVars>>

Room == Len(tokens) + Len(hooks) < MaxTokens

OtherPlaintexts ==
  [short : BOOLEAN, first8 : {0, Half - 1, Half}, rest : Payloads]

Init ==
  /\ now = 0 /\ backs = 0
  /\ InitSealed /\ InitHooks

Seals ==
  \/ \E key \in Keys \cup {BadKey}, payload \in Payloads, ttl \in Ttls, aad \in Purposes :
       IssueToken(key, payload, ttl, aad)
  \/ \E key \in Keys, pt \in OtherPlaintexts : SealOther(key, pt)
  \/ \E key \in Keys : Issue(key)

Opens ==
  \/ \E key \in Keys \cup {BadKey}, n \in 1 .. Len(tokens), form \in Forms,
        aad \in Purposes : VerifyToken(key, n, form, aad)
  \/ \E key \in Keys, n \in 1 .. Len(tokens), form \in Forms : Present(key, n, form)
  \/ noSession

Time ==
  /\ Tick \/ \E t \in 0 .. MaxTime : SetBack(t)
  /\ last' = Nothing /\ got' = NoReceipt
  /\ UNCHANGED <<tokens, seen, hooks, heard>>

Hooks ==
  \/ Room /\ \E secret \in Secrets, body \in Bodies : SignWebhook(secret, body)
  \/ \E n \in 1 .. Len(hooks), secret \in Secrets, body \in Bodies :
       \E h \in Altered(hooks[n].hdr) : Receive(n, secret, body, h)

Next ==
  \/ Time
  \/ ((Room /\ Seals) \/ IssueFails \/ Opens) /\ UNCHANGED <<clockVars, hookVars>>
  \/ Hooks /\ UNCHANGED <<clockVars, sealedVars>>

Spec == Init /\ [][Next]_vars

-----------------------------------------------------------------------------
Checked == tokens[last.n]

\* How long after its issue a ciphertext must be refused: to the tick where an
\* expiry was computed at issue, a second later for a CSRF token, whose time
\* of issue was rounded down.
Lifetime == Checked.ttl + IF Checked.kind = "csrf" THEN Sec ELSE 0

\* The verification just made was of a ciphertext of the verifier's kind.
OwnKind == Checked.kind = last.as

\* No verifier accepts a token of its kind once its ttl has passed on the clock
\* it was issued by, although expiries are whole seconds.
AcceptedInTime == last.err = "nil" /\ OwnKind => now < Checked.at + Lifetime

\* Nor does it call one expired more than a second before its ttl has passed.
NotExpiredEarly ==
  last.err = "expired" /\ OwnKind => now + Sec > Checked.at + Checked.ttl

\* A verifier accepts, or finds expired, only what was issued for its purpose,
\* to the party it answers for: no other data sealed under the key, no other
\* session's CSRF token, nothing damaged.  The four verifiers that read JSON
\* take nothing but their own kind, although all are the same JSON, and no
\* time-locked token even where it has their aad; VerifyToken, which only looks
\* at 8 bytes, is kept from another kind by the aad alone: what it confuses is
\* a token of the examples sealed under an aad that is a purpose too.
NoTokenConfusion ==
  last.err \in {"nil", "expired"} =>
    /\ OwnKind \/ (last.as = "token" /\ last.aad \in ExampleAADs)
    /\ Checked.ct.aad = last.aad
    /\ Checked.payload = last.who

\* A token its own verifier once reported expired is accepted by it again only
\* if the clock was set back in between.
ExpiryIsFinal ==
  [][\A n \in 1 .. Len(seen) :
       seen[n].err = "expired" /\ seen'[n].err = "nil" =>
         seen'[n].backs > seen[n].backs]_vars

\* Servers whose clocks differ by no more than the skew limit honour each
\* other's sessions, and none accepts a session from further in the future
\* than the limit and a second.
SkewTolerated ==
  last.as = "session" =>
    /\ last.err = "future" => Checked.at > now + clockSkewLimit * Sec
    /\ last.err = "nil" => Checked.at < now + (clockSkewLimit + 1) * Sec
=============================================================================
