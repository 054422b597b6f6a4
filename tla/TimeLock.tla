------------------------------ MODULE TimeLock ------------------------------
(***************************************************************************)
(* timelock.go: tokens with an expiry in whole seconds, kept in 8 bytes of *)
(* the sealed plaintext.  Tokens are ordinary Seal ciphertexts, and the    *)
(* same key may seal other data, whose first 8 bytes mean something else.  *)
(* Purposes are the caller's choice: the package suggests some, and the    *)
(* examples use these for tokens of another layout too.                    *)
(***************************************************************************)
EXTENDS Integers, Sequences, Aead, Clock

CONSTANTS
  Keys,        \* 32-byte keys
  Purposes,    \* the aads of tokens, one per endpoint
  OtherAAD,    \* the aad of other data sealed under the same keys
  Payloads,
  Ttls         \* the ttl arguments callers pass, valid or not

ASSUME TimeLockAssumption ==
  /\ BadKey \notin Keys
  /\ OtherAAD \notin Purposes
  /\ Ttls \subseteq Int
  /\ \A ttl \in Ttls : (MaxTime + ttl) \div Sec < Half

VARIABLES
  tokens,  \* history: what was sealed, for what and when
  seen,    \* history: per ciphertext, what the verifier of its kind last said
  last     \* history: the verification just made: of what, as what, for whom

sealedVars == <<tokens, seen, last>>

\* A plaintext: the value of its first 8 bytes and the rest, or too short.
Wrapped(expiry, payload) ==
  [short |-> FALSE, first8 |-> ToUint64(expiry), rest |-> payload]

Nothing == [n |-> 0, as |-> "other", aad |-> OtherAAD, who |-> "", err |-> "none"]

InitSealed == tokens = <<>> /\ seen = <<>> /\ last = Nothing

-----------------------------------------------------------------------------
Add(kind, payload, ttl, ct) ==
  /\ tokens' = Append(tokens, [kind |-> kind, at |-> now, ttl |-> ttl,
                               payload |-> payload, ct |-> ct])
  /\ seen' = Append(seen, [err |-> "none", backs |-> backs])
  /\ last' = Nothing

\* A verification of ciphertext n as one of a kind ends.
Verified(kind, n, aad, who, err) ==
  /\ last' = [n |-> n, as |-> kind, aad |-> aad, who |-> who, err |-> err]
  /\ seen' = IF err \in {"nil", "expired"} /\ kind = tokens[n].kind
             THEN [seen EXCEPT ![n] = [err |-> err, backs |-> backs]] ELSE seen
  /\ UNCHANGED tokens

\* The expiry of a token issued now.
Expiry_Up(ttl) == Unix(now + ttl) + 1  \* mutant: rounded up
Expiry_Apart(ttl) == Unix(now) + Unix(ttl)  \* mutant: each part rounded down
Expiry(ttl) == Unix(now + ttl)

\* IssueToken; a ttl that is not positive, a bad key and a failing random
\* source return an error and no token.
IssueToken(key, payload, ttl, aad) ==
  /\ ttl > 0
  /\ key # BadKey
  /\ Add("token", payload, ttl, Sealed(key, Wrapped(Expiry(ttl), payload), aad))

IssueFails ==
  /\ \E key \in Keys \cup {BadKey}, ttl \in Ttls, rngFails \in BOOLEAN :
       ttl <= 0 \/ key = BadKey \/ rngFails
  /\ last' = Nothing /\ UNCHANGED <<tokens, seen>>

\* Other data sealed with the same key.
SealOther(key, pt) == Add("other", pt.rest, 0, Sealed(key, pt, OtherAAD))

\* The clock has reached a token's expiry.
Expired_Once(expiry) == Unix(now) = expiry  \* mutant: only at that very second
Expired(expiry) == Unix(now) >= expiry

\* The text of ciphertext n as a verifier gets it.
Text(n, form) == [tokens[n].ct EXCEPT !.form = form]

\* What VerifyToken returns for a text ("expired" is ErrExpired).
VerifyError(key, ct, aad) ==
  IF OpenError(key, ct, aad) # "nil" THEN OpenError(key, ct, aad)
  ELSE IF ct.pt.short THEN "ErrInvalidCiphertext"
  ELSE IF Expired(ToInt64(ct.pt.first8)) THEN "expired" ELSE "nil"

VerifyToken(key, n, form, aad) ==
  Verified("token", n, aad, tokens[n].payload,
           VerifyError(key, Text(n, form), aad))
=============================================================================
