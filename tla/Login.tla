------------------------------- MODULE Login -------------------------------
(***************************************************************************)
(* password.go and password_bcrypt.go, used the way                        *)
(* examples/bcrypt_migration does: one user's stored hash, bcrypt at first *)
(* or argon2id, and concurrent logins that each fetch it, verify it and,   *)
(* after a bcrypt match, store an argon2id hash in its place.  New         *)
(* releases may retune argon2id, the store may damage the hash.            *)
(*                                                                         *)
(* A password is its first 72 bytes and the rest.  Both hash functions are *)
(* ideal: a hash is what went into it, unless it was cut to so few bytes   *)
(* that another password's may equal it.                                   *)
(***************************************************************************)
EXTENDS Integers

CONSTANTS
  Procs,      \* requests served at once
  Passwords,  \* records [head, tail]
  NoTail,     \* the tail of a password of at most 72 bytes
  Times,      \* argon2 time costs of releases
  Lanes,      \* argon2 parallelism of releases
  argonKeyLen,
  CutLens,    \* bytes that damage leaves of an argon2id hash
  ChanceLen   \* hashes of at most this many bytes may be equal by chance

ASSUME LoginAssumption ==
  /\ \A pw \in Passwords : DOMAIN pw = {"head", "tail"}
  /\ Times \subseteq Nat \ {0} /\ Lanes \subseteq Nat \ {0}
  /\ argonKeyLen \in Nat /\ CutLens \subseteq 1 .. argonKeyLen - 1
  /\ ChanceLen \in 0 .. argonKeyLen - 1

VARIABLES
  t, p,   \* argonTimeCost and argonParallel of the release in use
  own,    \* history: the password the user registered with
  row,    \* the stored hash
  hurt,   \* history: row was damaged since it was stored
  call    \* per request: pc, pw, the hash it fetched, the result

vars == <<t, p, own, row, hurt, call>>

NoRow == [kind |-> "none"]
Long(pw) == pw.tail # NoTail

-----------------------------------------------------------------------------
(* argon2id (external: it panics on a zero cost, and its output is a       *)
(* different one for each length) and the PHC string.                      *)

IDKey(pw, time, lanes, len) == [pw |-> pw, t |-> time, p |-> lanes, len |-> len]

\* well: six segments, the algorithm, version 19, and fields that parse.
formatPHC(pw) ==
  [kind |-> "phc", well |-> TRUE, t |-> t, p |-> p, len |-> argonKeyLen,
   hash |-> IDKey(pw, t, p, argonKeyLen)]

parsePHC(stored) == stored.kind = "phc" /\ stored.well

VerifyPassword_Current(pw, stored) ==  \* mutant: today's parameters
  IF ~parsePHC(stored) THEN "ErrInvalidPasswordHash"
  ELSE IF IDKey(pw, t, p, argonKeyLen) = stored.hash THEN "true" ELSE "false"
VerifyPassword(pw, stored) ==
  IF ~parsePHC(stored) THEN "ErrInvalidPasswordHash"
  ELSE IF stored.t = 0 \/ stored.p = 0 THEN "panic"
  ELSE IF IDKey(pw, stored.t, stored.p, stored.len) = stored.hash THEN "true" ELSE "false"

-----------------------------------------------------------------------------
(* bcrypt (external: the key schedule takes 72 bytes).                     *)

BcryptHash(pw) == [kind |-> "bcrypt", well |-> TRUE, digest |-> pw.head]

VerifyPasswordBcrypt_Matches(pw, stored) ==  \* mutant: no mismatch case
  IF stored.well THEN "true" ELSE "ErrInvalidPasswordHash"
VerifyPasswordBcrypt(pw, stored) ==
  IF ~stored.well THEN "ErrInvalidPasswordHash"
  ELSE IF BcryptHash(pw).digest = stored.digest THEN "true" ELSE "false"

\* loginAndRehash's switch on the prefix.
Verify(pw, stored) ==
  CASE stored.kind = "bcrypt" -> VerifyPasswordBcrypt(pw, stored)
    [] stored.kind = "phc" -> VerifyPassword(pw, stored)
    [] OTHER -> "unknown password hash format"

-----------------------------------------------------------------------------
Idle == [pc |-> "idle"]

Init ==
  /\ t \in Times /\ p \in Lanes
  /\ own \in Passwords /\ row = NoRow /\ hurt = FALSE
  /\ call = [c \in Procs |-> Idle]

\* A registration; with a failing random source nothing is stored.
HashPassword ==
  /\ row = NoRow
  /\ row' = formatPHC(own)
  /\ UNCHANGED <<t, p, own, hurt, call>>

\* A registration with bcrypt; a password over 72 bytes is an error, and the
\* user chooses another (with a cost out of range nothing is stored).
HashPasswordBcrypt(pw) ==
  /\ row = NoRow
  /\ IF Long(own)
     THEN own' = pw /\ UNCHANGED row
     ELSE row' = BcryptHash(own) /\ UNCHANGED own
  /\ UNCHANGED <<t, p, hurt, call>>

\* loginAndRehash: the row is fetched, into a fakeUser of the request's own, so
\* that the prefix and the hash that is verified are of one value ...
Fetch(c, pw) ==
  /\ call[c].pc \in {"idle", "done"} /\ row # NoRow
  /\ call' = [call EXCEPT ![c] = [pc |-> "verify", pw |-> pw, hash |-> row]]
  /\ UNCHANGED <<t, p, own, row, hurt>>

Done(c, res) ==
  call' = [call EXCEPT ![c] = [pc |-> "done", pw |-> call[c].pw, res |-> res]]

\* ... verified, which is all for a mismatch, an error or an argon2id hash ...
LoginVerifies(c) ==
  /\ call[c].pc = "verify"
  /\ LET res == Verify(call[c].pw, call[c].hash)
     IN IF res = "true" /\ call[c].hash.kind = "bcrypt"
        THEN call' = [call EXCEPT ![c].pc = "rehash"]
        ELSE Done(c, res)
  /\ UNCHANGED <<t, p, own, row, hurt>>

\* ... unless it was cut to a few bytes: VerifyPassword recomputes as many, and
\* they may be the same for any password.
LoginByChance(c) ==
  /\ call[c].pc = "verify"
  /\ call[c].hash.kind = "phc" /\ call[c].hash.len <= ChanceLen
  /\ Verify(call[c].pw, call[c].hash) = "false"
  /\ Done(c, "chance")
  /\ UNCHANGED <<t, p, own, row, hurt>>

\* After a bcrypt match the password is stored as an argon2id hash.
LoginRehashes_Stale(c) ==  \* mutant: the user record that was fetched is saved
  /\ call[c].pc = "rehash"
  /\ \E new \in {formatPHC(call[c].pw), call[c].hash} : row' = new
  /\ hurt' = FALSE
  /\ Done(c, "true")
  /\ UNCHANGED <<t, p, own>>
LoginRehashes(c) ==
  /\ call[c].pc = "rehash"
  /\ row' = formatPHC(call[c].pw) /\ hurt' = FALSE
  /\ Done(c, "true")
  /\ UNCHANGED <<t, p, own>>

LoginRngFails(c) ==
  /\ call[c].pc = "rehash"
  /\ Done(c, "rngErr")
  /\ UNCHANGED <<t, p, own, row, hurt>>

\* A new release with other cost parameters.
Retune(time, lanes) ==
  /\ <<t, p>> # <<time, lanes>>
  /\ t' = time /\ p' = lanes
  /\ UNCHANGED <<own, row, hurt, call>>

\* The store cuts the text, so that it no longer parses or with a shorter hash,
\* changes a cost or changes its beginning.
Damaged(stored) ==
  {[stored EXCEPT !.well = FALSE], [stored EXCEPT !.kind = "other"]} \cup
  IF stored.kind = "phc"
  THEN {[stored EXCEPT !.t = n] : n \in Times \cup {0}} \cup
       {[stored EXCEPT !.p = n] : n \in Lanes \cup {0}} \cup
       {[stored EXCEPT !.len = n] : n \in CutLens}
  ELSE {}
Damage ==
  /\ row # NoRow /\ ~hurt
  /\ row' \in Damaged(row) /\ row' # row /\ hurt' = TRUE
  /\ UNCHANGED <<t, p, own, call>>

Login(c) ==
  \/ \E pw \in Passwords : Fetch(c, pw)
  \/ LoginVerifies(c) \/ LoginByChance(c) \/ LoginRehashes(c) \/ LoginRngFails(c)

Next ==
  \/ HashPassword
  \/ \E pw \in Passwords : HashPasswordBcrypt(pw)
  \/ \E c \in Procs : Login(c)
  \/ \E time \in Times, lanes \in Lanes : Retune(time, lanes)
  \/ Damage

Spec == Init /\ [][Next]_vars

-----------------------------------------------------------------------------
(* Properties.                                                             *)

\* The call has let the user in.
Succeeded(c) == call[c].pc = "done" /\ call[c].res \in {"true", "chance"}

\* Only the password the user registered logs in, against a bcrypt hash,
\* against the argon2id hash that replaced it, and while another login is
\* replacing it, damaged or not: also against a hash cut short, except that one
\* of a few bytes is matched by chance.
OnlyOwnPassword ==
  \A c \in Procs : Succeeded(c) => call[c].pw = own \/ call[c].res = "chance"

\* The registered password keeps verifying: no rehash by a concurrent login
\* and no retuning of argon2id, before or after it, locks the user out.
PasswordStays == row # NoRow /\ ~hurt => Verify(own, row) = "true"

\* Migration at login is complete: once a login has succeeded, however many
\* overlap and whatever they had fetched, no bcrypt hash is stored.
SuccessMigrates == (\E c \in Procs : Succeeded(c)) => row.kind # "bcrypt"
=============================================================================
