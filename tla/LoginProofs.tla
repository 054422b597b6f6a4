---------------------------- MODULE LoginProofs ----------------------------
(***************************************************************************)
(* Proofs about Login for every number of concurrent requests, every set   *)
(* of passwords and every history of releases.                             *)
(***************************************************************************)
EXTENDS Login, TLAPS

\* No two passwords agree in their first 72 bytes.  Without this bcrypt's
\* truncation lets one password log in as another.
DistinctHeads == \A a, b \in Passwords : a.head = b.head => a = b

PhcRows == [kind : {"phc", "other"}, well : BOOLEAN, t : Nat, p : Nat, len : Nat,
            hash : [pw : Passwords, t : Nat, p : Nat, len : Nat]]
BcryptRows == [kind : {"bcrypt", "other"}, well : BOOLEAN, digest : {pw.head : pw \in Passwords}]
Rows == PhcRows \cup BcryptRows

Fetched == [pc : {"verify", "rehash"}, pw : Passwords, hash : Rows]
Results == {"true", "chance", "false", "panic", "rngErr", "ErrInvalidPasswordHash",
            "unknown password hash format"}
Ended == [pc : {"done"}, pw : Passwords, res : Results]

Shape ==
  /\ t \in Nat \ {0} /\ p \in Nat \ {0}
  /\ own \in Passwords
  /\ row \in Rows \cup {NoRow}
  /\ hurt \in BOOLEAN
  /\ call \in [Procs -> {Idle} \cup Fetched \cup Ended]

\* Once a request has fetched the row there is one, and if what it found or
\* reports is not a bcrypt hash, none is stored any more.
MigratedInv(c) ==
  /\ call[c].pc # "idle" => row # NoRow
  /\ call[c].pc = "verify" /\ call[c].hash.kind # "bcrypt" => row.kind # "bcrypt"
  /\ call[c].pc = "rehash" => call[c].hash.kind = "bcrypt"
  /\ Succeeded(c) => row.kind # "bcrypt"

\* A hash, damaged or not, was made from the registered password.
MadeFromOwn(stored) ==
  /\ stored.kind = "bcrypt" => stored.digest = own.head
  /\ stored.kind = "phc" => stored.hash.pw = own

\* One that was not damaged verifies.
Sound(stored) ==
  /\ stored.kind \in {"phc", "bcrypt"} /\ stored.well
  /\ stored.kind = "phc" =>
       stored.t # 0 /\ stored.p # 0 /\ stored.hash = IDKey(own, stored.t, stored.p, stored.len)

RowInv == row # NoRow => MadeFromOwn(row) /\ (~hurt => Sound(row))

CallInv(c) ==
  /\ call[c].pc = "verify" => MadeFromOwn(call[c].hash)
  /\ call[c].pc = "rehash" => call[c].pw = own
  /\ call[c].pc = "done" /\ call[c].res = "true" => call[c].pw = own

MInv == Shape /\ \A c \in Procs : MigratedInv(c)
PInv == RowInv /\ \A c \in Procs : CallInv(c)

-----------------------------------------------------------------------------
(* Hashes                                                                  *)

\* A stored hash is not the absence of one.
LEMMA RowFacts ==
  ASSUME NEW stored \in Rows
  PROVE  stored # NoRow /\ stored.kind \in {"phc", "bcrypt", "other"}
<1>1. stored.kind \in {"phc", "bcrypt", "other"}
  BY DEF Rows, PhcRows, BcryptRows
<1>2. NoRow.kind = "none"
  BY DEF NoRow
<1> QED BY <1>1, <1>2

\* The kind tells the fields.
LEMMA RowFields ==
  ASSUME NEW stored \in Rows
  PROVE  /\ stored.kind = "phc" => stored \in PhcRows
         /\ stored.kind = "bcrypt" => stored \in BcryptRows
BY DEF Rows, PhcRows, BcryptRows

\* What a call of the two verifiers can answer; a match is one of a hash whose
\* beginning was recognised.
LEMMA VerifyResults ==
  ASSUME NEW pw, NEW stored
  PROVE  /\ Verify(pw, stored) \in Results
         /\ Verify(pw, stored) # "chance"
         /\ Verify(pw, stored) = "true" => stored.kind \in {"bcrypt", "phc"}
BY DEF Verify, VerifyPasswordBcrypt, VerifyPassword, Results

\* A new argon2id hash.
LEMMA PhcFacts ==
  ASSUME Shape, NEW pw \in Passwords
  PROVE  /\ formatPHC(pw) \in Rows
         /\ formatPHC(pw).kind = "phc" /\ formatPHC(pw).well
         /\ formatPHC(pw).t # 0 /\ formatPHC(pw).p # 0 /\ formatPHC(pw).hash.pw = pw
         /\ formatPHC(pw).hash =
              IDKey(pw, formatPHC(pw).t, formatPHC(pw).p, formatPHC(pw).len)
<1>1. t \in Nat \ {0} /\ p \in Nat \ {0}
  BY DEF Shape
<1> DEFINE hash == IDKey(pw, t, p, argonKeyLen)
<1>2. hash \in [pw : Passwords, t : Nat, p : Nat, len : Nat] /\ hash.pw = pw
  BY <1>1, LoginAssumption DEF IDKey
<1>3. formatPHC(pw) \in PhcRows
  BY <1>1, <1>2, LoginAssumption DEF formatPHC, PhcRows
<1>4. formatPHC(pw) = [kind |-> "phc", well |-> TRUE, t |-> t, p |-> p,
                       len |-> argonKeyLen, hash |-> hash]
  BY DEF formatPHC
<1> QED BY <1>1, <1>2, <1>3, <1>4 DEF Rows

\* A new bcrypt hash.
LEMMA BcryptFacts ==
  ASSUME NEW pw \in Passwords
  PROVE  /\ BcryptHash(pw) \in Rows
         /\ BcryptHash(pw).kind = "bcrypt" /\ BcryptHash(pw).well
         /\ BcryptHash(pw).digest = pw.head
BY DEF BcryptHash, Rows, BcryptRows

\* Damage leaves what a hash was made from, and never makes a bcrypt hash.
LEMMA DamageFacts ==
  ASSUME NEW stored \in Rows, NEW new \in Damaged(stored)
  PROVE  /\ new \in Rows
         /\ new.kind \in {stored.kind, "other"}
         /\ stored.kind = "bcrypt" => new.digest = stored.digest
         /\ stored.kind = "phc" => new.hash = stored.hash
<1>1. Times \cup {0} \subseteq Nat /\ Lanes \cup {0} \subseteq Nat /\ CutLens \subseteq Nat
  BY LoginAssumption
<1>2. CASE stored \in BcryptRows
  <2>1. stored.kind # "phc"
    BY <1>2 DEF BcryptRows
  <2>2. new = [stored EXCEPT !.well = FALSE] \/ new = [stored EXCEPT !.kind = "other"]
    BY <2>1 DEF Damaged
  <2> QED BY <1>2, <2>1, <2>2 DEF BcryptRows, Rows
<1>3. CASE stored \in PhcRows
  <2>1. \/ new = [stored EXCEPT !.well = FALSE] \/ new = [stored EXCEPT !.kind = "other"]
        \/ \E n \in Nat : new = [stored EXCEPT !.t = n]
        \/ \E n \in Nat : new = [stored EXCEPT !.p = n]
        \/ \E n \in Nat : new = [stored EXCEPT !.len = n]
    BY <1>1 DEF Damaged
  <2>2. new \in PhcRows /\ new.kind \in {stored.kind, "other"} /\ new.hash = stored.hash
    BY <1>3, <2>1 DEF PhcRows
  <2>3. stored.kind # "bcrypt"
    BY <1>3 DEF PhcRows
  <2> QED BY <2>2, <2>3 DEF Rows
<1> QED BY <1>2, <1>3 DEF Rows

\* A fetched or ended call is not idle, and one state is not another.
LEMMA CallFacts ==
  ASSUME Shape, NEW c \in Procs
  PROVE  /\ call[c].pc \in {"verify", "rehash"} => call[c] \in Fetched
         /\ call[c].pc = "done" => call[c] \in Ended
         /\ call[c].pc \in {"idle", "verify", "rehash", "done"}
<1>1. call[c] \in {Idle} \cup Fetched \cup Ended
  BY DEF Shape
<1> QED BY <1>1 DEF Idle, Fetched, Ended

\* One request moves and the others stay.
LEMMA CallMoves ==
  ASSUME Shape, NEW c \in Procs, NEW v \in {Idle} \cup Fetched \cup Ended,
         call' = [call EXCEPT ![c] = v]
  PROVE  /\ call' \in [Procs -> {Idle} \cup Fetched \cup Ended]
         /\ call'[c] = v
         /\ \A d \in Procs \ {c} : call'[d] = call[d]
BY DEF Shape

\* The record Done leaves.
LEMMA DoneFacts ==
  ASSUME Shape, NEW c \in Procs, NEW res \in Results, Done(c, res),
         call[c].pc \in {"verify", "rehash"}
  PROVE  /\ call' \in [Procs -> {Idle} \cup Fetched \cup Ended]
         /\ \A d \in Procs \ {c} : call'[d] = call[d]
         /\ call'[c].pc = "done" /\ call'[c].pw = call[c].pw /\ call'[c].res = res
<1> DEFINE v == [pc |-> "done", pw |-> call[c].pw, res |-> res]
<1>1. call[c].pw \in Passwords
  BY CallFacts DEF Fetched
<1>2. v \in Ended /\ v.pc = "done" /\ v.pw = call[c].pw /\ v.res = res
  BY <1>1 DEF Ended
<1>3. call' = [call EXCEPT ![c] = v]
  BY DEF Done
<1> HIDE DEF v
<1> QED BY <1>2, <1>3, CallMoves

-----------------------------------------------------------------------------
(* Migration                                                               *)

\* Every step keeps MInv.
LEMMA MStep ==
  ASSUME MInv, [Next]_vars
  PROVE  MInv'
<1>1. Shape /\ \A c \in Procs : MigratedInv(c)
  BY DEF MInv
<1>2. CASE HashPassword
  <2>1. /\ row = NoRow /\ row' = formatPHC(own) /\ own \in Passwords
        /\ UNCHANGED <<t, p, own, hurt, call>>
    BY <1>1, <1>2 DEF HashPassword, Shape
  <2>2. row' \in Rows /\ row'.kind = "phc" /\ row' # NoRow
    BY <1>1, <2>1, PhcFacts, RowFacts
  <2>3. Shape'
    BY <1>1, <2>1, <2>2 DEF Shape
  <2>4. ASSUME NEW c \in Procs PROVE MigratedInv(c)'
    BY <1>1, <2>1, <2>2 DEF MigratedInv, Succeeded
  <2> QED BY <2>3, <2>4 DEF MInv
<1>3. ASSUME NEW pw \in Passwords, HashPasswordBcrypt(pw) PROVE MInv'
  <2>1. /\ row = NoRow /\ own \in Passwords /\ UNCHANGED <<t, p, hurt, call>>
        /\ own' \in Passwords /\ (row' = NoRow \/ row' = BcryptHash(own))
    BY <1>1, <1>3 DEF HashPasswordBcrypt, Shape
  <2>2. row' \in Rows \cup {NoRow}
    BY <2>1, BcryptFacts
  <2>3. Shape'
    BY <1>1, <2>1, <2>2 DEF Shape
  <2>4. ASSUME NEW c \in Procs PROVE MigratedInv(c)'
    <3>1. call[c].pc = "idle" /\ call'[c] = call[c]
      BY <1>1, <2>1 DEF MigratedInv, Succeeded
    <3> QED BY <3>1 DEF MigratedInv, Succeeded
  <2> QED BY <2>3, <2>4 DEF MInv
<1>4. ASSUME NEW c \in Procs, NEW pw \in Passwords, Fetch(c, pw) PROVE MInv'
  <2> DEFINE v == [pc |-> "verify", pw |-> pw, hash |-> row]
  <2>1. row # NoRow /\ call' = [call EXCEPT ![c] = v] /\ UNCHANGED <<t, p, own, row, hurt>>
    BY <1>4 DEF Fetch
  <2>2. v \in Fetched /\ v.pc = "verify" /\ v.hash = row
    BY <1>1, <2>1 DEF Shape, Fetched
  <2> HIDE DEF v
  <2>3. /\ call' \in [Procs -> {Idle} \cup Fetched \cup Ended]
        /\ call'[c] = v /\ \A d \in Procs \ {c} : call'[d] = call[d]
    BY <1>1, <2>1, <2>2, CallMoves
  <2>4. Shape'
    BY <1>1, <2>1, <2>3 DEF Shape
  <2>5. ASSUME NEW d \in Procs PROVE MigratedInv(d)'
    BY <1>1, <2>1, <2>2, <2>3 DEF MigratedInv, Succeeded
  <2> QED BY <2>4, <2>5 DEF MInv
<1>5. ASSUME NEW c \in Procs, LoginVerifies(c) PROVE MInv'
  <2> DEFINE res == Verify(call[c].pw, call[c].hash)
  <2>1. call[c].pc = "verify" /\ UNCHANGED <<t, p, own, row, hurt>> /\ call[c] \in Fetched
    BY <1>1, <1>5, CallFacts DEF LoginVerifies
  <2>2. CASE res = "true" /\ call[c].hash.kind = "bcrypt"
    <3> DEFINE v == [call[c] EXCEPT !.pc = "rehash"]
    <3>1. call' = [call EXCEPT ![c] = v]
      BY <1>5, <2>2 DEF LoginVerifies
    <3>2. v \in Fetched /\ v.pc = "rehash" /\ v.hash = call[c].hash
      BY <2>1 DEF Fetched
    <3> HIDE DEF v
    <3>3. /\ call' \in [Procs -> {Idle} \cup Fetched \cup Ended]
          /\ call'[c] = v /\ \A d \in Procs \ {c} : call'[d] = call[d]
      BY <1>1, <3>1, <3>2, CallMoves
    <3>4. Shape'
      BY <1>1, <2>1, <3>3 DEF Shape
    <3>5. ASSUME NEW d \in Procs PROVE MigratedInv(d)'
      BY <1>1, <2>1, <2>2, <3>2, <3>3 DEF MigratedInv, Succeeded
    <3> QED BY <3>4, <3>5 DEF MInv
  <2>3. CASE ~(res = "true" /\ call[c].hash.kind = "bcrypt")
    <3>1. Done(c, res)
      BY <1>5, <2>3 DEF LoginVerifies
    <3>2. res \in Results /\ res # "chance"
      BY VerifyResults
    <3> HIDE DEF res
    <3>3. /\ call' \in [Procs -> {Idle} \cup Fetched \cup Ended]
          /\ \A d \in Procs \ {c} : call'[d] = call[d]
          /\ call'[c].pc = "done" /\ call'[c].res = res
      BY <1>1, <2>1, <3>1, <3>2, DoneFacts
    <3>4. Shape'
      BY <1>1, <2>1, <3>3 DEF Shape
    <3>5. ASSUME NEW d \in Procs PROVE MigratedInv(d)'
      BY <1>1, <2>1, <2>3, <3>2, <3>3 DEF MigratedInv, Succeeded
    <3> QED BY <3>4, <3>5 DEF MInv
  <2> QED BY <2>2, <2>3
<1>6. ASSUME NEW c \in Procs, LoginByChance(c) PROVE MInv'
  <2>1. /\ call[c].pc = "verify" /\ call[c].hash.kind = "phc" /\ Done(c, "chance")
        /\ UNCHANGED <<t, p, own, row, hurt>>
    BY <1>6 DEF LoginByChance
  <2>2. /\ call' \in [Procs -> {Idle} \cup Fetched \cup Ended]
        /\ \A d \in Procs \ {c} : call'[d] = call[d]
        /\ call'[c].pc = "done" /\ call'[c].res = "chance"
    BY <1>1, <2>1, DoneFacts DEF Results
  <2>3. Shape'
    BY <1>1, <2>1, <2>2 DEF Shape
  <2>4. ASSUME NEW d \in Procs PROVE MigratedInv(d)'
    BY <1>1, <2>1, <2>2 DEF MigratedInv, Succeeded
  <2> QED BY <2>3, <2>4 DEF MInv
<1>7. ASSUME NEW c \in Procs, LoginRehashes(c) PROVE MInv'
  <2>1. /\ call[c].pc = "rehash" /\ row' = formatPHC(call[c].pw) /\ hurt' = FALSE
        /\ Done(c, "true") /\ UNCHANGED <<t, p, own>>
    BY <1>7 DEF LoginRehashes
  <2>2. call[c].pw \in Passwords
    BY <1>1, <2>1, CallFacts DEF Fetched
  <2>3. row' \in Rows /\ row'.kind = "phc" /\ row' # NoRow
    BY <1>1, <2>1, <2>2, PhcFacts, RowFacts
  <2>4. /\ call' \in [Procs -> {Idle} \cup Fetched \cup Ended]
        /\ \A d \in Procs \ {c} : call'[d] = call[d]
        /\ call'[c].pc = "done"
    BY <1>1, <2>1, DoneFacts DEF Results
  <2>5. Shape'
    BY <1>1, <2>1, <2>3, <2>4 DEF Shape
  <2>6. ASSUME NEW d \in Procs PROVE MigratedInv(d)'
    BY <1>1, <2>1, <2>3, <2>4 DEF MigratedInv, Succeeded
  <2> QED BY <2>5, <2>6 DEF MInv
<1>8. ASSUME NEW c \in Procs, LoginRngFails(c) PROVE MInv'
  <2>1. call[c].pc = "rehash" /\ Done(c, "rngErr") /\ UNCHANGED <<t, p, own, row, hurt>>
    BY <1>8 DEF LoginRngFails
  <2>2. /\ call' \in [Procs -> {Idle} \cup Fetched \cup Ended]
        /\ \A d \in Procs \ {c} : call'[d] = call[d]
        /\ call'[c].pc = "done" /\ call'[c].res = "rngErr"
    BY <1>1, <2>1, DoneFacts DEF Results
  <2>3. Shape'
    BY <1>1, <2>1, <2>2 DEF Shape
  <2>4. ASSUME NEW d \in Procs PROVE MigratedInv(d)'
    BY <1>1, <2>1, <2>2 DEF MigratedInv, Succeeded
  <2> QED BY <2>3, <2>4 DEF MInv
<1>9. ASSUME NEW time \in Times, NEW lanes \in Lanes, Retune(time, lanes) PROVE MInv'
  <2>1. t' = time /\ p' = lanes /\ UNCHANGED <<own, row, hurt, call>>
    BY <1>9 DEF Retune
  <2>2. Shape'
    BY <1>1, <2>1, LoginAssumption DEF Shape
  <2>3. ASSUME NEW c \in Procs PROVE MigratedInv(c)'
    BY <1>1, <2>1 DEF MigratedInv, Succeeded
  <2> QED BY <2>2, <2>3 DEF MInv
<1>10. CASE Damage
  <2>1. /\ row # NoRow /\ row' \in Damaged(row) /\ hurt' = TRUE
        /\ UNCHANGED <<t, p, own, call>> /\ row \in Rows
    BY <1>1, <1>10 DEF Damage, Shape
  <2>2. row' \in Rows /\ row'.kind \in {row.kind, "other"} /\ row' # NoRow
    BY <2>1, DamageFacts, RowFacts
  <2>3. Shape'
    BY <1>1, <2>1, <2>2 DEF Shape
  <2>4. ASSUME NEW c \in Procs PROVE MigratedInv(c)'
    BY <1>1, <2>1, <2>2 DEF MigratedInv, Succeeded
  <2> QED BY <2>3, <2>4 DEF MInv
<1>11. CASE UNCHANGED vars
  BY <1>1, <1>11 DEF vars, MInv, Shape, MigratedInv, Succeeded
<1> QED BY <1>2, <1>3, <1>4, <1>5, <1>6, <1>7, <1>8, <1>9, <1>10, <1>11 DEF Next, Login

-----------------------------------------------------------------------------
(* Passwords                                                               *)

\* A match of a hash made from the registered password is that password.
LEMMA MatchIsOwn ==
  ASSUME DistinctHeads, own \in Passwords, NEW pw \in Passwords, NEW stored,
         MadeFromOwn(stored), Verify(pw, stored) = "true"
  PROVE  pw = own
<1>1. stored.kind \in {"bcrypt", "phc"}
  BY VerifyResults
<1>2. CASE stored.kind = "bcrypt"
  <2>1. VerifyPasswordBcrypt(pw, stored) = "true"
    BY <1>2 DEF Verify
  <2>2. pw.head = stored.digest
    BY <2>1 DEF VerifyPasswordBcrypt, BcryptHash
  <2> QED BY <1>2, <2>2 DEF MadeFromOwn, DistinctHeads
<1>3. CASE stored.kind = "phc"
  <2>1. VerifyPassword(pw, stored) = "true"
    BY <1>3 DEF Verify
  <2>2. IDKey(pw, stored.t, stored.p, stored.len) = stored.hash
    BY <2>1 DEF VerifyPassword
  <2>3. stored.hash.pw = pw
    BY <2>2 DEF IDKey
  <2> QED BY <1>3, <2>3 DEF MadeFromOwn
<1> QED BY <1>1, <1>2, <1>3

\* An undamaged hash of the registered password verifies it.
LEMMA OwnMatches ==
  ASSUME NEW stored, MadeFromOwn(stored), Sound(stored)
  PROVE  Verify(own, stored) = "true"
<1>1. CASE stored.kind = "bcrypt"
  <2>1. BcryptHash(own).digest = stored.digest /\ stored.well
    BY <1>1 DEF MadeFromOwn, Sound, BcryptHash
  <2>2. VerifyPasswordBcrypt(own, stored) = "true"
    BY <2>1 DEF VerifyPasswordBcrypt
  <2> QED BY <1>1, <2>2 DEF Verify
<1>2. CASE stored.kind = "phc"
  <2>1. VerifyPassword(own, stored) = "true"
    BY <1>2 DEF Sound, VerifyPassword, parsePHC
  <2> QED BY <1>2, <2>1 DEF Verify
<1> QED BY <1>1, <1>2 DEF Sound

\* Every step keeps PInv.
LEMMA PStep ==
  ASSUME DistinctHeads, MInv, PInv, [Next]_vars
  PROVE  PInv'
<1>1. /\ Shape /\ own \in Passwords /\ RowInv
      /\ \A c \in Procs : MigratedInv(c) /\ CallInv(c)
  BY DEF MInv, PInv, Shape
<1>2. CASE HashPassword
  <2>1. row = NoRow /\ row' = formatPHC(own) /\ UNCHANGED <<t, p, own, hurt, call>>
    BY <1>2 DEF HashPassword
  <2>2. RowInv'
    BY <1>1, <2>1, PhcFacts DEF RowInv, MadeFromOwn, Sound
  <2>3. ASSUME NEW c \in Procs PROVE CallInv(c)'
    BY <1>1, <2>1 DEF CallInv, MadeFromOwn
  <2> QED BY <2>2, <2>3 DEF PInv
<1>3. ASSUME NEW pw \in Passwords, HashPasswordBcrypt(pw) PROVE PInv'
  <2>1. /\ row = NoRow /\ UNCHANGED <<t, p, hurt, call>>
        /\ row' = NoRow \/ (row' = BcryptHash(own) /\ own' = own)
    BY <1>3 DEF HashPasswordBcrypt
  <2>2. RowInv'
    BY <1>1, <2>1, BcryptFacts DEF RowInv, MadeFromOwn, Sound
  <2>3. ASSUME NEW c \in Procs PROVE CallInv(c)'
    <3>1. call[c].pc = "idle" /\ call'[c] = call[c]
      BY <1>1, <2>1 DEF MigratedInv, Succeeded
    <3> QED BY <3>1 DEF CallInv
  <2> QED BY <2>2, <2>3 DEF PInv
<1>4. ASSUME NEW c \in Procs, NEW pw \in Passwords, Fetch(c, pw) PROVE PInv'
  <2> DEFINE v == [pc |-> "verify", pw |-> pw, hash |-> row]
  <2>1. row # NoRow /\ call' = [call EXCEPT ![c] = v] /\ UNCHANGED <<t, p, own, row, hurt>>
    BY <1>4 DEF Fetch
  <2>2. v \in Fetched /\ v.pc = "verify" /\ v.hash = row
    BY <1>1, <2>1 DEF Shape, Fetched
  <2> HIDE DEF v
  <2>3. call'[c] = v /\ \A d \in Procs \ {c} : call'[d] = call[d]
    BY <1>1, <2>1, <2>2, CallMoves
  <2>4. RowInv'
    BY <1>1, <2>1 DEF RowInv, MadeFromOwn, Sound
  <2>5. ASSUME NEW d \in Procs PROVE CallInv(d)'
    <3>1. CASE d = c
      BY <1>1, <2>1, <2>2, <2>3, <3>1 DEF CallInv, RowInv, MadeFromOwn
    <3>2. CASE d # c
      BY <1>1, <2>1, <2>3, <3>2 DEF CallInv, MadeFromOwn
    <3> QED BY <3>1, <3>2
  <2> QED BY <2>4, <2>5 DEF PInv
<1>5. ASSUME NEW c \in Procs, LoginVerifies(c) PROVE PInv'
  <2> DEFINE res == Verify(call[c].pw, call[c].hash)
  <2>1. call[c].pc = "verify" /\ UNCHANGED <<t, p, own, row, hurt>> /\ call[c] \in Fetched
    BY <1>1, <1>5, CallFacts DEF LoginVerifies
  <2>2. res = "true" => call[c].pw = own
    <3>1. call[c].pw \in Passwords /\ MadeFromOwn(call[c].hash)
      BY <1>1, <2>1 DEF Fetched, CallInv
    <3> QED BY <1>1, <3>1, MatchIsOwn
  <2>3. RowInv'
    BY <1>1, <2>1 DEF RowInv, MadeFromOwn, Sound
  <2>4. ASSUME NEW d \in Procs \ {c}, call'[d] = call[d] PROVE CallInv(d)'
    BY <1>1, <2>1, <2>4 DEF CallInv, MadeFromOwn
  <2>5. CASE res = "true" /\ call[c].hash.kind = "bcrypt"
    <3> DEFINE v == [call[c] EXCEPT !.pc = "rehash"]
    <3>1. call' = [call EXCEPT ![c] = v]
      BY <1>5, <2>5 DEF LoginVerifies
    <3>2. v \in Fetched /\ v.pc = "rehash" /\ v.pw = call[c].pw
      BY <2>1 DEF Fetched
    <3> HIDE DEF v
    <3>3. call'[c] = v /\ \A d \in Procs \ {c} : call'[d] = call[d]
      BY <1>1, <3>1, <3>2, CallMoves
    <3>4. CallInv(c)'
      BY <2>1, <2>2, <2>5, <3>2, <3>3 DEF CallInv
    <3> QED BY <2>3, <2>4, <3>3, <3>4 DEF PInv
  <2>6. CASE ~(res = "true" /\ call[c].hash.kind = "bcrypt")
    <3>1. Done(c, res)
      BY <1>5, <2>6 DEF LoginVerifies
    <3>2. res \in Results
      BY VerifyResults
    <3> HIDE DEF res
    <3>3. /\ \A d \in Procs \ {c} : call'[d] = call[d]
          /\ call'[c].pc = "done" /\ call'[c].res = res /\ call'[c].pw = call[c].pw
      BY <1>1, <2>1, <3>1, <3>2, DoneFacts
    <3>4. CallInv(c)'
      BY <2>1, <2>2, <3>3 DEF CallInv
    <3> QED BY <2>3, <2>4, <3>3, <3>4 DEF PInv
  <2> QED BY <2>5, <2>6
<1>6. ASSUME NEW c \in Procs, LoginByChance(c) PROVE PInv'
  <2>1. /\ call[c].pc = "verify" /\ Done(c, "chance")
        /\ UNCHANGED <<t, p, own, row, hurt>>
    BY <1>6 DEF LoginByChance
  <2>2. /\ \A d \in Procs \ {c} : call'[d] = call[d]
        /\ call'[c].pc = "done" /\ call'[c].res = "chance"
    BY <1>1, <2>1, DoneFacts DEF Results
  <2>3. RowInv'
    BY <1>1, <2>1 DEF RowInv, MadeFromOwn, Sound
  <2>4. ASSUME NEW d \in Procs PROVE CallInv(d)'
    BY <1>1, <2>1, <2>2 DEF CallInv, MadeFromOwn
  <2> QED BY <2>3, <2>4 DEF PInv
<1>7. ASSUME NEW c \in Procs, LoginRehashes(c) PROVE PInv'
  <2>1. /\ call[c].pc = "rehash" /\ row' = formatPHC(call[c].pw) /\ hurt' = FALSE
        /\ Done(c, "true") /\ UNCHANGED <<t, p, own>>
    BY <1>7 DEF LoginRehashes
  <2>2. call[c].pw = own
    BY <1>1, <2>1 DEF CallInv
  <2>3. RowInv'
    BY <1>1, <2>1, <2>2, PhcFacts DEF RowInv, MadeFromOwn, Sound
  <2>4. /\ \A d \in Procs \ {c} : call'[d] = call[d]
        /\ call'[c].pc = "done" /\ call'[c].pw = call[c].pw
    BY <1>1, <2>1, DoneFacts DEF Results
  <2>5. ASSUME NEW d \in Procs PROVE CallInv(d)'
    BY <1>1, <2>1, <2>2, <2>4 DEF CallInv, MadeFromOwn
  <2> QED BY <2>3, <2>5 DEF PInv
<1>8. ASSUME NEW c \in Procs, LoginRngFails(c) PROVE PInv'
  <2>1. call[c].pc = "rehash" /\ Done(c, "rngErr") /\ UNCHANGED <<t, p, own, row, hurt>>
    BY <1>8 DEF LoginRngFails
  <2>2. /\ \A d \in Procs \ {c} : call'[d] = call[d]
        /\ call'[c].pc = "done" /\ call'[c].res = "rngErr"
    BY <1>1, <2>1, DoneFacts DEF Results
  <2>3. RowInv'
    BY <1>1, <2>1 DEF RowInv, MadeFromOwn, Sound
  <2>4. ASSUME NEW d \in Procs PROVE CallInv(d)'
    BY <1>1, <2>1, <2>2 DEF CallInv, MadeFromOwn
  <2> QED BY <2>3, <2>4 DEF PInv
<1>9. ASSUME NEW time \in Times, NEW lanes \in Lanes, Retune(time, lanes) PROVE PInv'
  <2>1. UNCHANGED <<own, row, hurt, call>>
    BY <1>9 DEF Retune
  <2>2. RowInv'
    BY <1>1, <2>1 DEF RowInv, MadeFromOwn, Sound
  <2>3. ASSUME NEW c \in Procs PROVE CallInv(c)'
    BY <1>1, <2>1 DEF CallInv, MadeFromOwn
  <2> QED BY <2>2, <2>3 DEF PInv
<1>10. CASE Damage
  <2>1. /\ row # NoRow /\ row' \in Damaged(row) /\ hurt' = TRUE
        /\ UNCHANGED <<t, p, own, call>> /\ row \in Rows
    BY <1>1, <1>10 DEF Damage, Shape
  <2>2. /\ row'.kind \in {row.kind, "other"}
        /\ row.kind = "bcrypt" => row'.digest = row.digest
        /\ row.kind = "phc" => row'.hash = row.hash
    BY <2>1, DamageFacts
  <2>3. RowInv'
    BY <1>1, <2>1, <2>2 DEF RowInv, MadeFromOwn
  <2>4. ASSUME NEW c \in Procs PROVE CallInv(c)'
    BY <1>1, <2>1 DEF CallInv, MadeFromOwn
  <2> QED BY <2>3, <2>4 DEF PInv
<1>11. CASE UNCHANGED vars
  BY <1>1, <1>11 DEF vars, PInv, RowInv, CallInv, MadeFromOwn, Sound
<1> QED BY <1>2, <1>3, <1>4, <1>5, <1>6, <1>7, <1>8, <1>9, <1>10, <1>11 DEF Next, Login

-----------------------------------------------------------------------------
\* Nothing is stored and every request idle at first.
LEMMA InitInv == Init => MInv /\ PInv
<1> SUFFICES ASSUME Init PROVE MInv /\ PInv
  OBVIOUS
<1>1. /\ t \in Nat \ {0} /\ p \in Nat \ {0} /\ own \in Passwords /\ row = NoRow
      /\ hurt = FALSE /\ call = [c \in Procs |-> Idle]
  BY LoginAssumption DEF Init
<1>2. Shape
  BY <1>1 DEF Shape
<1>3. \A c \in Procs : call[c].pc = "idle"
  BY <1>1 DEF Idle
<1>4. MInv
  BY <1>2, <1>3 DEF MInv, MigratedInv, Succeeded
<1>5. PInv
  BY <1>1, <1>3 DEF PInv, RowInv, CallInv
<1> QED BY <1>4, <1>5

\* MInv holds in every reachable state.
LEMMA MInvariant == Spec => []MInv
<1>1. MInv /\ [Next]_vars => MInv'
  BY MStep
<1> QED BY <1>1, InitInv, PTL DEF Spec

\* PInv too, as long as bcrypt's truncation confuses no passwords.
LEMMA PInvariant == ASSUME DistinctHeads PROVE Spec => []PInv
<1>1. MInv /\ PInv /\ [Next]_vars => PInv'
  BY PStep
<1> QED BY <1>1, InitInv, MInvariant, PTL DEF Spec

\* loginAndRehash: once a login has succeeded no bcrypt hash is stored, however
\* many logins overlap, whatever they fetched and whatever the store damaged.
THEOREM LoginsMigrate == Spec => []SuccessMigrates
<1>1. MInv => SuccessMigrates
  BY DEF MInv, MigratedInv, SuccessMigrates
<1> QED BY <1>1, MInvariant, PTL

\* VerifyPassword and VerifyPasswordBcrypt: if no two passwords agree in their
\* first 72 bytes, only the registered one ever logs in, before, during and
\* after the migration.
THEOREM OnlyOwnLogsIn == ASSUME DistinctHeads PROVE Spec => []OnlyOwnPassword
<1>1. PInv => OnlyOwnPassword
  BY DEF PInv, CallInv, OnlyOwnPassword, Succeeded
<1> QED BY <1>1, PInvariant, PTL

\* HashPassword, HashPasswordBcrypt and the rehash: under the same condition no
\* step of another login and no new release ever locks the user out.
THEOREM NobodyIsLockedOut == ASSUME DistinctHeads PROVE Spec => []PasswordStays
<1>1. PInv => PasswordStays
  BY OwnMatches DEF PInv, RowInv, PasswordStays
<1> QED BY <1>1, PInvariant, PTL
=============================================================================
