---------------------------- MODULE TokensProofs ----------------------------
(***************************************************************************)
(* Proofs about Tokens for every set of keys, aads, ttls and users, every  *)
(* length of a second in ticks and every width of an integer that the      *)
(* clock's last tick and the longest ttl fit in.                           *)
(***************************************************************************)
EXTENDS Tokens, TLAPS

Kinds == {"token", "other", "link", "session", "csrf", "cookie"}
Blank == ""  \* a JSON string field that was not set
Objects == [u : Users \cup {Blank}, e : Int, i : Int, s : SessionIDs \cup {Blank}]
Plaintexts == [short : BOOLEAN, first8 : Int, rest : Payloads \cup Objects]
Ciphertexts == [form : Forms, ver : {V1}, key : Keys,
                aad : Purposes \cup {OtherAAD} \cup ExampleAADs, pt : Plaintexts]
TokenRec == [kind : Kinds, at : 0 .. MaxTime, ttl : Int,
             payload : Payloads \cup Users \cup SessionIDs, ct : Ciphertexts]
SeenRec == [err : {"none", "nil", "expired"}, backs : Nat]

Shape ==
  /\ now \in 0 .. MaxTime /\ backs \in Nat
  /\ tokens \in Seq(TokenRec)
  /\ seen \in Seq(SeenRec)
  /\ Len(seen) = Len(tokens)

\* What was sealed as one of a kind: its aad says which, and its plaintext
\* holds the times of its issue.
KindInv(t) ==
  /\ t.kind = "token" =>
       /\ t.ct.aad \in Purposes /\ t.payload \in Payloads
       /\ t.ct.pt = Wrapped(Unix(t.at + t.ttl), t.payload)
       /\ Unix(t.at + t.ttl) \in 0 .. Half - 1
  /\ t.kind = "other" => t.ct.aad = OtherAAD
  /\ t.kind = "link" =>
       /\ t.ct.aad \in LinkPurposes
       /\ t.ct.pt.rest.e = Unix(t.at + t.ttl)
  /\ t.kind = "session" =>
       /\ t.ct.aad = "session-v1"
       /\ t.ct.pt.rest.e = Unix(t.at + t.ttl)
       /\ t.ct.pt.rest.i = Unix(t.at)
  /\ t.kind = "csrf" =>
       /\ t.ct.aad = "csrf-v1"
       /\ t.ttl = csrfTTL * Sec
       /\ t.ct.pt.rest.i = Unix(t.at)
       /\ t.ct.pt.rest.s = t.payload
  /\ t.kind = "cookie" =>
       /\ t.ct.aad = "cookie-v1"
       /\ t.ct.pt.rest.e = Unix(t.at + t.ttl)

\* A ciphertext past its lifetime, as its verifier computes it.
Dead(t) ==
  IF t.kind = "csrf" THEN Unix(now) - Unix(t.at) > csrfTTL
  ELSE Unix(now) >= Unix(t.at + t.ttl)

\* What was found expired still is, unless the clock was set back.
SeenInv(n) ==
  /\ seen[n].backs <= backs
  /\ seen[n].err = "expired" /\ seen[n].backs = backs => Dead(tokens[n])

SealedInv ==
  /\ Shape
  /\ \A n \in 1 .. Len(tokens) : KindInv(tokens[n]) /\ SeenInv(n)

LastInv == AcceptedInTime /\ NotExpiredEarly /\ NoTokenConfusion /\ SkewTolerated

-----------------------------------------------------------------------------
StampRec == [text : {"digits", "signed", "none"}, val : Int]
MacRec == [key : Secrets, data : StampRec \X Bodies, len : Nat]
HeaderRec == [whole : BOOLEAN, ts : StampRec, hex : BOOLEAN, mac : MacRec]
HookRec == [at : 0 .. MaxTime, secret : Secrets, body : Bodies, hdr : HeaderRec]
HeardRec == [err : {"none", "nil", "outside tolerance"}, backs : Nat]

HookShape ==
  /\ hooks \in Seq(HookRec)
  /\ heard \in Seq(HeardRec)
  /\ Len(heard) = Len(hooks)

\* The header SignWebhook made.
MadeHeader(k) ==
  [whole |-> TRUE, ts |-> Stamp(Unix(k.at)), hex |-> TRUE,
   mac |-> Sign(k.secret, Signed(Stamp(Unix(k.at)), k.body))]

\* What was refused for its age still is, unless the clock was set back.
Stale(k) == Unix(now) > Unix(k.at) /\ Outside(Unix(k.at))
HookInv(n) ==
  /\ hooks[n].hdr = MadeHeader(hooks[n])
  /\ heard[n].backs <= backs
  /\ heard[n].err = "outside tolerance" /\ heard[n].backs = backs => Stale(hooks[n])

HooksInv ==
  /\ HookShape
  /\ \A n \in 1 .. Len(hooks) : HookInv(n)

IInv == SealedInv /\ LastInv /\ HooksInv /\ FreshAndGenuine /\ DeliveredInTime

-----------------------------------------------------------------------------
(* Seconds                                                                 *)

\* A time lies in the second it is rounded down to.
LEMMA UnixFacts ==
  ASSUME NEW a \in Int
  PROVE  /\ Unix(a) \in Int
         /\ Sec * Unix(a) <= a
         /\ a < Sec * Unix(a) + Sec
         /\ a >= 0 => Unix(a) >= 0
BY ClockAssumption DEF Unix

\* Multiples of a second: sums, and their order.
LEMMA SecFacts ==
  ASSUME NEW x \in Int, NEW y \in Int
  PROVE  /\ Sec * (x + y) = Sec * x + Sec * y
         /\ Sec * x \in Int /\ x * Sec = Sec * x
         /\ (x + 1) * Sec = Sec * x + Sec
         /\ x <= y => Sec * x <= Sec * y
         /\ Sec \in Nat \ {0}
BY ClockAssumption

\* Times whose seconds differ by at most d differ by less than d + 1 seconds.
LEMMA Within ==
  ASSUME NEW a \in Int, NEW b \in Int, NEW d \in Int, Unix(a) - Unix(b) <= d
  PROVE  a < b + d * Sec + Sec
<1> DEFINE x == Unix(a)
           y == Unix(b)
<1>1. x \in Int /\ y \in Int /\ a < Sec * x + Sec /\ Sec * y <= b
  BY UnixFacts
<1> HIDE DEF x, y
<1>2. x <= y + d /\ y + d \in Int
  BY <1>1 DEF x, y
<1>3. /\ Sec * x <= Sec * (y + d) /\ Sec * (y + d) = Sec * y + Sec * d
      /\ d * Sec = Sec * d
  BY <1>1, <1>2, SecFacts
<1>4. Sec * x \in Int /\ Sec * y \in Int /\ Sec * d \in Int /\ Sec \in Int
  BY <1>1, SecFacts
<1> QED BY <1>1, <1>3, <1>4

\* Times whose seconds differ by more than d differ by more than d seconds.
LEMMA Beyond ==
  ASSUME NEW a \in Int, NEW b \in Int, NEW d \in Int, Unix(a) - Unix(b) > d
  PROVE  a > b + d * Sec
<1> DEFINE x == Unix(a)
           y == Unix(b)
<1>1. x \in Int /\ y \in Int /\ Sec * x <= a /\ b < Sec * y + Sec
  BY UnixFacts
<1> HIDE DEF x, y
<1>2. (y + d) + 1 <= x /\ y + d \in Int /\ (y + d) + 1 \in Int
  BY <1>1 DEF x, y
<1>3. /\ Sec * ((y + d) + 1) <= Sec * x
      /\ Sec * ((y + d) + 1) = Sec * (y + d) + Sec
      /\ Sec * (y + d) = Sec * y + Sec * d
      /\ d * Sec = Sec * d
  <2>1. Sec * ((y + d) + 1) <= Sec * x
    BY <1>1, <1>2, SecFacts
  <2>2. ((y + d) + 1) * Sec = Sec * (y + d) + Sec /\ ((y + d) + 1) * Sec = Sec * ((y + d) + 1)
    BY <1>2, SecFacts
  <2> QED BY <1>1, <2>1, <2>2, SecFacts
<1>4. Sec * x \in Int /\ Sec * y \in Int /\ Sec * d \in Int /\ Sec \in Int
  BY <1>1, SecFacts
<1> QED BY <1>1, <1>3, <1>4

\* Rounding keeps the order of times.
LEMMA UnixOrder ==
  ASSUME NEW a \in Int, NEW b \in Int, a <= b
  PROVE  Unix(a) <= Unix(b)
<1>1. Unix(a) \in Int /\ Unix(b) \in Int
  BY UnixFacts
<1>2. ASSUME Unix(a) - Unix(b) > 0 PROVE FALSE
  <2>1. a > b + 0 * Sec
    BY <1>2, Beyond
  <2> QED BY <2>1, ClockAssumption
<1> QED BY <1>1, <1>2

\* An int64 value survives the conversion to uint64 and back.
LEMMA Int64Keeps ==
  ASSUME NEW x \in -Half .. Half - 1
  PROVE  ToInt64(ToUint64(x)) = x
BY ClockAssumption DEF ToInt64, ToUint64

-----------------------------------------------------------------------------
(* Sequences                                                               *)

\* A sequence with one more element keeps the ones it had.
LEMMA AppendFacts ==
  ASSUME NEW S, NEW s \in Seq(S), NEW e \in S
  PROVE  /\ Append(s, e) \in Seq(S)
         /\ Len(Append(s, e)) = Len(s) + 1
         /\ \A k \in 1 .. Len(s) : Append(s, e)[k] = s[k]
         /\ Append(s, e)[Len(s) + 1] = e
         /\ Len(s) \in Nat
         /\ \A k \in 1 .. Len(s) + 1 : k \in 1 .. Len(s) \/ k = Len(s) + 1
OBVIOUS

\* A sequence with one element replaced.
LEMMA ExceptFacts ==
  ASSUME NEW S, NEW s \in Seq(S), NEW n \in 1 .. Len(s), NEW e \in S
  PROVE  /\ [s EXCEPT ![n] = e] \in Seq(S)
         /\ Len([s EXCEPT ![n] = e]) = Len(s)
         /\ \A k \in 1 .. Len(s) : [s EXCEPT ![n] = e][k] = IF k = n THEN e ELSE s[k]
OBVIOUS

-----------------------------------------------------------------------------
(* Time-locked tokens and the tokens of the examples                       *)

\* The aad tells the kind of what a JSON reader can read, because the aads of
\* the examples are different, and what is not a token from a token where the
\* application's purpose is none of them.
LEMMA KindByAad ==
  ASSUME NEW t \in TokenRec, KindInv(t)
  PROVE  /\ t.kind = "token" => t.ct.pt.rest \in Payloads
         /\ t.ct.aad \in Purposes => t.kind = "token" \/ t.ct.aad \in ExampleAADs
         /\ t.kind # "token" =>
              /\ t.ct.aad \in LinkPurposes => t.kind = "link"
              /\ t.ct.aad = "session-v1" => t.kind = "session"
              /\ t.ct.aad = "csrf-v1" => t.kind = "csrf"
              /\ t.ct.aad = "cookie-v1" => t.kind = "cookie"
<1>1. t.kind \in Kinds
  BY DEF TokenRec
<1>2. OtherAAD \notin Purposes /\ \A x \in ExampleAADs : x # OtherAAD
  BY TimeLockAssumption, TokensAssumption
<1>3. /\ "session-v1" \in ExampleAADs /\ "csrf-v1" \in ExampleAADs
      /\ "cookie-v1" \in ExampleAADs /\ LinkPurposes \subseteq ExampleAADs
      /\ "session-v1" \notin LinkPurposes /\ "csrf-v1" \notin LinkPurposes
      /\ "cookie-v1" \notin LinkPurposes
  BY DEF ExampleAADs, LinkPurposes
<1>4. t.kind = "token" => t.ct.pt.rest \in Payloads
  BY DEF KindInv, Wrapped
<1> QED BY <1>1, <1>2, <1>3, <1>4 DEF KindInv, Kinds

\* A text that opens is the ciphertext itself, undamaged, and under its aad.
LEMMA OpensAs ==
  ASSUME SealedInv, NEW n \in 1 .. Len(tokens), NEW key, NEW form, NEW aad,
         OpenError(key, Text(n, form), aad) = "nil"
  PROVE  tokens[n].ct.aad = aad
<1>1. tokens[n] \in TokenRec
  BY DEF SealedInv, Shape
<1>2. tokens[n].ct \in Ciphertexts
  BY <1>1 DEF TokenRec
<1>3. Text(n, form).aad = tokens[n].ct.aad
  BY <1>2 DEF Text, Ciphertexts
<1> QED BY <1>3 DEF OpenError, GcmOpens

\* A changed form leaves the plaintext alone.
LEMMA TextPt ==
  ASSUME SealedInv, NEW n \in 1 .. Len(tokens), NEW form
  PROVE  Text(n, form).pt = tokens[n].ct.pt
<1>1. tokens[n] \in TokenRec
  BY DEF SealedInv, Shape
<1>2. tokens[n].ct \in Ciphertexts
  BY <1>1 DEF TokenRec
<1> QED BY <1>2 DEF Text, Ciphertexts

\* What ExpiryIsFinal says of one step.
ExpiryKept ==
  \A n \in 1 .. Len(seen) :
    seen[n].err = "expired" /\ seen'[n].err = "nil" => seen'[n].backs > seen[n].backs

\* Where nothing was verified there is nothing to say about the last check.
LEMMA NothingChecked ==
  ASSUME last'.err \notin {"nil", "expired", "future"}
  PROVE  LastInv'
BY DEF LastInv, AcceptedInTime, NotExpiredEarly, NoTokenConfusion, SkewTolerated, OwnKind

\* The entry Add makes.
Made(kind, payload, ttl, ct) ==
  [kind |-> kind, at |-> now, ttl |-> ttl, payload |-> payload, ct |-> ct]

\* Issuing: the new ciphertext is one of its kind and the others stay.
LEMMA AddInv ==
  ASSUME SealedInv, NEW kind, NEW payload, NEW ttl, NEW ct,
         Add(kind, payload, ttl, ct), UNCHANGED clockVars,
         Made(kind, payload, ttl, ct) \in TokenRec, KindInv(Made(kind, payload, ttl, ct))
  PROVE  SealedInv' /\ LastInv' /\ ExpiryKept
<1> DEFINE t == Made(kind, payload, ttl, ct)
           s == [err |-> "none", backs |-> backs]
<1>1. /\ tokens' = Append(tokens, t) /\ seen' = Append(seen, s) /\ last' = Nothing
  BY DEF Add, Made
<1>2. t \in TokenRec /\ KindInv(t)
  OBVIOUS
<1>3. Shape /\ now' = now /\ backs' = backs
  BY DEF SealedInv, clockVars
<1>4. s \in SeenRec /\ s.err = "none" /\ s.backs = backs
  BY <1>3 DEF Shape, SeenRec
<1> HIDE DEF t, s
<1>5. /\ tokens' \in Seq(TokenRec) /\ Len(tokens') = Len(tokens) + 1 /\ Len(tokens) \in Nat
      /\ \A k \in 1 .. Len(tokens) : tokens'[k] = tokens[k]
      /\ tokens'[Len(tokens) + 1] = t
      /\ \A k \in 1 .. Len(tokens) + 1 : k \in 1 .. Len(tokens) \/ k = Len(tokens) + 1
  BY <1>1, <1>2, <1>3, AppendFacts DEF Shape
<1>6. /\ seen' \in Seq(SeenRec) /\ Len(seen') = Len(tokens) + 1
      /\ \A k \in 1 .. Len(tokens) : seen'[k] = seen[k]
      /\ seen'[Len(tokens) + 1] = s
  BY <1>1, <1>3, <1>4, AppendFacts DEF Shape
<1>7. Shape'
  BY <1>3, <1>5, <1>6 DEF Shape
<1>8. ASSUME NEW k \in 1 .. Len(tokens) PROVE KindInv(tokens'[k]) /\ SeenInv(k)'
  <2>1. KindInv(tokens[k]) /\ SeenInv(k)
    BY DEF SealedInv
  <2> QED BY <1>3, <1>5, <1>6, <2>1 DEF SeenInv, Dead
<1>9. ASSUME NEW k, k = Len(tokens) + 1 PROVE KindInv(tokens'[k]) /\ SeenInv(k)'
  <2>1. tokens'[k] = t /\ seen'[k] = s
    BY <1>5, <1>6, <1>9
  <2>2. backs <= backs
    BY <1>3 DEF Shape
  <2> QED BY <1>2, <1>3, <1>4, <2>1, <2>2 DEF SeenInv
<1>10. SealedInv'
  BY <1>5, <1>7, <1>8, <1>9 DEF SealedInv
<1>11. LastInv'
  BY <1>1, NothingChecked DEF Nothing
<1>12. ExpiryKept
  BY <1>3, <1>6 DEF ExpiryKept, Shape
<1> QED BY <1>10, <1>11, <1>12

\* Verifying: if a verifier tells kinds apart, or is VerifyToken and the aad one
\* of the examples, and if of its own kind it accepts only what is alive and
\* calls expired only what is dead, the four properties hold of its answer.
LEMMA VerifiedInv ==
  ASSUME SealedInv, NEW kind \in Kinds \ {"other"}, NEW n \in 1 .. Len(tokens),
         NEW aad, NEW who, NEW err,
         Verified(kind, n, aad, who, err), UNCHANGED clockVars,
         err \in {"nil", "expired"} =>
           /\ tokens[n].kind = kind \/ (kind = "token" /\ aad \in ExampleAADs)
           /\ tokens[n].ct.aad = aad /\ tokens[n].payload = who
           /\ tokens[n].kind = kind => (err = "expired" <=> Dead(tokens[n])),
         kind = "session" =>
           /\ err = "future" => Unix(tokens[n].at) - Unix(now) > clockSkewLimit
           /\ err = "nil" => Unix(tokens[n].at) - Unix(now) <= clockSkewLimit
  PROVE  SealedInv' /\ LastInv' /\ ExpiryKept
<1> DEFINE t == tokens[n]
           s == [err |-> err, backs |-> backs]
           noted == err \in {"nil", "expired"} /\ kind = t.kind
<1>1. /\ last' = [n |-> n, as |-> kind, aad |-> aad, who |-> who, err |-> err]
      /\ seen' = IF noted THEN [seen EXCEPT ![n] = s] ELSE seen
      /\ tokens' = tokens
  BY DEF Verified
<1>2. /\ Shape /\ now' = now /\ backs' = backs /\ t \in TokenRec /\ KindInv(t)
  BY DEF SealedInv, Shape, clockVars
<1>3. now \in Int /\ t.at \in Int /\ t.ttl \in Int /\ backs \in Nat
  BY <1>2 DEF Shape, TokenRec
<1>0. csrfTTL \in Int /\ clockSkewLimit \in Int
  BY SessionsAssumption
<1>4. /\ Shape'
      /\ \A k \in 1 .. Len(tokens) :
           seen'[k] = IF noted /\ k = n THEN s ELSE seen[k]
  <2>1. CASE noted
    <3>1. s \in SeenRec /\ n \in 1 .. Len(seen) /\ seen \in Seq(SeenRec)
      BY <1>2, <1>3, <2>1 DEF SeenRec, Shape
    <3>2. /\ seen' \in Seq(SeenRec) /\ Len(seen') = Len(seen)
          /\ \A k \in 1 .. Len(seen) : seen'[k] = IF k = n THEN s ELSE seen[k]
      BY <1>1, <2>1, <3>1, ExceptFacts
    <3> QED BY <1>1, <1>2, <2>1, <3>2 DEF Shape
  <2>2. CASE ~noted
    BY <1>1, <1>2, <2>2 DEF Shape
  <2> QED BY <2>1, <2>2
<1>5. ASSUME NEW k \in 1 .. Len(tokens) PROVE KindInv(tokens'[k]) /\ SeenInv(k)'
  <2>1. KindInv(tokens[k]) /\ SeenInv(k)
    BY DEF SealedInv
  <2>2. CASE noted /\ k = n
    <3>1. seen'[k] = s /\ s.err = err /\ s.backs = backs
      BY <1>4, <2>2
    <3>2. backs <= backs /\ (Dead(tokens[n])' <=> Dead(tokens[n]))
      BY <1>1, <1>2, <1>3 DEF Dead
    <3> QED BY <1>1, <1>2, <2>1, <2>2, <3>1, <3>2 DEF SeenInv
  <2>3. CASE ~(noted /\ k = n)
    <3>1. seen'[k] = seen[k]
      BY <1>4, <2>3
    <3> QED BY <1>1, <1>2, <2>1, <3>1 DEF SeenInv, Dead
  <2> QED BY <2>2, <2>3
<1>6. SealedInv'
  BY <1>1, <1>4, <1>5 DEF SealedInv
<1>7. /\ last'.err = err /\ last'.as = kind /\ last'.n = n /\ last'.aad = aad
      /\ last'.who = who /\ Checked' = t
  BY <1>1 DEF Checked
<1>8. NoTokenConfusion'
  BY <1>7 DEF NoTokenConfusion, OwnKind
<1>9. AcceptedInTime'
  <2> SUFFICES ASSUME err = "nil", t.kind = kind PROVE now < t.at + Lifetime'
    BY <1>2, <1>7 DEF AcceptedInTime, OwnKind
  <2>1. ~Dead(t) /\ t.kind = kind
    OBVIOUS
  <2>2. CASE kind = "csrf"
    <3>1. Unix(now) - Unix(t.at) <= csrfTTL
      <4>1. Unix(now) \in Int /\ Unix(t.at) \in Int
        BY <1>3, UnixFacts
      <4> QED BY <2>1, <2>2, <4>1, SessionsAssumption DEF Dead
    <3>2. now < t.at + csrfTTL * Sec + Sec
      BY <1>0, <1>3, <3>1, Within, Zenon
    <3>3. Lifetime' = csrfTTL * Sec + Sec
      BY <1>2, <1>7, <2>1, <2>2 DEF Lifetime, KindInv
    <3>4. csrfTTL * Sec \in Int /\ Sec \in Int
      BY <1>0, ClockAssumption
    <3> HIDE DEF t
    <3> QED BY <1>3, <3>2, <3>3, <3>4
  <2>3. CASE kind # "csrf"
    <3>1. Unix(now) \in Int /\ Unix(t.at + t.ttl) \in Int /\ t.at + t.ttl \in Int
      <4>1. t.at + t.ttl \in Int
        BY <1>3
      <4> QED BY <1>3, <4>1, UnixFacts, Zenon
    <3>2. Unix(t.at + t.ttl) - Unix(now) > 0
      BY <2>1, <2>3, <3>1 DEF Dead
    <3>3. t.at + t.ttl > now + 0 * Sec /\ 0 * Sec = 0
      BY <1>3, <3>1, <3>2, Beyond, ClockAssumption
    <3>4. Lifetime' = t.ttl + 0
      BY <1>7, <2>1, <2>3 DEF Lifetime
    <3> QED BY <1>3, <3>3, <3>4
  <2> QED BY <2>2, <2>3
<1>10. NotExpiredEarly'
  <2> SUFFICES ASSUME err = "expired", t.kind = kind PROVE now + Sec > t.at + t.ttl
    BY <1>2, <1>7 DEF NotExpiredEarly, OwnKind
  <2>1. Dead(t) /\ t.kind = kind
    OBVIOUS
  <2>2. CASE kind = "csrf"
    <3>1. Unix(now) - Unix(t.at) > csrfTTL /\ t.ttl = csrfTTL * Sec
      BY <1>2, <2>1, <2>2 DEF Dead, KindInv
    <3>2. now > t.at + csrfTTL * Sec
      BY <1>0, <1>3, <3>1, Beyond, Zenon
    <3>3. csrfTTL * Sec \in Int /\ Sec \in Nat \ {0}
      BY <1>0, ClockAssumption
    <3> HIDE DEF t
    <3> QED BY <1>3, <3>1, <3>2, <3>3
  <2>3. CASE kind # "csrf"
    <3>1. Unix(now) \in Int /\ Unix(t.at + t.ttl) \in Int /\ t.at + t.ttl \in Int
      <4>1. t.at + t.ttl \in Int
        BY <1>3
      <4> QED BY <1>3, <4>1, UnixFacts, Zenon
    <3>2. Unix(t.at + t.ttl) - Unix(now) <= 0
      BY <2>1, <2>3, <3>1 DEF Dead
    <3>3. t.at + t.ttl < now + 0 * Sec + Sec /\ 0 * Sec = 0
      BY <1>3, <3>1, <3>2, Within, ClockAssumption
    <3> QED BY <1>3, <3>3, ClockAssumption
  <2> QED BY <2>2, <2>3
<1>11. SkewTolerated'
  <2> SUFFICES ASSUME kind = "session"
               PROVE  /\ err = "future" => t.at > now + clockSkewLimit * Sec
                      /\ err = "nil" => t.at < now + (clockSkewLimit + 1) * Sec
    BY <1>2, <1>7 DEF SkewTolerated
  <2>1. ASSUME err = "future" PROVE t.at > now + clockSkewLimit * Sec
    BY <1>0, <1>3, <2>1, Beyond, Zenon
  <2>2. ASSUME err = "nil" PROVE t.at < now + (clockSkewLimit + 1) * Sec
    <3>1. t.at < now + clockSkewLimit * Sec + Sec
      BY <1>0, <1>3, <2>2, Within, Zenon
    <3>2. (clockSkewLimit + 1) * Sec = clockSkewLimit * Sec + Sec /\ clockSkewLimit * Sec \in Int
      BY <1>0, ClockAssumption
    <3> HIDE DEF t
    <3> QED BY <1>3, <3>1, <3>2, ClockAssumption
  <2> QED BY <2>1, <2>2
<1>12. ASSUME NEW k \in 1 .. Len(seen), seen[k].err = "expired", seen'[k].err = "nil"
       PROVE  seen'[k].backs > seen[k].backs
  <2>1. k \in 1 .. Len(tokens) /\ SeenInv(k) /\ seen[k] \in SeenRec
    BY <1>2 DEF SealedInv, Shape
  <2>2. noted /\ err = "nil" /\ k = n /\ seen'[k] = s
    BY <1>4, <1>12, <2>1
  <2>3. ~Dead(tokens[k])
    BY <2>2
  <2>4. seen[k].backs # backs /\ seen[k].backs <= backs /\ seen[k].backs \in Nat
    BY <1>12, <2>1, <2>3 DEF SeenInv, SeenRec
  <2> QED BY <1>3, <2>2, <2>4
<1> QED BY <1>6, <1>8, <1>9, <1>10, <1>11, <1>12 DEF LastInv, ExpiryKept

\* The entry Add makes for a ciphertext just sealed, and its fields.
LEMMA MadeFacts ==
  ASSUME Shape, NEW kind \in Kinds, NEW payload \in Payloads \cup Users \cup SessionIDs,
         NEW ttl \in Int, NEW key \in Keys, NEW pt \in Plaintexts,
         NEW aad \in Purposes \cup {OtherAAD} \cup ExampleAADs
  PROVE  LET t == Made(kind, payload, ttl, Sealed(key, pt, aad))
         IN /\ t \in TokenRec
            /\ t.kind = kind /\ t.at = now /\ t.ttl = ttl /\ t.payload = payload
            /\ t.ct.aad = aad /\ t.ct.pt = pt
<1> DEFINE c == Sealed(key, pt, aad)
<1>1. c \in Ciphertexts /\ c.aad = aad /\ c.pt = pt
  BY DEF Sealed, Ciphertexts, Forms
<1> HIDE DEF c
<1>2. Made(kind, payload, ttl, c) \in TokenRec
  BY <1>1 DEF Made, TokenRec, Shape
<1>3. LET t == Made(kind, payload, ttl, c)
      IN /\ t.kind = kind /\ t.at = now /\ t.ttl = ttl /\ t.payload = payload
         /\ t.ct = c
  BY DEF Made
<1> QED BY <1>1, <1>2, <1>3 DEF c

\* A JSON object is a plaintext with the fields it was made of.
LEMMA ObjectFacts ==
  ASSUME NEW u \in Users \cup {Blank}, NEW e \in Int, NEW i \in Int, NEW s \in SessionIDs \cup {Blank}
  PROVE  /\ Object(u, e, i, s) \in Plaintexts
         /\ Object(u, e, i, s).rest.e = e
         /\ Object(u, e, i, s).rest.i = i
         /\ Object(u, e, i, s).rest.s = s
<1>1. [u |-> u, e |-> e, i |-> i, s |-> s] \in Objects
  BY DEF Objects
<1>2. Half - 1 \in Int
  BY ClockAssumption
<1> QED BY <1>1, <1>2 DEF Object, Plaintexts

\* The expiry of a token with a positive ttl is a positive int64.
LEMMA ExpiryFits ==
  ASSUME Shape, NEW ttl \in Ttls, ttl > 0
  PROVE  Unix(now + ttl) \in 0 .. Half - 1
<1>1. now \in 0 .. MaxTime /\ ttl \in Int /\ MaxTime \in Nat /\ Half \in Nat
  BY TimeLockAssumption, ClockAssumption DEF Shape
<1>2. now + ttl \in Int /\ MaxTime + ttl \in Int /\ now + ttl <= MaxTime + ttl /\ now + ttl >= 0
  BY <1>1
<1>3. Unix(now + ttl) \in Int /\ Unix(MaxTime + ttl) \in Int /\ Unix(now + ttl) >= 0
  BY <1>2, UnixFacts, Zenon
<1>4. Unix(now + ttl) <= Unix(MaxTime + ttl)
  BY <1>2, UnixOrder, Zenon
<1>5. Unix(MaxTime + ttl) < Half
  BY TimeLockAssumption DEF Unix
<1> QED BY <1>1, <1>3, <1>4, <1>5

\* Whatever is issued keeps the invariant.
LEMMA SealsInv ==
  ASSUME SealedInv, Seals, UNCHANGED clockVars
  PROVE  SealedInv' /\ LastInv' /\ ExpiryKept
<1>1. Shape
  BY DEF SealedInv
<1>2. /\ \A ttl \in Ttls : ttl \in Int /\ now + ttl \in Int /\ Unix(now + ttl) \in Int
      /\ now \in Int /\ Unix(now) \in Int
  <2>1. now \in Int /\ \A ttl \in Ttls : ttl \in Int
    BY <1>1, TimeLockAssumption DEF Shape
  <2>2. \A ttl \in Ttls : now + ttl \in Int
    BY <2>1
  <2> QED BY <2>1, <2>2, UnixFacts, Zenon
<1>3. ASSUME NEW key \in Keys \cup {BadKey}, NEW payload \in Payloads, NEW ttl \in Ttls,
             NEW aad \in Purposes, IssueToken(key, payload, ttl, aad)
      PROVE  SealedInv' /\ LastInv' /\ ExpiryKept
  <2> DEFINE pt == Wrapped(Unix(now + ttl), payload)
  <2>1. /\ ttl > 0 /\ key \in Keys
        /\ Add("token", payload, ttl, Sealed(key, pt, aad))
    BY <1>3 DEF IssueToken, Expiry
  <2>2. Unix(now + ttl) \in 0 .. Half - 1
    BY <1>1, <2>1, ExpiryFits
  <2>3. pt \in Plaintexts
    <3>1. ToUint64(Unix(now + ttl)) \in Int
      BY <1>2, ClockAssumption DEF ToUint64
    <3> QED BY <3>1 DEF Wrapped, Plaintexts
  <2> HIDE DEF pt
  <2> DEFINE t == Made("token", payload, ttl, Sealed(key, pt, aad))
  <2>4. /\ t \in TokenRec /\ t.kind = "token" /\ t.at = now /\ t.ttl = ttl
        /\ t.payload = payload /\ t.ct.aad = aad /\ t.ct.pt = pt
    BY <1>1, <1>2, <2>1, <2>3, MadeFacts DEF Kinds
  <2> HIDE DEF t
  <2>5. KindInv(t)
    BY <2>2, <2>4 DEF KindInv, pt
  <2> QED BY <2>1, <2>4, <2>5, AddInv DEF t
<1>4. ASSUME NEW key \in Keys, NEW pt \in OtherPlaintexts, SealOther(key, pt)
      PROVE  SealedInv' /\ LastInv' /\ ExpiryKept
  <2>1. Add("other", pt.rest, 0, Sealed(key, pt, OtherAAD))
    BY <1>4 DEF SealOther
  <2>2. pt \in Plaintexts /\ pt.rest \in Payloads
    BY ClockAssumption DEF OtherPlaintexts, Plaintexts
  <2> DEFINE t == Made("other", pt.rest, 0, Sealed(key, pt, OtherAAD))
  <2>3. t \in TokenRec /\ t.kind = "other" /\ t.ct.aad = OtherAAD
    BY <1>1, <2>2, MadeFacts DEF Kinds
  <2> HIDE DEF t
  <2>4. KindInv(t)
    BY <2>3 DEF KindInv
  <2> QED BY <2>1, <2>3, <2>4, AddInv DEF t
<1>5. ASSUME NEW key \in Keys, NEW kind \in {"link", "cookie"}, NEW user \in Users,
             NEW aad \in ExampleAADs, NEW ttl \in Ttls,
             kind = "link" => aad \in LinkPurposes, kind = "cookie" => aad = "cookie-v1",
             Add(kind, user, ttl, Sealed(key, Object(user, Expiry(ttl), 0, Blank), aad))
      PROVE  SealedInv' /\ LastInv' /\ ExpiryKept
  <2> DEFINE pt == Object(user, Expiry(ttl), 0, Blank)
             t == Made(kind, user, ttl, Sealed(key, pt, aad))
  <2>1. Expiry(ttl) = Unix(now + ttl)
    BY DEF Expiry
  <2>2. pt \in Plaintexts /\ pt.rest.e = Unix(now + ttl)
    <3>1. 0 \in Int /\ Blank \in SessionIDs \cup {Blank} /\ user \in Users \cup {Blank}
      OBVIOUS
    <3>2. Unix(now + ttl) \in Int
      BY <1>2
    <3> QED BY <2>1, <3>1, <3>2, ObjectFacts
  <2> HIDE DEF pt
  <2>3. /\ t \in TokenRec /\ t.kind = kind /\ t.at = now /\ t.ttl = ttl
        /\ t.payload = user /\ t.ct.aad = aad /\ t.ct.pt = pt
    BY <1>1, <1>2, <2>2, MadeFacts DEF Kinds
  <2>4. Add(kind, user, ttl, Sealed(key, pt, aad))
    BY <1>5 DEF pt
  <2> HIDE DEF t
  <2>5. KindInv(t)
    BY <1>5, <2>2, <2>3 DEF KindInv
  <2> QED BY <2>3, <2>4, <2>5, AddInv DEF t
<1>6. ASSUME NEW key \in Keys, NEW user \in Users, IssueSession(key, user)
      PROVE  SealedInv' /\ LastInv' /\ ExpiryKept
  <2> DEFINE pt == Object(user, Unix(now + sessionTTL), Unix(now), Blank)
             t == Made("session", user, sessionTTL, Sealed(key, pt, "session-v1"))
  <2>1. Add("session", user, sessionTTL, Sealed(key, pt, "session-v1"))
    BY <1>6, Zenon DEF IssueSession, Expiry, Blank
  <2>2. sessionTTL \in Int /\ Unix(now + sessionTTL) \in Int
    <3>1. sessionTTL \in Int /\ now + sessionTTL \in Int
      BY <1>2, SessionsAssumption
    <3> QED BY <3>1, UnixFacts
  <2>3. pt \in Plaintexts /\ pt.rest.e = Unix(now + sessionTTL) /\ pt.rest.i = Unix(now)
    <3>1. Blank \in SessionIDs \cup {Blank} /\ user \in Users \cup {Blank}
      OBVIOUS
    <3>2. Unix(now) \in Int
      BY <1>2
    <3> QED BY <2>2, <3>1, <3>2, ObjectFacts
  <2> HIDE DEF pt
  <2>4. /\ t \in TokenRec /\ t.kind = "session" /\ t.at = now /\ t.ttl = sessionTTL
        /\ t.ct.aad = "session-v1" /\ t.ct.pt = pt
    BY <1>1, <2>2, <2>3, MadeFacts DEF Kinds, ExampleAADs
  <2> HIDE DEF t
  <2>5. KindInv(t)
    BY <2>3, <2>4 DEF KindInv
  <2> QED BY <2>1, <2>4, <2>5, AddInv DEF t
<1>7. ASSUME NEW key \in Keys, NEW session \in SessionIDs, IssueCSRF(key, session)
      PROVE  SealedInv' /\ LastInv' /\ ExpiryKept
  <2> DEFINE pt == Object(Blank, 0, Unix(now), session)
             t == Made("csrf", session, csrfTTL * Sec, Sealed(key, pt, "csrf-v1"))
  <2>1. Add("csrf", session, csrfTTL * Sec, Sealed(key, pt, "csrf-v1"))
    BY <1>7, Zenon DEF IssueCSRF, Blank
  <2>2. csrfTTL * Sec \in Int
    BY ClockAssumption, SessionsAssumption
  <2>3. pt \in Plaintexts /\ pt.rest.s = session /\ pt.rest.i = Unix(now)
    <3>1. 0 \in Int /\ Blank \in Users \cup {Blank} /\ session \in SessionIDs \cup {Blank}
      OBVIOUS
    <3>2. Unix(now) \in Int
      BY <1>2
    <3> QED BY <3>1, <3>2, ObjectFacts
  <2> HIDE DEF pt
  <2>4. /\ t \in TokenRec /\ t.kind = "csrf" /\ t.at = now /\ t.ttl = csrfTTL * Sec
        /\ t.payload = session /\ t.ct.aad = "csrf-v1" /\ t.ct.pt = pt
    BY <1>1, <2>2, <2>3, MadeFacts DEF Kinds, ExampleAADs
  <2> HIDE DEF t
  <2>5. KindInv(t)
    BY <2>3, <2>4 DEF KindInv
  <2> QED BY <2>1, <2>4, <2>5, AddInv DEF t
<1>8. ASSUME NEW key \in Keys, Issue(key) PROVE SealedInv' /\ LastInv' /\ ExpiryKept
  <2>1. ASSUME NEW user \in Users, NEW purpose \in LinkPurposes, NEW ttl \in Ttls,
               issueLink(key, user, purpose, ttl)
        PROVE  SealedInv' /\ LastInv' /\ ExpiryKept
    <3>1. purpose \in ExampleAADs
      BY DEF ExampleAADs
    <3>2. Add("link", user, ttl, Sealed(key, Object(user, Expiry(ttl), 0, Blank), purpose))
      BY <2>1, Zenon DEF issueLink, Blank
    <3> QED BY <1>5, <3>1, <3>2
  <2>2. ASSUME NEW user \in Users, NEW ttl \in Ttls, setSession(key, user, ttl)
        PROVE  SealedInv' /\ LastInv' /\ ExpiryKept
    <3>1. "cookie-v1" \in ExampleAADs
      BY DEF ExampleAADs
    <3>2. Add("cookie", user, ttl, Sealed(key, Object(user, Expiry(ttl), 0, Blank), "cookie-v1"))
      BY <2>2, Zenon DEF setSession, CookieAAD, Blank
    <3> QED BY <1>5, <3>1, <3>2
  <2> QED BY <1>6, <1>7, <1>8, <2>1, <2>2 DEF Issue
<1> QED BY <1>3, <1>4, <1>8 DEF Seals

\* VerifyToken: the expiry it reads back is the one that was written.
LEMMA VerifyTokenInv ==
  ASSUME SealedInv, UNCHANGED clockVars, NEW key, NEW n \in 1 .. Len(tokens), NEW form,
         NEW aad \in Purposes, VerifyToken(key, n, form, aad)
  PROVE  SealedInv' /\ LastInv' /\ ExpiryKept
<1> DEFINE ct == Text(n, form)
           err == VerifyError(key, ct, aad)
           t == tokens[n]
<1>1. Verified("token", n, aad, t.payload, err)
  BY DEF VerifyToken
<1>2. t \in TokenRec /\ KindInv(t) /\ ct.pt = t.ct.pt
  BY TextPt DEF SealedInv, Shape
<1>3. ASSUME err \in {"nil", "expired"}
      PROVE  /\ t.kind = "token" \/ aad \in ExampleAADs
             /\ t.ct.aad = aad
             /\ t.kind = "token" => (err = "expired" <=> Dead(t))
  <2>1. OpenError(key, ct, aad) = "nil"
    <3>1. OpenError(key, ct, aad) # "expired"
      BY DEF OpenError
    <3> QED BY <1>3, <3>1 DEF VerifyError
  <2>2. err = IF ct.pt.short THEN "ErrInvalidCiphertext"
              ELSE IF Expired(ToInt64(ct.pt.first8)) THEN "expired" ELSE "nil"
    BY <2>1 DEF VerifyError
  <2>3. t.ct.aad = aad
    BY <2>1, OpensAs
  <2>4. t.kind = "token" \/ aad \in ExampleAADs
    BY <1>2, <2>3, KindByAad
  <2> SUFFICES ASSUME t.kind = "token" PROVE err = "expired" <=> Dead(t)
    BY <2>3, <2>4
  <2>5. /\ ct.pt.first8 = ToUint64(Unix(t.at + t.ttl)) /\ ~ct.pt.short
        /\ Unix(t.at + t.ttl) \in 0 .. Half - 1
    BY <1>2 DEF KindInv, Wrapped
  <2>6. Unix(t.at + t.ttl) \in -Half .. Half - 1
    BY <2>5, ClockAssumption
  <2>7. ToInt64(ct.pt.first8) = Unix(t.at + t.ttl)
    BY <2>5, <2>6, Int64Keeps
  <2> HIDE DEF t, ct, err
  <2>8. (err = "expired" <=> Unix(now) >= Unix(t.at + t.ttl))
    BY <2>2, <2>5, <2>7 DEF Expired
  <2>9. t.kind = "token"
    BY DEF t
  <2> QED BY <2>8, <2>9 DEF Dead
<1> QED BY <1>1, <1>3, VerifiedInv DEF Kinds

\* A verifier of an example token whose expiry is in the object.
LEMMA ReadExpiryInv ==
  ASSUME SealedInv, UNCHANGED clockVars, NEW key, NEW n \in 1 .. Len(tokens), NEW form,
         NEW kind \in {"link", "session", "cookie"}, NEW aad,
         kind = "link" => aad \in LinkPurposes, kind = "session" => aad = "session-v1",
         kind = "cookie" => aad = "cookie-v1",
         Verified(kind, n, aad, tokens[n].payload,
           IF ~Readable(key, Text(n, form), aad) THEN "invalid"
           ELSE IF Expired(Text(n, form).pt.rest.e) THEN "expired"
           ELSE IF kind = "session" /\ InFuture(Text(n, form).pt.rest.i) THEN "future"
           ELSE "nil")
  PROVE  SealedInv' /\ LastInv' /\ ExpiryKept
<1> DEFINE ct == Text(n, form)
           t == tokens[n]
           err == IF ~Readable(key, ct, aad) THEN "invalid"
                  ELSE IF Expired(ct.pt.rest.e) THEN "expired"
                  ELSE IF kind = "session" /\ InFuture(ct.pt.rest.i) THEN "future"
                  ELSE "nil"
<1>1. Verified(kind, n, aad, t.payload, err)
  OBVIOUS
<1>2. t \in TokenRec /\ KindInv(t) /\ ct.pt = t.ct.pt /\ now \in Int
  BY TextPt DEF SealedInv, Shape
<1>3. ASSUME Readable(key, ct, aad)
      PROVE  /\ t.kind = kind /\ t.ct.aad = aad
             /\ ct.pt.rest.e = Unix(t.at + t.ttl)
             /\ kind = "session" => ct.pt.rest.i = Unix(t.at)
  <2>1. t.ct.aad = aad
    BY <1>3, OpensAs DEF Readable
  <2>2. t.kind = kind
    <3>1. t.kind # "token"
      BY <1>2, <1>3, KindByAad DEF Readable
    <3> QED BY <1>2, <2>1, <3>1, KindByAad
  <2> QED BY <1>2, <2>1, <2>2 DEF KindInv
<1> HIDE DEF t, ct
<1>4. ASSUME err \in {"nil", "expired"}
      PROVE  t.kind = kind /\ t.ct.aad = aad /\ (err = "expired" <=> Dead(t))
  <2>1. Readable(key, ct, aad)
    BY <1>4
  <2>2. err = "expired" <=> Unix(now) >= Unix(t.at + t.ttl)
    BY <1>3, <1>4, <2>1 DEF Expired
  <2> QED BY <1>3, <2>1, <2>2 DEF Dead
<1>5. ASSUME kind = "session"
      PROVE  /\ err = "future" => Unix(t.at) - Unix(now) > clockSkewLimit
             /\ err = "nil" => Unix(t.at) - Unix(now) <= clockSkewLimit
  <2>1. Unix(t.at) \in Int /\ Unix(now) \in Int /\ clockSkewLimit \in Int
    <3>1. t.at \in Int
      BY <1>2 DEF TokenRec
    <3>2. Unix(t.at) \in Int /\ Unix(now) \in Int
      BY <1>2, <3>1, UnixFacts, Zenon
    <3> QED BY <3>2, SessionsAssumption
  <2>2. err \in {"future", "nil"} => Readable(key, ct, aad)
    OBVIOUS
  <2>3. err = "future" => Unix(t.at) > Unix(now) + clockSkewLimit
    BY <1>3, <1>5, <2>2 DEF InFuture
  <2>4. err = "nil" => ~(Unix(t.at) > Unix(now) + clockSkewLimit)
    BY <1>3, <1>5, <2>2 DEF InFuture
  <2> HIDE DEF err
  <2> QED BY <2>1, <2>3, <2>4
<1> HIDE DEF err
<1> QED BY <1>1, <1>4, <1>5, VerifiedInv DEF Kinds, t

\* VerifyCSRF: the session is the one the token was made for.
LEMMA VerifyCSRFInv ==
  ASSUME SealedInv, UNCHANGED clockVars, NEW key, NEW n \in 1 .. Len(tokens), NEW form,
         NEW session, VerifyCSRF(key, n, form, session)
  PROVE  SealedInv' /\ LastInv' /\ ExpiryKept
<1> DEFINE ct == Text(n, form)
           t == tokens[n]
           err == IF ~Readable(key, ct, "csrf-v1") THEN "invalid"
                  ELSE IF ct.pt.rest.s # session THEN "foreign"
                  ELSE IF Unix(now) - ct.pt.rest.i > csrfTTL THEN "expired" ELSE "nil"
<1>1. Verified("csrf", n, "csrf-v1", session, err)
  BY DEF VerifyCSRF
<1>2. t \in TokenRec /\ KindInv(t) /\ ct.pt = t.ct.pt
  BY TextPt DEF SealedInv, Shape
<1>3. ASSUME Readable(key, ct, "csrf-v1")
      PROVE  /\ t.kind = "csrf" /\ t.ct.aad = "csrf-v1"
             /\ ct.pt.rest.i = Unix(t.at) /\ ct.pt.rest.s = t.payload
  <2>1. t.ct.aad = "csrf-v1"
    BY <1>3, OpensAs DEF Readable
  <2>2. t.kind = "csrf"
    <3>1. t.kind # "token"
      BY <1>2, <1>3, KindByAad DEF Readable
    <3> QED BY <1>2, <2>1, <3>1, KindByAad
  <2> QED BY <1>2, <2>1, <2>2 DEF KindInv
<1> HIDE DEF t, ct
<1>4. ASSUME err \in {"nil", "expired"}
      PROVE  /\ t.kind = "csrf" /\ t.ct.aad = "csrf-v1" /\ t.payload = session
             /\ err = "expired" <=> Dead(t)
  <2>1. Readable(key, ct, "csrf-v1") /\ ct.pt.rest.s = session
    BY <1>4
  <2>2. err = "expired" <=> Unix(now) - Unix(t.at) > csrfTTL
    BY <1>3, <1>4, <2>1
  <2> QED BY <1>3, <2>1, <2>2 DEF Dead
<1> HIDE DEF err
<1> QED BY <1>1, <1>4, VerifiedInv DEF Kinds, t

\* Whatever is presented to a verifier, the invariant is kept.
LEMMA OpensInv ==
  ASSUME SealedInv, Opens, UNCHANGED clockVars
  PROVE  SealedInv' /\ LastInv' /\ ExpiryKept
<1>1. ASSUME NEW key \in Keys, NEW n \in 1 .. Len(tokens), NEW form \in Forms,
             Present(key, n, form)
      PROVE  SealedInv' /\ LastInv' /\ ExpiryKept
  <2>1. ASSUME NEW purpose \in LinkPurposes, verifyLink(key, n, form, purpose)
        PROVE  SealedInv' /\ LastInv' /\ ExpiryKept
    BY <2>1, ReadExpiryInv DEF verifyLink
  <2>2. CASE OpenSession(key, n, form)
    BY <2>2, ReadExpiryInv DEF OpenSession
  <2>3. CASE getSession(key, n, form)
    BY <2>3, ReadExpiryInv DEF getSession, CookieAAD
  <2> QED BY <1>1, <2>1, <2>2, <2>3, VerifyCSRFInv DEF Present
<1>2. CASE noSession
  <2>1. /\ last'.err = "no session" /\ tokens' = tokens /\ seen' = seen
        /\ now' = now /\ backs' = backs
    BY <1>2 DEF noSession, Nothing, clockVars
  <2>2. LastInv'
    BY <2>1, NothingChecked
  <2>3. SealedInv'
    BY <2>1 DEF SealedInv, Shape, SeenInv, Dead
  <2> QED BY <2>1, <2>2, <2>3 DEF ExpiryKept
<1> QED BY <1>1, <1>2, VerifyTokenInv DEF Opens

\* Time passes, or is corrected: what was dead stays dead unless it was.
LEMMA TimeSealedInv ==
  ASSUME SealedInv, Time
  PROVE  SealedInv' /\ LastInv' /\ ExpiryKept
<1>1. last' = Nothing /\ tokens' = tokens /\ seen' = seen
  BY DEF Time
<1>2. LastInv'
  BY <1>1, NothingChecked DEF Nothing
<1>3. Shape
  BY DEF SealedInv
<1>4. ExpiryKept
  BY <1>1 DEF ExpiryKept
<1>5. now \in Int /\ now \in 0 .. MaxTime /\ backs \in Nat /\ MaxTime \in Nat
  BY <1>3, ClockAssumption DEF Shape
<1>6. CASE Tick
  <2>1. now' = now + 1 /\ now < MaxTime /\ backs' = backs
    BY <1>6 DEF Tick
  <2>2. now' \in 0 .. MaxTime /\ now' \in Int /\ now <= now'
    BY <1>5, <2>1
  <2>3. Shape'
    BY <1>1, <1>3, <2>1, <2>2 DEF Shape
  <2>4. Unix(now) <= Unix(now') /\ Unix(now) \in Int /\ Unix(now') \in Int
    BY <1>5, <2>2, UnixOrder, UnixFacts, Zenon
  <2>5. ASSUME NEW t \in TokenRec, Dead(t)
        PROVE  IF t.kind = "csrf" THEN Unix(now') - Unix(t.at) > csrfTTL
               ELSE Unix(now') >= Unix(t.at + t.ttl)
    <3>1. t.at \in Int /\ t.at + t.ttl \in Int
      BY DEF TokenRec
    <3>2. Unix(t.at) \in Int /\ Unix(t.at + t.ttl) \in Int
      BY <3>1, UnixFacts, Zenon
    <3>3. csrfTTL \in Int
      BY SessionsAssumption
    <3> QED BY <2>4, <2>5, <3>2, <3>3 DEF Dead
  <2>6. ASSUME NEW n \in 1 .. Len(tokens) PROVE KindInv(tokens[n]) /\ SeenInv(n)'
    <3>1. KindInv(tokens[n]) /\ SeenInv(n) /\ tokens[n] \in TokenRec
      BY <1>3 DEF SealedInv, Shape
    <3>2. Dead(tokens[n]) => Dead(tokens[n])'
      BY <1>1, <2>5, <3>1 DEF Dead
    <3> QED BY <1>1, <2>1, <3>1, <3>2 DEF SeenInv
  <2>7. SealedInv'
    BY <1>1, <2>3, <2>6 DEF SealedInv
  <2> QED BY <1>2, <1>4, <2>7
<1>7. ASSUME NEW t \in 0 .. MaxTime, SetBack(t) PROVE SealedInv' /\ LastInv' /\ ExpiryKept
  <2>1. now' = t /\ backs' = backs + 1
    BY <1>7 DEF SetBack
  <2>2. Shape'
    BY <1>1, <1>3, <1>5, <2>1 DEF Shape
  <2>3. ASSUME NEW n \in 1 .. Len(tokens) PROVE KindInv(tokens[n]) /\ SeenInv(n)'
    <3>1. KindInv(tokens[n]) /\ SeenInv(n) /\ seen[n] \in SeenRec
      BY <1>3 DEF SealedInv, Shape
    <3>2. seen[n].backs \in Nat /\ seen[n].backs <= backs
      BY <3>1 DEF SeenInv, SeenRec
    <3>3. seen[n].backs <= backs' /\ seen[n].backs # backs'
      BY <1>5, <2>1, <3>2
    <3> QED BY <1>1, <3>1, <3>3 DEF SeenInv
  <2>4. SealedInv'
    BY <1>1, <2>2, <2>3 DEF SealedInv
  <2> QED BY <1>2, <1>4, <2>4
<1> QED BY <1>6, <1>7 DEF Time

-----------------------------------------------------------------------------
(* Webhooks                                                                *)

\* The check of Outside on a clock that shows c.
Apart(c, s) ==
  LET d == Int64(Unix(c) - s)
      delta == IF d < 0 THEN Int64(-d) ELSE d
  IN Int64(delta * Sec) > Tolerance

\* Seconds of the clock are no more than its ticks.
LEMMA ClockSeconds ==
  ASSUME NEW a \in 0 .. MaxTime
  PROVE  Unix(a) \in 0 .. MaxTime /\ Sec * Unix(a) \in 0 .. MaxTime
<1> DEFINE x == Unix(a)
<1>1. a \in Int /\ a >= 0 /\ a <= MaxTime /\ MaxTime \in Nat /\ Sec \in Nat \ {0}
  BY ClockAssumption
<1>2. x \in Int /\ Sec * x <= a /\ x >= 0
  BY <1>1, UnixFacts, Zenon
<1> HIDE DEF x
<1>3. Sec * x \in Int /\ x <= Sec * x
  <2>1. Sec = 1 + (Sec - 1) /\ Sec - 1 \in Nat
    BY <1>1
  <2> QED BY <1>2, <2>1
<1> QED BY <1>1, <1>2, <1>3 DEF x

\* Between two times of the clock, a duration does not overflow: the check is
\* the one meant, in exact arithmetic.
LEMMA ApartIs ==
  ASSUME NEW c \in 0 .. MaxTime, NEW a \in 0 .. MaxTime
  PROVE  Apart(c, Unix(a)) <=> \/ (Unix(c) - Unix(a)) * Sec > Tolerance
                               \/ (Unix(a) - Unix(c)) * Sec > Tolerance
<1> DEFINE x == Unix(c)
           y == Unix(a)
<1>1. /\ x \in 0 .. MaxTime /\ y \in 0 .. MaxTime
      /\ Sec * x \in 0 .. MaxTime /\ Sec * y \in 0 .. MaxTime
  BY ClockSeconds
<1>2. Apart(c, y) = LET d == Int64(x - y)
                        delta == IF d < 0 THEN Int64(-d) ELSE d
                    IN Int64(delta * Sec) > Tolerance
  BY DEF Apart
<1> HIDE DEF x, y
<1>3. MaxTime \in Nat /\ Half \in Nat /\ MaxTime < Half /\ Tolerance \in Nat /\ Sec \in Nat
  BY ClockAssumption, WebhookAssumption
<1>4. x - y \in -Half .. Half - 1 /\ y - x \in -Half .. Half - 1 /\ -(x - y) = y - x
  BY <1>1, <1>3
<1>5. Int64(x - y) = x - y /\ Int64(y - x) = y - x
  BY <1>4, Int64Keeps DEF Int64
<1>6. /\ (x - y) * Sec = Sec * x - Sec * y
      /\ (y - x) * Sec = Sec * y - Sec * x
  BY <1>1, <1>3
<1>7. (x - y) * Sec \in -Half .. Half - 1 /\ (y - x) * Sec \in -Half .. Half - 1
  BY <1>1, <1>3, <1>6
<1>8. Int64((x - y) * Sec) = (x - y) * Sec /\ Int64((y - x) * Sec) = (y - x) * Sec
  BY <1>7, Int64Keeps DEF Int64
<1>9. CASE x < y
  <2>1. Apart(c, y) <=> (y - x) * Sec > Tolerance
    <3>1. x - y < 0
      BY <1>1, <1>9
    <3> QED BY <1>2, <1>4, <1>5, <1>8, <3>1, Zenon
  <2>2. ~((x - y) * Sec > Tolerance)
    <3>1. Sec * x <= Sec * y
      BY <1>1, <1>9, SecFacts
    <3> QED BY <1>1, <1>3, <1>6, <3>1
  <2> QED BY <2>1, <2>2 DEF x, y
<1>10. CASE ~(x < y)
  <2>1. Apart(c, y) <=> (x - y) * Sec > Tolerance
    <3>1. ~(x - y < 0)
      BY <1>1, <1>10
    <3> QED BY <1>2, <1>5, <1>8, <3>1, Zenon
  <2>2. ~((y - x) * Sec > Tolerance)
    <3>1. Sec * y <= Sec * x
      BY <1>1, <1>10, SecFacts
    <3> QED BY <1>1, <1>3, <1>6, <3>1
  <2> QED BY <2>1, <2>2 DEF x, y
<1> QED BY <1>9, <1>10

\* What the check says in ticks: a webhook that passes is less than the
\* tolerance and a second away, one that fails further than it less a second.
LEMMA ApartInTicks ==
  ASSUME NEW c \in 0 .. MaxTime, NEW a \in 0 .. MaxTime
  PROVE  /\ ~Apart(c, Unix(a)) => Distance(c, a) < Tolerance + Sec
         /\ Apart(c, Unix(a)) => Distance(c, a) > Tolerance - Sec
<1> DEFINE x == Unix(c)
           y == Unix(a)
<1>1. c \in Int /\ a \in Int /\ Tolerance \in Int /\ Tolerance >= 0 /\ Sec \in Int
  BY ClockAssumption, WebhookAssumption
<1>2. x \in Int /\ y \in Int
  BY <1>1, UnixFacts, Zenon
<1>3. Apart(c, y) <=> (x - y) * Sec > Tolerance \/ (y - x) * Sec > Tolerance
  BY ApartIs
<1>4. /\ Distance(c, a) \in Int /\ Distance(c, a) >= c - a /\ Distance(c, a) >= a - c
      /\ Distance(c, a) = c - a \/ Distance(c, a) = a - c
  BY <1>1 DEF Distance
<1>5. x - y \in Int /\ y - x \in Int /\ x - y <= x - y /\ y - x <= y - x
  BY <1>2
<1>6. c < a + (x - y) * Sec + Sec /\ a < c + (y - x) * Sec + Sec
  BY <1>1, <1>5, Within, Zenon
<1>7. /\ (x - y) - 1 \in Int /\ (y - x) - 1 \in Int
      /\ x - y > (x - y) - 1 /\ y - x > (y - x) - 1
  BY <1>2
<1>8. c > a + ((x - y) - 1) * Sec /\ a > c + ((y - x) - 1) * Sec
  BY <1>1, <1>7, Beyond, Zenon
<1> HIDE DEF x, y
<1> DEFINE u == (x - y) * Sec
           v == (y - x) * Sec
<1>9. /\ u \in Int /\ v \in Int
      /\ ((x - y) - 1) * Sec = u - Sec /\ ((y - x) - 1) * Sec = v - Sec
  BY <1>1, <1>2
<1>10. /\ Apart(c, y) <=> u > Tolerance \/ v > Tolerance
       /\ c < a + u + Sec /\ a < c + v + Sec
       /\ c > a + (u - Sec) /\ a > c + (v - Sec)
  BY <1>3, <1>6, <1>8, <1>9
<1> HIDE DEF u, v
<1>11. ~Apart(c, y) => Distance(c, a) < Tolerance + Sec
  BY <1>1, <1>4, <1>9, <1>10
<1>12. Apart(c, y) => Distance(c, a) > Tolerance - Sec
  BY <1>1, <1>4, <1>9, <1>10
<1> QED BY <1>11, <1>12 DEF y

\* A webhook too old stays too old while the clock goes forward.
LEMMA StaysApart ==
  ASSUME NEW c \in 0 .. MaxTime, NEW d \in 0 .. MaxTime, NEW a \in 0 .. MaxTime, c <= d,
         Unix(c) > Unix(a), Apart(c, Unix(a))
  PROVE  Unix(d) > Unix(a) /\ Apart(d, Unix(a))
<1> DEFINE x == Unix(c)
           y == Unix(a)
           z == Unix(d)
<1>1. c \in Int /\ d \in Int /\ a \in Int /\ Tolerance \in Nat /\ Sec \in Nat
  BY ClockAssumption, WebhookAssumption
<1>2. x \in Int /\ y \in Int /\ z \in Int /\ x <= z
  BY <1>1, UnixFacts, UnixOrder, Zenon
<1>3. (x - y) * Sec > Tolerance \/ (y - x) * Sec > Tolerance
  BY ApartIs
<1>4. Apart(d, y) <=> (z - y) * Sec > Tolerance \/ (y - z) * Sec > Tolerance
  BY ApartIs
<1>5. x > y
  OBVIOUS
<1> HIDE DEF x, y, z
<1>6. (x - y) * Sec <= (z - y) * Sec /\ ~((y - x) * Sec > Tolerance)
  <2>1. /\ Sec * (x - y) <= Sec * (z - y) /\ Sec * (y - x) <= Sec * 0
        /\ (x - y) * Sec = Sec * (x - y) /\ (z - y) * Sec = Sec * (z - y)
        /\ (y - x) * Sec = Sec * (y - x)
    <3>1. x - y \in Int /\ z - y \in Int /\ y - x \in Int /\ x - y <= z - y /\ y - x <= 0
      BY <1>2, <1>5
    <3>2. 0 \in Int
      OBVIOUS
    <3> QED BY <3>1, <3>2, SecFacts, Zenon
  <2>2. Sec * 0 = 0 /\ (y - x) * Sec \in Int
    BY <1>1, <1>2
  <2> QED BY <1>1, <2>1, <2>2
<1>7. (z - y) * Sec > Tolerance
  <2>1. (x - y) * Sec \in Int /\ (z - y) * Sec \in Int
    BY <1>1, <1>2
  <2> QED BY <1>1, <1>3, <1>6, <2>1
<1>8. z > y
  BY <1>2, <1>5
<1> QED BY <1>4, <1>7, <1>8 DEF y, z

\* What ReplaysEnd says of one step.
ReplaysKept ==
  \A n \in 1 .. Len(heard) :
    heard[n].err = "outside tolerance" /\ heard'[n].err = "nil" =>
      heard'[n].backs > heard[n].backs

\* Where no webhook was just received there is nothing to say about it.
LEMMA NothingReceived ==
  ASSUME got' = NoReceipt
  PROVE  FreshAndGenuine' /\ DeliveredInTime'
BY DEF FreshAndGenuine, DeliveredInTime, NoReceipt

\* Time passes, or is corrected: what was too old stays too old unless it was.
LEMMA TimeHooksInv ==
  ASSUME Shape, HooksInv, Time
  PROVE  HooksInv' /\ FreshAndGenuine' /\ DeliveredInTime' /\ ReplaysKept
<1>1. got' = NoReceipt /\ hooks' = hooks /\ heard' = heard
  BY DEF Time
<1>2. FreshAndGenuine' /\ DeliveredInTime'
  BY <1>1, NothingReceived
<1>3. ReplaysKept
  BY <1>1 DEF ReplaysKept
<1>4. HookShape
  BY DEF HooksInv
<1>5. HookShape'
  BY <1>1, <1>4 DEF HookShape
<1>6. now \in 0 .. MaxTime /\ backs \in Nat /\ MaxTime \in Nat
  BY ClockAssumption DEF Shape
<1>7. CASE Tick
  <2>1. now' = now + 1 /\ now < MaxTime /\ backs' = backs
    BY <1>7 DEF Tick
  <2>2. now' \in 0 .. MaxTime /\ now <= now'
    BY <1>6, <2>1
  <2>3. ASSUME NEW n \in 1 .. Len(hooks) PROVE HookInv(n)'
    <3>1. HookInv(n) /\ hooks[n] \in HookRec
      BY <1>4 DEF HooksInv, HookShape
    <3>2. hooks[n].at \in 0 .. MaxTime
      BY <3>1 DEF HookRec
    <3>3. Stale(hooks[n]) => Stale(hooks[n])'
      <4>1. Stale(hooks[n]) => Unix(now) > Unix(hooks[n].at) /\ Apart(now, Unix(hooks[n].at))
        BY DEF Stale, Outside, Apart
      <4>2. Stale(hooks[n])' <=> Unix(now') > Unix(hooks[n].at) /\ Apart(now', Unix(hooks[n].at))
        BY <1>1 DEF Stale, Outside, Apart
      <4> QED BY <1>6, <2>2, <3>2, <4>1, <4>2, StaysApart, Zenon
    <3> QED BY <1>1, <2>1, <3>1, <3>3 DEF HookInv
  <2>4. HooksInv'
    BY <1>1, <1>5, <2>3 DEF HooksInv
  <2> QED BY <1>2, <1>3, <2>4
<1>8. ASSUME NEW t \in 0 .. MaxTime, SetBack(t)
      PROVE  HooksInv' /\ FreshAndGenuine' /\ DeliveredInTime' /\ ReplaysKept
  <2>1. backs' = backs + 1
    BY <1>8 DEF SetBack
  <2>2. ASSUME NEW n \in 1 .. Len(hooks) PROVE HookInv(n)'
    <3>1. HookInv(n) /\ heard[n] \in HeardRec
      BY <1>4 DEF HooksInv, HookShape
    <3>2. heard[n].backs \in Nat /\ heard[n].backs <= backs
      BY <3>1 DEF HookInv, HeardRec
    <3>3. heard[n].backs <= backs' /\ heard[n].backs # backs'
      BY <1>6, <2>1, <3>2
    <3> QED BY <1>1, <3>1, <3>3 DEF HookInv
  <2>3. HooksInv'
    BY <1>1, <1>5, <2>2 DEF HooksInv
  <2> QED BY <1>2, <1>3, <2>3
<1> QED BY <1>7, <1>8 DEF Time

\* SignWebhook: a new header, made as every one is.
LEMMA SignWebhookInv ==
  ASSUME Shape, HooksInv, UNCHANGED clockVars,
         NEW secret \in Secrets, NEW body \in Bodies, SignWebhook(secret, body)
  PROVE  HooksInv' /\ FreshAndGenuine' /\ DeliveredInTime' /\ ReplaysKept
<1> DEFINE ts == Stamp(Unix(now))
           hdr == [whole |-> TRUE, ts |-> ts, hex |-> TRUE,
                   mac |-> Sign(secret, Signed(ts, body))]
           k == [at |-> now, secret |-> secret, body |-> body, hdr |-> hdr]
           s == [err |-> "none", backs |-> backs]
<1>1. hooks' = Append(hooks, k) /\ heard' = Append(heard, s) /\ got' = NoReceipt
  BY DEF SignWebhook
<1>2. HookShape /\ now' = now /\ backs' = backs /\ now \in 0 .. MaxTime /\ backs \in Nat
  BY DEF HooksInv, Shape, clockVars
<1>3. ts \in StampRec
  <2>1. now \in Int
    BY <1>2
  <2>2. Unix(now) \in Int
    BY <2>1, UnixFacts
  <2> QED BY <2>2 DEF Stamp, StampRec
<1>4. Sign(secret, Signed(ts, body)) \in MacRec
  BY <1>3 DEF Sign, Signed, MacRec, Size
<1>5. k \in HookRec
  <2>1. hdr \in HeaderRec
    BY <1>3, <1>4 DEF HeaderRec
  <2> HIDE DEF hdr
  <2> QED BY <1>2, <2>1 DEF HookRec
<1>6. k.hdr = MadeHeader(k)
  BY DEF MadeHeader
<1>7. s \in HeardRec /\ s.err = "none" /\ s.backs = backs
  BY <1>2 DEF HeardRec
<1> HIDE DEF k, s
<1>8. /\ hooks' \in Seq(HookRec) /\ Len(hooks') = Len(hooks) + 1 /\ Len(hooks) \in Nat
      /\ \A j \in 1 .. Len(hooks) : hooks'[j] = hooks[j]
      /\ hooks'[Len(hooks) + 1] = k
      /\ \A j \in 1 .. Len(hooks) + 1 : j \in 1 .. Len(hooks) \/ j = Len(hooks) + 1
  BY <1>1, <1>2, <1>5, AppendFacts DEF HookShape
<1>9. /\ heard' \in Seq(HeardRec) /\ Len(heard') = Len(hooks) + 1
      /\ \A j \in 1 .. Len(hooks) : heard'[j] = heard[j]
      /\ heard'[Len(hooks) + 1] = s
  BY <1>1, <1>2, <1>7, AppendFacts DEF HookShape
<1>10. HookShape'
  BY <1>8, <1>9 DEF HookShape
<1>11. ASSUME NEW j \in 1 .. Len(hooks) PROVE HookInv(j)'
  <2>1. HookInv(j)
    BY DEF HooksInv
  <2> QED BY <1>2, <1>8, <1>9, <2>1 DEF HookInv, Stale, Outside
<1>12. ASSUME NEW j, j = Len(hooks) + 1 PROVE HookInv(j)'
  <2>1. hooks'[j] = k /\ heard'[j] = s
    BY <1>8, <1>9, <1>12
  <2>2. backs <= backs
    BY <1>2
  <2> QED BY <1>2, <1>6, <1>7, <2>1, <2>2 DEF HookInv
<1>13. HooksInv'
  BY <1>8, <1>10, <1>11, <1>12 DEF HooksInv
<1>14. ReplaysKept
  BY <1>2, <1>9 DEF ReplaysKept, HookShape
<1> QED BY <1>1, <1>13, <1>14, NothingReceived

\* The tag speaks for the secret, the timestamp's text and the body.
LEMMA TagSpeaks ==
  ASSUME NEW secret, NEW ts, NEW body, NEW secret2, NEW ts2, NEW body2,
         Verify(secret, Signed(ts, body), Sign(secret2, Signed(ts2, body2)))
  PROVE  secret = secret2 /\ ts = ts2 /\ body = body2
<1>1. Sign(secret, Signed(ts, body)) = Sign(secret2, Signed(ts2, body2))
  BY DEF Verify, ConstantTimeEqual
<1>2. secret = secret2 /\ Signed(ts, body) = Signed(ts2, body2)
  BY <1>1 DEF Sign
<1> QED BY <1>2 DEF Signed

\* Of all that may become of a header, a receiver accepts only the header
\* itself, with its own body, under its own secret and in time.
LEMMA AcceptsOnlyMade ==
  ASSUME NEW k \in HookRec, k.hdr = MadeHeader(k), NEW h \in Altered(k.hdr),
         NEW secret, NEW body, VerifyWebhook(secret, body, h) = "nil"
  PROVE  h = k.hdr /\ secret = k.secret /\ body = k.body /\ ~Outside(Unix(k.at))
<1> DEFINE h0 == k.hdr
           ts0 == Stamp(Unix(k.at))
           mac0 == Sign(k.secret, Signed(ts0, k.body))
<1>1. h0 = [whole |-> TRUE, ts |-> ts0, hex |-> TRUE, mac |-> mac0]
  BY DEF MadeHeader
<1>2. /\ h.whole /\ h.ts.text # "none" /\ ~Outside(h.ts.val) /\ h.hex
      /\ Verify(secret, Signed(h.ts, body), h.mac)
  BY DEF VerifyWebhook
<1>3. ts0.text = "digits" /\ ts0.val = Unix(k.at) /\ mac0.len = Size
  BY DEF Stamp, Sign
<1>4. \/ h = h0
      \/ h = [h0 EXCEPT !.whole = FALSE]
      \/ h = [h0 EXCEPT !.hex = FALSE]
      \/ h = [h0 EXCEPT !.mac.len = Size - 1]
      \/ \E x \in {"signed", "none"} : h = [h0 EXCEPT !.ts.text = x]
      \/ \E st \in Stamps : h = [h0 EXCEPT !.ts = Stamp(st)]
  BY DEF Altered
<1> HIDE DEF h0, mac0, ts0
<1>5. h.mac.len = Size
  BY <1>2 DEF Verify
<1>6. /\ h # [h0 EXCEPT !.whole = FALSE] /\ h # [h0 EXCEPT !.hex = FALSE]
  BY <1>1, <1>2
<1>7. h # [h0 EXCEPT !.mac.len = Size - 1]
  <2> SUFFICES ASSUME h = [h0 EXCEPT !.mac.len = Size - 1] PROVE FALSE
    OBVIOUS
  <2>1. h.mac = [mac0 EXCEPT !.len = Size - 1]
    BY <1>1
  <2>2. h.mac.len = Size - 1
    BY <2>1 DEF mac0, Sign
  <2> QED BY <1>5, <2>2 DEF Size
<1>8. h = h0 \/ \E ts : h = [h0 EXCEPT !.ts = ts]
  <2>1. ASSUME NEW x, h = [h0 EXCEPT !.ts.text = x] PROVE h = [h0 EXCEPT !.ts = [ts0 EXCEPT !.text = x]]
    BY <1>1, <2>1
  <2> QED BY <1>4, <1>6, <1>7, <2>1
<1>9. h.mac = mac0
  BY <1>1, <1>8
<1>10. secret = k.secret /\ h.ts = ts0 /\ body = k.body
  BY <1>2, <1>9, TagSpeaks DEF mac0
<1>11. h = h0
  BY <1>1, <1>8, <1>10
<1> QED BY <1>2, <1>3, <1>10, <1>11 DEF h0

\* Receive: what is accepted is fresh and genuine, what is genuine is refused
\* for its age only, and what was too old is accepted only after a correction.
LEMMA ReceiveInv ==
  ASSUME Shape, HooksInv, UNCHANGED clockVars, NEW n \in 1 .. Len(hooks), NEW secret,
         NEW body, NEW h \in Altered(hooks[n].hdr), Receive(n, secret, body, h)
  PROVE  HooksInv' /\ FreshAndGenuine' /\ DeliveredInTime' /\ ReplaysKept
<1> DEFINE k == hooks[n]
           err == VerifyWebhook(secret, body, h)
           s == [err |-> err, backs |-> backs]
           noted == /\ h = k.hdr
                    /\ \/ err = "outside tolerance" /\ Unix(now) > h.ts.val
                       \/ err = "nil"
<1>1. /\ got' = [n |-> n, secret |-> secret, body |-> body, err |-> err, genuine |-> h = k.hdr]
      /\ heard' = IF noted THEN [heard EXCEPT ![n] = s] ELSE heard
      /\ hooks' = hooks
  BY DEF Receive
<1>2. /\ HookShape /\ now' = now /\ backs' = backs /\ now \in 0 .. MaxTime /\ backs \in Nat
      /\ k \in HookRec /\ HookInv(n) /\ n # 0
  BY DEF HooksInv, Shape, HookShape, clockVars
<1>3. k.hdr = MadeHeader(k) /\ k.at \in 0 .. MaxTime
  BY <1>2 DEF HookInv, HookRec
<1>4. Outside(Unix(k.at)) <=> Apart(now, Unix(k.at))
  BY DEF Outside, Apart
<1>5. err = "nil" => /\ h = k.hdr /\ secret = k.secret /\ body = k.body
                     /\ ~Outside(Unix(k.at))
  BY <1>2, <1>3, AcceptsOnlyMade
<1>6. ASSUME h = k.hdr, err = "outside tolerance" PROVE Outside(Unix(k.at)) /\ h.ts.val = Unix(k.at)
  <2>1. h.ts.val = Unix(k.at)
    <3> HIDE DEF k, err
    <3>1. h = MadeHeader(k)
      BY <1>3, <1>6
    <3>2. h.ts = Stamp(Unix(k.at))
      BY <3>1 DEF MadeHeader
    <3> QED BY <3>2 DEF Stamp
  <2>2. Outside(h.ts.val)
    BY <1>6 DEF VerifyWebhook
  <2> QED BY <2>1, <2>2
<1>7. ASSUME h = k.hdr, secret = k.secret, body = k.body, err # "nil"
      PROVE  Outside(Unix(k.at))
  <2> DEFINE ts == Stamp(Unix(k.at))
             mac == Sign(secret, Signed(ts, body))
  <2>1. h.whole /\ h.ts = ts /\ h.hex /\ h.mac = mac
    BY <1>3, <1>7 DEF MadeHeader
  <2>2. h.ts.text # "none" /\ h.ts.val = Unix(k.at)
    BY <2>1 DEF Stamp
  <2>3. Verify(secret, Signed(ts, body), mac)
    BY DEF Verify, ConstantTimeEqual, Sign
  <2> HIDE DEF ts, mac
  <2>4. Verify(secret, Signed(h.ts, body), h.mac)
    BY <2>1, <2>3
  <2> QED BY <1>7, <2>1, <2>2, <2>4 DEF VerifyWebhook
<1> HIDE DEF k, err
<1>8. got'.n = n /\ got'.secret = secret /\ got'.body = body /\ got'.err = err
      /\ got'.genuine = (h = k.hdr) /\ hooks'[got'.n] = k
  BY <1>1 DEF k
<1>9. FreshAndGenuine'
  <2> SUFFICES ASSUME err = "nil" PROVE Distance(now, k.at) < Tolerance + Sec
    BY <1>2, <1>5, <1>8 DEF FreshAndGenuine
  <2> QED BY <1>2, <1>3, <1>4, <1>5, ApartInTicks, Zenon
<1>10. DeliveredInTime'
  <2> SUFFICES ASSUME err # "nil", h = k.hdr, secret = k.secret, body = k.body
               PROVE  Distance(now, k.at) > Tolerance - Sec
    BY <1>2, <1>8 DEF DeliveredInTime
  <2> QED BY <1>2, <1>3, <1>4, <1>7, ApartInTicks, Zenon
<1>11. noted /\ err = "outside tolerance" => Stale(k)
  BY <1>6 DEF Stale
<1>12. s.err = err /\ s.backs = backs /\ backs <= backs
  BY <1>2
<1>13. noted => s \in HeardRec
  BY <1>2 DEF HeardRec
<1> HIDE DEF noted, s
<1>14. /\ HookShape'
       /\ \A j \in 1 .. Len(hooks) : heard'[j] = IF noted /\ j = n THEN s ELSE heard[j]
  <2>1. CASE noted
    <3>1. s \in HeardRec /\ n \in 1 .. Len(heard) /\ heard \in Seq(HeardRec)
      BY <1>2, <1>13, <2>1 DEF HookShape
    <3>2. /\ heard' \in Seq(HeardRec) /\ Len(heard') = Len(heard)
          /\ \A j \in 1 .. Len(heard) : heard'[j] = IF j = n THEN s ELSE heard[j]
      BY <1>1, <2>1, <3>1, ExceptFacts
    <3> QED BY <1>1, <1>2, <2>1, <3>2 DEF HookShape
  <2>2. CASE ~noted
    BY <1>1, <1>2, <2>2 DEF HookShape
  <2> QED BY <2>1, <2>2
<1>15. ASSUME NEW j \in 1 .. Len(hooks) PROVE HookInv(j)'
  <2>1. HookInv(j)
    BY DEF HooksInv
  <2>2. Stale(hooks[j])' <=> Stale(hooks[j])
    BY <1>1, <1>2 DEF Stale, Outside
  <2>3. CASE noted /\ j = n
    <3>1. heard'[j] = s
      BY <1>14, <2>3
    <3> QED BY <1>1, <1>2, <1>11, <1>12, <2>1, <2>2, <2>3, <3>1 DEF HookInv, k
  <2>4. CASE ~(noted /\ j = n)
    <3>1. heard'[j] = heard[j]
      BY <1>14, <2>4
    <3> QED BY <1>1, <1>2, <2>1, <2>2, <3>1 DEF HookInv
  <2> QED BY <2>3, <2>4
<1>16. HooksInv'
  BY <1>1, <1>14, <1>15 DEF HooksInv
<1>17. ASSUME NEW j \in 1 .. Len(heard), heard[j].err = "outside tolerance", heard'[j].err = "nil"
       PROVE  heard'[j].backs > heard[j].backs
  <2>1. j \in 1 .. Len(hooks) /\ HookInv(j) /\ heard[j] \in HeardRec
    BY <1>2 DEF HooksInv, HookShape
  <2>2. noted /\ j = n /\ heard'[j] = s
    BY <1>14, <1>17, <2>1
  <2>3. ~Stale(hooks[j])
    BY <1>5, <1>12, <1>17, <2>2 DEF Stale, k
  <2>4. heard[j].backs # backs /\ heard[j].backs <= backs /\ heard[j].backs \in Nat
    BY <1>17, <2>1, <2>3 DEF HookInv, HeardRec
  <2> QED BY <1>2, <1>12, <2>2, <2>4
<1> QED BY <1>9, <1>10, <1>16, <1>17 DEF ReplaysKept

-----------------------------------------------------------------------------
(* The whole                                                               *)

\* Everything starts empty.
LEMMA InitInv == Init => IInv
<1> SUFFICES ASSUME Init PROVE IInv
  OBVIOUS
<1>1. /\ now = 0 /\ backs = 0 /\ tokens = <<>> /\ seen = <<>> /\ last = Nothing
      /\ hooks = <<>> /\ heard = <<>> /\ got = NoReceipt
  BY DEF Init, InitSealed, InitHooks
<1>2. Len(tokens) = 0 /\ Len(hooks) = 0
  BY <1>1
<1>3. SealedInv
  BY <1>1, <1>2, ClockAssumption DEF SealedInv, Shape
<1>4. LastInv
  <2>1. last.err = "none"
    BY <1>1 DEF Nothing
  <2> QED BY <2>1 DEF LastInv, AcceptedInTime, NotExpiredEarly, NoTokenConfusion, SkewTolerated, OwnKind
<1>5. HooksInv
  BY <1>1, <1>2 DEF HooksInv, HookShape
<1>6. FreshAndGenuine /\ DeliveredInTime
  BY <1>1 DEF FreshAndGenuine, DeliveredInTime, NoReceipt
<1> QED BY <1>3, <1>4, <1>5, <1>6 DEF IInv

\* Sealing and opening leave the webhooks as they were.
LEMMA HooksStay ==
  ASSUME IInv, UNCHANGED <<clockVars, hookVars>>
  PROVE  HooksInv' /\ FreshAndGenuine' /\ DeliveredInTime' /\ ReplaysKept
<1>1. now' = now /\ backs' = backs /\ hooks' = hooks /\ heard' = heard /\ got' = got
  BY DEF clockVars, hookVars
<1>2. HooksInv'
  BY <1>1 DEF IInv, HooksInv, HookShape, HookInv, Stale, Outside
<1>3. FreshAndGenuine' /\ DeliveredInTime'
  BY <1>1 DEF IInv, FreshAndGenuine, DeliveredInTime
<1> QED BY <1>1, <1>2, <1>3 DEF ReplaysKept

\* Webhooks leave the ciphertexts as they were.
LEMMA SealedStays ==
  ASSUME IInv, UNCHANGED <<clockVars, sealedVars>>
  PROVE  SealedInv' /\ LastInv' /\ ExpiryKept
<1>1. now' = now /\ backs' = backs /\ tokens' = tokens /\ seen' = seen /\ last' = last
  BY DEF clockVars, sealedVars
<1>2. SealedInv'
  BY <1>1 DEF IInv, SealedInv, Shape, SeenInv, Dead
<1>3. LastInv'
  BY <1>1 DEF IInv, LastInv, AcceptedInTime, NotExpiredEarly, NoTokenConfusion,
              SkewTolerated, Checked, Lifetime, OwnKind
<1> QED BY <1>1, <1>2, <1>3 DEF ExpiryKept

\* Every step keeps the invariant and is one that ExpiryIsFinal and ReplaysEnd
\* allow.
LEMMA StepInv ==
  ASSUME IInv, [Next]_vars
  PROVE  IInv' /\ ExpiryKept /\ ReplaysKept
<1>1. SealedInv /\ HooksInv /\ Shape
  BY DEF IInv, SealedInv
<1>2. CASE Time
  BY <1>1, <1>2, TimeSealedInv, TimeHooksInv DEF IInv
<1>3. CASE ((Room /\ Seals) \/ IssueFails \/ Opens) /\ UNCHANGED <<clockVars, hookVars>>
  <2>1. UNCHANGED clockVars
    BY <1>3
  <2>2. ASSUME IssueFails PROVE SealedInv' /\ LastInv' /\ ExpiryKept
    <3>1. last' = Nothing /\ tokens' = tokens /\ seen' = seen
      BY <2>2 DEF IssueFails
    <3>2. now' = now /\ backs' = backs
      BY <2>1 DEF clockVars
    <3>3. SealedInv'
      BY <1>1, <3>1, <3>2 DEF SealedInv, Shape, SeenInv, Dead
    <3>4. LastInv'
      BY <3>1, NothingChecked DEF Nothing
    <3> QED BY <3>1, <3>3, <3>4 DEF ExpiryKept
  <2>3. SealedInv' /\ LastInv' /\ ExpiryKept
    BY <1>1, <1>3, <2>1, <2>2, SealsInv, OpensInv
  <2>4. HooksInv' /\ FreshAndGenuine' /\ DeliveredInTime' /\ ReplaysKept
    BY <1>3, HooksStay
  <2> QED BY <2>3, <2>4 DEF IInv
<1>4. CASE Hooks /\ UNCHANGED <<clockVars, sealedVars>>
  <2>1. SealedInv' /\ LastInv' /\ ExpiryKept
    BY <1>4, SealedStays
  <2>2. HooksInv' /\ FreshAndGenuine' /\ DeliveredInTime' /\ ReplaysKept
    BY <1>1, <1>4, SignWebhookInv, ReceiveInv DEF Hooks
  <2> QED BY <2>1, <2>2 DEF IInv
<1>5. CASE UNCHANGED vars
  BY <1>5, HooksStay, SealedStays DEF vars, IInv
<1> QED BY <1>2, <1>3, <1>4, <1>5 DEF Next

\* The invariant holds in every reachable state.
LEMMA Inv == Spec => []IInv
<1>1. IInv /\ [Next]_vars => IInv'
  BY StepInv
<1> QED BY <1>1, InitInv, PTL DEF Spec

\* VerifyToken, verifyLink, OpenSession, VerifyCSRF and getSession accept no
\* token of their kind whose ttl has passed, although expiries are whole seconds and the
\* expiry went through 8 bytes as an unsigned number.
THEOREM NothingAcceptedLate == Spec => []AcceptedInTime
<1>1. IInv => AcceptedInTime
  BY DEF IInv, LastInv
<1> QED BY <1>1, Inv, PTL

\* They call none expired more than a second before its ttl has passed.
THEOREM NothingExpiresEarly == Spec => []NotExpiredEarly
<1>1. IInv => NotExpiredEarly
  BY DEF IInv, LastInv
<1> QED BY <1>1, Inv, PTL

\* A verifier accepts, or finds expired, only what was sealed under its aad and
\* for its party; for the JSON readers that means of their kind, whatever
\* purposes an application chooses; for VerifyToken it does if its purpose is
\* none of the aads of the examples, as the ones timelock.go suggests are.
THEOREM KindsStayApart == Spec => []NoTokenConfusion
<1>1. IInv => NoTokenConfusion
  BY DEF IInv, LastInv
<1> QED BY <1>1, Inv, PTL

\* OpenSession calls a session issued in the future only if clocks differ by
\* more than the skew limit, and accepts none further ahead than it and a
\* second.
THEOREM SessionsTolerateSkew == Spec => []SkewTolerated
<1>1. IInv => SkewTolerated
  BY DEF IInv, LastInv
<1> QED BY <1>1, Inv, PTL

\* VerifyWebhook accepts only what its secret's holder signed with this body,
\* less than the tolerance and a second from the receiver's clock.
THEOREM WebhooksAreFresh == Spec => []FreshAndGenuine
<1>1. IInv => FreshAndGenuine
  BY DEF IInv
<1> QED BY <1>1, Inv, PTL

\* VerifyWebhook refuses a genuine webhook only for its age: further than the
\* tolerance less a second from the receiver's clock.
THEOREM WebhooksAreDelivered == Spec => []DeliveredInTime
<1>1. IInv => DeliveredInTime
  BY DEF IInv
<1> QED BY <1>1, Inv, PTL

\* Nothing that its verifier found expired is accepted by it again while the
\* clock is not set back.
THEOREM ExpiredStaysExpired == Spec => ExpiryIsFinal
<1> DEFINE Kept == \A n \in 1 .. Len(seen) :
             seen[n].err = "expired" /\ seen'[n].err = "nil" =>
               seen'[n].backs > seen[n].backs
<1>1. IInv /\ [Next]_vars => [Kept]_vars
  BY StepInv DEF ExpiryKept
<1> HIDE DEF Kept
<1>2. Spec => [][Kept]_vars
  BY <1>1, Inv, PTL DEF Spec
<1> QED BY <1>2 DEF ExpiryIsFinal, Kept

\* Nor is a webhook refused for its age accepted again.
THEOREM ReplaysStayRefused == Spec => ReplaysEnd
<1> DEFINE Kept == \A n \in 1 .. Len(heard) :
             heard[n].err = "outside tolerance" /\ heard'[n].err = "nil" =>
               heard'[n].backs > heard[n].backs
<1>1. IInv /\ [Next]_vars => [Kept]_hookVars
  BY StepInv DEF ReplaysKept
<1> HIDE DEF Kept
<1>2. Spec => [][Kept]_hookVars
  BY <1>1, Inv, PTL DEF Spec
<1> QED BY <1>2 DEF ReplaysEnd, Kept
=============================================================================
