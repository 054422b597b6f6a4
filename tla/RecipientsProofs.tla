-------------------------- MODULE RecipientsProofs --------------------------
(***************************************************************************)
(* Proofs about Wire and Recipients for every size of nonce, tag and key,  *)
(* every set of parties and every message shorter than LenMod.             *)
(***************************************************************************)
EXTENDS Recipients, TLAPS

RawRec == [len : 0 .. LenMod - 1, ver : Versions,
           kidLen : 0 .. ByteMod - 1, wrappedLen : 0 .. LenMod - 1]

\* A message nobody touched is as its sealer made it.
Whole(kind, n) ==
  /\ raw.ver = Version[kind]
  /\ kind \in {"v1", "v2"} => layout.parts = Seal(n) /\ raw.len = aeadMinSize + n
  /\ kind = "v3" =>
       /\ raw.kidLen \in 1 .. MaxKidLen
       /\ layout.parts = KeyRingSeal(raw.kidLen, n)
       /\ raw.len = 1 + raw.kidLen + aeadMinSize + n
  /\ kind = "v5" =>
       layout.parts = SealAsymmetric(n) /\ raw.len = X25519KeySize + aeadMinSize + n
  /\ kind = "v6" =>
       /\ layout.parts = EnvelopeSeal(raw.wrappedLen, n)
       /\ raw.len = 5 + raw.wrappedLen + aeadMinSize + n

WireInv ==
  /\ raw \in RawRec
  /\ layout # NoLayout =>
       layout.kind \in Kinds /\ \E n \in 0 .. MaxPt : Whole(layout.kind, n)

OwnerInv ==
  /\ owner \in Parties
  /\ layout # NoLayout => under = SealKey(layout.kind, owner)

\* Until an opener is called there is no result.
Waiting == opener = "none" => res = Pending /\ readers = <<>>

\* NoPanic and WholeParts of a result, before it is returned.
GoodResult(r) ==
  /\ \A x \in DOMAIN r.parts :
       LET part == r.parts[x] IN 0 <= part[1] /\ part[1] <= part[2] /\ part[2] <= raw.len
  /\ r.err = "nil" =>
       /\ \E x \in DOMAIN r.parts : r.parts[x][2] = raw.len
       /\ "nonce" \in DOMAIN r.parts =>
            /\ Size(r.parts["nonce"]) = NonceSize
            /\ Size(r.parts["body"]) >= TagSize
            /\ r.parts["nonce"][2] = r.parts["body"][1]
       /\ "wrapped" \in DOMAIN r.parts =>
            r.parts["wrapped"][2] = r.parts["inner"][1]

IInv ==
  /\ WireInv /\ OwnerInv /\ Waiting
  /\ NoPanic /\ WholeParts /\ PartsRecovered /\ OnlyOwnerReads
-----------------------------------------------------------------------------
(* What the openers hand to a cipher                                       *)

\* The sizes are natural numbers.
LEMMA SizeFacts ==
  /\ NonceSize \in Nat /\ TagSize \in Nat /\ X25519KeySize \in Nat /\ MaxKidLen \in Nat
  /\ MaxPt \in Nat /\ MaxWrapped \in Nat /\ LenMod \in Nat /\ ByteMod \in Nat
  /\ aeadHeaderSize = 1 + NonceSize /\ aeadMinSize = 1 + NonceSize + TagSize
BY WireAssumption DEF aeadHeaderSize, aeadMinSize

\* Results without parts.
LEMMA FailsFacts ==
  ASSUME NEW e
  PROVE  /\ Fails(e).err = e /\ DOMAIN Fails(e).parts = {}
         /\ e # "nil" => GoodResult(Fails(e))
<1>1. Fails(e).err = e /\ Fails(e).parts = NoParts
  BY DEF Fails
<1>2. DOMAIN NoParts = {}
  BY DEF NoParts
<1> HIDE DEF NoParts
<1> QED BY <1>1, <1>2 DEF GoodResult

\* Results with parts.
LEMMA PassesFacts ==
  ASSUME NEW parts
  PROVE  Passes(parts).err = "nil" /\ Passes(parts).parts = parts
BY DEF Passes

\* A nonce that starts at byte a and a body up to the end, after room was
\* checked for both.
LEMMA GoodTwo ==
  ASSUME raw \in RawRec, NEW a \in Nat, NEW b \in Nat, b = a + NonceSize, b + TagSize <= raw.len
  PROVE  GoodResult(Passes([nonce |-> <<a, b>>, body |-> <<b, raw.len>>]))
<1> DEFINE parts == [nonce |-> <<a, b>>, body |-> <<b, raw.len>>]
<1>1. DOMAIN parts = {"nonce", "body"}
  OBVIOUS
<1>2. /\ parts["nonce"][1] = a /\ parts["nonce"][2] = b
      /\ parts["body"][1] = b /\ parts["body"][2] = raw.len
  OBVIOUS
<1> HIDE DEF parts
<1>3. Passes(parts).err = "nil" /\ Passes(parts).parts = parts
  BY PassesFacts
<1>4. raw.len \in Nat /\ NonceSize \in Nat /\ TagSize \in Nat
  BY SizeFacts DEF RawRec
<1>5. 0 <= a /\ a <= b /\ b <= raw.len /\ 0 <= b /\ b - a = NonceSize /\ raw.len - b >= TagSize
  BY <1>4
<1>6. \A x \in DOMAIN parts :
        0 <= parts[x][1] /\ parts[x][1] <= parts[x][2] /\ parts[x][2] <= raw.len
  BY <1>1, <1>2, <1>4, <1>5
<1>7. Size(parts["nonce"]) = NonceSize /\ Size(parts["body"]) >= TagSize
  BY <1>2, <1>5 DEF Size
<1>8. "wrapped" \notin DOMAIN parts /\ "body" \in DOMAIN parts
  BY <1>1
<1>9. GoodResult(Passes(parts))
  BY <1>2, <1>3, <1>6, <1>7, <1>8, Zenon DEF GoodResult
<1> QED BY <1>9 DEF parts

\* The same after a part that is read before the cipher is called.
LEMMA GoodThree ==
  ASSUME raw \in RawRec, NEW name \in {"kid", "ephPub"}, NEW c \in Nat, NEW a \in Nat,
         NEW b \in Nat, c <= a, b = a + NonceSize, b + TagSize <= raw.len,
         NEW parts, DOMAIN parts = {name, "nonce", "body"},
         parts[name] = <<c, a>>, parts["nonce"] = <<a, b>>, parts["body"] = <<b, raw.len>>
  PROVE  GoodResult(Passes(parts))
<1>1. /\ parts[name][1] = c /\ parts[name][2] = a
      /\ parts["nonce"][1] = a /\ parts["nonce"][2] = b
      /\ parts["body"][1] = b /\ parts["body"][2] = raw.len
  OBVIOUS
<1>2. Passes(parts).err = "nil" /\ Passes(parts).parts = parts
  BY PassesFacts
<1>3. raw.len \in Nat /\ NonceSize \in Nat /\ TagSize \in Nat
  BY SizeFacts DEF RawRec
<1>4. /\ 0 <= a /\ a <= b /\ b <= raw.len /\ 0 <= b /\ b - a = NonceSize /\ raw.len - b >= TagSize
      /\ 0 <= c /\ a <= raw.len
  BY <1>3
<1>5. \A x \in DOMAIN parts :
        0 <= parts[x][1] /\ parts[x][1] <= parts[x][2] /\ parts[x][2] <= raw.len
  BY <1>1, <1>3, <1>4
<1>6. Size(parts["nonce"]) = NonceSize /\ Size(parts["body"]) >= TagSize
  BY <1>1, <1>4 DEF Size
<1>7. "wrapped" \notin DOMAIN parts /\ "body" \in DOMAIN parts
  OBVIOUS
<1> QED BY <1>1, <1>2, <1>5, <1>6, <1>7, Zenon DEF GoodResult

\* Open, Sealer.Open and OpenChaCha20.
LEMMA OpenVersionGood ==
  ASSUME raw \in RawRec, NEW ver
  PROVE  /\ GoodResult(OpenVersion(ver))
         /\ raw.len >= aeadMinSize /\ raw.ver = ver =>
              OpenVersion(ver) = Passes([nonce |-> <<1, aeadHeaderSize>>,
                                         body |-> <<aeadHeaderSize, raw.len>>])
         /\ raw.len < aeadMinSize \/ raw.ver # ver =>
              OpenVersion(ver).err \in {"ErrUnsupportedVersion", "ErrCiphertextTooShort"}
<1>1. raw.len \in Nat
  BY SizeFacts DEF RawRec
<1>2. CASE raw.len < aeadMinSize
  <2>1. OpenVersion(ver) = Fails("ErrCiphertextTooShort")
    BY <1>2 DEF OpenVersion
  <2>2. ~(raw.len >= aeadMinSize)
    BY <1>1, <1>2, SizeFacts
  <2> QED BY <2>1, <2>2, FailsFacts
<1>3. CASE ~(raw.len < aeadMinSize) /\ raw.ver # ver
  <2>1. OpenVersion(ver) = Fails("ErrUnsupportedVersion")
    BY <1>3 DEF OpenVersion
  <2> QED BY <1>3, <2>1, FailsFacts
<1>4. CASE ~(raw.len < aeadMinSize) /\ raw.ver = ver
  <2>1. OpenVersion(ver) = Passes([nonce |-> <<1, aeadHeaderSize>>,
                                   body |-> <<aeadHeaderSize, raw.len>>])
    BY <1>4 DEF OpenVersion
  <2>2. /\ 1 \in Nat /\ aeadHeaderSize \in Nat /\ aeadHeaderSize = 1 + NonceSize
        /\ aeadHeaderSize + TagSize <= raw.len
    BY <1>1, <1>4, SizeFacts
  <2> QED BY <1>4, <2>1, <2>2, GoodTwo
<1> QED BY <1>2, <1>3, <1>4

\* KeyRing.openV3: the kid length moves the other parts.
LEMMA OpenV3Good ==
  ASSUME raw \in RawRec
  PROVE  LET at == 2 + raw.kidLen
         IN /\ GoodResult(KeyRingOpenV3)
            /\ /\ raw.len >= 2 /\ raw.kidLen \in 1 .. MaxKidLen
               /\ raw.len >= at + NonceSize + TagSize
               => KeyRingOpenV3 = Passes([kid |-> <<2, at>>, nonce |-> <<at, at + NonceSize>>,
                                          body |-> <<at + NonceSize, raw.len>>])
<1> DEFINE at == 2 + raw.kidLen
           parts == [kid |-> <<2, at>>, nonce |-> <<at, at + NonceSize>>,
                     body |-> <<at + NonceSize, raw.len>>]
           ok == /\ ~(raw.len < 2) /\ ~(raw.kidLen < 1 \/ raw.kidLen > MaxKidLen)
                 /\ ~(raw.len < at + NonceSize + TagSize)
<1>1. raw.len \in Nat /\ raw.kidLen \in Nat
  BY SizeFacts DEF RawRec
<1>2. /\ ok => KeyRingOpenV3 = Passes(parts)
      /\ ~ok => \E e \in {"ErrCiphertextTooShort", "ErrInvalidCiphertext"} : KeyRingOpenV3 = Fails(e)
  BY DEF KeyRingOpenV3
<1>3. /\ DOMAIN parts = {"kid", "nonce", "body"}
      /\ parts["kid"] = <<2, at>> /\ parts["nonce"] = <<at, at + NonceSize>>
      /\ parts["body"] = <<at + NonceSize, raw.len>>
  OBVIOUS
<1>4. /\ at \in Nat /\ at + NonceSize \in Nat /\ 2 \in Nat /\ 2 <= at
      /\ ok => at + NonceSize + TagSize <= raw.len
  BY <1>1, SizeFacts
<1>5. /\ raw.len >= 2 /\ raw.kidLen \in 1 .. MaxKidLen /\ raw.len >= at + NonceSize + TagSize
      => ok
  BY <1>1, <1>4, SizeFacts
<1> HIDE DEF parts, ok, at
<1>6. ok => GoodResult(Passes(parts))
  BY <1>3, <1>4, GoodThree
<1>7. GoodResult(KeyRingOpenV3)
  BY <1>2, <1>6, FailsFacts
<1> QED BY <1>2, <1>5, <1>7 DEF at, parts

\* KeyRing.Open: both of its formats.
LEMMA KeyRingGood ==
  ASSUME raw \in RawRec
  PROVE  /\ GoodResult(KeyRingOpen)
         /\ raw.len >= aeadMinSize /\ raw.ver = 1 => KeyRingOpen = Open
         /\ raw.len >= aeadMinSize /\ raw.ver = 3 => KeyRingOpen = KeyRingOpenV3
         /\ raw.ver \notin {1, 3} =>
              KeyRingOpen.err \in {"ErrUnsupportedVersion", "ErrCiphertextTooShort"}
<1>1. raw.len \in Nat
  BY SizeFacts DEF RawRec
<1>2. CASE raw.len < aeadMinSize
  <2>1. KeyRingOpen = Fails("ErrCiphertextTooShort")
    BY <1>2 DEF KeyRingOpen
  <2>2. ~(raw.len >= aeadMinSize)
    BY <1>1, <1>2, SizeFacts
  <2> QED BY <2>1, <2>2, FailsFacts
<1>3. CASE ~(raw.len < aeadMinSize)
  <2>1. CASE raw.ver = 1
    <3>1. KeyRingOpen = OpenVersion(1) /\ Open = OpenVersion(1)
      BY <1>3, <2>1 DEF KeyRingOpen, openV1WithAEAD, Open
    <3> QED BY <2>1, <3>1, OpenVersionGood
  <2>2. CASE raw.ver = 3
    <3>1. KeyRingOpen = KeyRingOpenV3
      BY <1>3, <2>2 DEF KeyRingOpen
    <3> QED BY <2>2, <3>1, OpenV3Good
  <2>3. CASE raw.ver \notin {1, 3}
    <3>1. KeyRingOpen = Fails("ErrUnsupportedVersion")
      BY <1>3, <2>3 DEF KeyRingOpen
    <3> QED BY <2>3, <3>1, FailsFacts
  <2> QED BY <2>1, <2>2, <2>3
<1> QED BY <1>2, <1>3

\* OpenAsymmetric.
LEMMA AsymmetricGood ==
  ASSUME raw \in RawRec
  PROVE  LET at == 1 + X25519KeySize
         IN /\ GoodResult(OpenAsymmetric)
            /\ raw.len >= at + NonceSize + TagSize /\ raw.ver = 5
               => OpenAsymmetric = Passes([ephPub |-> <<1, at>>, nonce |-> <<at, at + NonceSize>>,
                                           body |-> <<at + NonceSize, raw.len>>])
            /\ raw.ver # 5 =>
                 OpenAsymmetric.err \in {"ErrUnsupportedVersion", "ErrCiphertextTooShort"}
<1> DEFINE at == 1 + X25519KeySize
           parts == [ephPub |-> <<1, at>>, nonce |-> <<at, at + NonceSize>>,
                     body |-> <<at + NonceSize, raw.len>>]
           ok == ~(raw.len < at + NonceSize + TagSize) /\ raw.ver = 5
<1>1. raw.len \in Nat
  BY SizeFacts DEF RawRec
<1>2. /\ ok => OpenAsymmetric = Passes(parts)
      /\ ~ok => \E e \in {"ErrUnsupportedVersion", "ErrCiphertextTooShort"} : OpenAsymmetric = Fails(e)
  BY DEF OpenAsymmetric
<1>3. /\ DOMAIN parts = {"ephPub", "nonce", "body"}
      /\ parts["ephPub"] = <<1, at>> /\ parts["nonce"] = <<at, at + NonceSize>>
      /\ parts["body"] = <<at + NonceSize, raw.len>>
  OBVIOUS
<1>4. /\ at \in Nat /\ at + NonceSize \in Nat /\ 1 \in Nat /\ 1 <= at
      /\ ok => at + NonceSize + TagSize <= raw.len
  BY <1>1, SizeFacts
<1>5. /\ raw.len >= at + NonceSize + TagSize /\ raw.ver = 5 => ok
      /\ raw.ver # 5 => ~ok
  BY <1>1, <1>4, SizeFacts
<1> HIDE DEF parts, ok, at
<1>6. ok => GoodResult(Passes(parts))
  BY <1>3, <1>4, GoodThree
<1>7. GoodResult(OpenAsymmetric)
  BY <1>2, <1>6, FailsFacts
<1>8. ~ok => OpenAsymmetric.err \in {"ErrUnsupportedVersion", "ErrCiphertextTooShort"}
  BY <1>2, FailsFacts
<1> QED BY <1>2, <1>5, <1>7, <1>8 DEF at, parts

\* EnvelopeSealer.Open: the slice bound does not wrap in a message that fits.
LEMMA EnvelopeGood ==
  ASSUME raw \in RawRec
  PROVE  LET at == 5 + raw.wrappedLen
         IN /\ GoodResult(EnvelopeOpen)
            /\ raw.len >= at /\ raw.ver = 6
               => EnvelopeOpen = Passes([wrapped |-> <<5, at>>, inner |-> <<at, raw.len>>])
            /\ raw.ver # 6 =>
                 EnvelopeOpen.err \in {"ErrUnsupportedVersion", "ErrCiphertextTooShort"}
<1> DEFINE at == 5 + raw.wrappedLen
           cut == at % LenMod
           parts == [wrapped |-> <<5, cut>>, inner |-> <<cut, raw.len>>]
           ok == ~(raw.len < 5) /\ raw.ver = 6 /\ ~(at > raw.len)
<1>1. raw.len \in 0 .. LenMod - 1 /\ raw.wrappedLen \in Nat /\ LenMod \in Nat
  BY SizeFacts DEF RawRec
<1>2. /\ ok => EnvelopeOpen = Passes(parts)
      /\ ~ok => \E e \in {"ErrUnsupportedVersion", "ErrCiphertextTooShort"} : EnvelopeOpen = Fails(e)
  BY DEF EnvelopeOpen
<1>3. ok => cut = at
  <2>1. ok => at \in 0 .. LenMod - 1
    BY <1>1
  <2>2. \A x \in 0 .. LenMod - 1 : x % LenMod = x
    BY <1>1
  <2> QED BY <2>1, <2>2
<1>4. /\ at \in Nat /\ 5 <= at /\ ok => at <= raw.len
      /\ raw.len >= at /\ raw.ver = 6 => ok
      /\ raw.ver # 6 => ~ok
  BY <1>1
<1>5. /\ DOMAIN parts = {"wrapped", "inner"}
      /\ parts["wrapped"][1] = 5 /\ parts["wrapped"][2] = cut
      /\ parts["inner"][1] = cut /\ parts["inner"][2] = raw.len
  OBVIOUS
<1>6. at \in Nat /\ 5 <= at
  BY <1>1
<1> HIDE DEF parts, ok, cut, at
<1>7. Passes(parts).err = "nil" /\ Passes(parts).parts = parts
  BY PassesFacts
<1>8. ASSUME ok PROVE GoodResult(Passes(parts))
  <2>1. cut = at /\ at <= raw.len /\ 0 <= at /\ 0 <= 5 /\ raw.len <= raw.len
    BY <1>1, <1>3, <1>4, <1>6, <1>8
  <2> QED BY <1>5, <1>6, <1>7, <2>1 DEF GoodResult
<1>9. GoodResult(EnvelopeOpen)
  BY <1>2, <1>8, FailsFacts
<1>10. ~ok => EnvelopeOpen.err \in {"ErrUnsupportedVersion", "ErrCiphertextTooShort"}
  BY <1>2, FailsFacts
<1>11. ok => parts = [wrapped |-> <<5, at>>, inner |-> <<at, raw.len>>]
  BY <1>3 DEF parts
<1> QED BY <1>2, <1>4, <1>9, <1>10, <1>11 DEF at
-----------------------------------------------------------------------------
(* Untouched messages                                                      *)

Refusals == {"ErrUnsupportedVersion", "ErrCiphertextTooShort"}

\* Each format has a version byte of its own.
LEMMA VersionFacts ==
  /\ Version["v1"] = 1 /\ Version["v2"] = 2 /\ Version["v3"] = 3
  /\ Version["v5"] = 5 /\ Version["v6"] = 6
BY DEF Version

\* An opener takes its own format's messages apart as they were put together.
LEMMA OwnRecovered ==
  ASSUME WireInv, layout # NoLayout
  PROVE  /\ layout.kind = "v1" => Open = Passes(layout.parts) /\ KeyRingOpen = Passes(layout.parts)
         /\ layout.kind = "v2" => OpenChaCha20 = Passes(layout.parts)
         /\ layout.kind = "v3" => KeyRingOpen = Passes(layout.parts)
         /\ layout.kind = "v5" => OpenAsymmetric = Passes(layout.parts)
         /\ layout.kind = "v6" => EnvelopeOpen = Passes(layout.parts)
<1>1. PICK n \in 0 .. MaxPt : Whole(layout.kind, n)
  BY DEF WireInv
<1>2. raw \in RawRec /\ n \in Nat /\ raw.len \in Nat /\ raw.kidLen \in Nat /\ raw.wrappedLen \in Nat
  BY SizeFacts DEF WireInv, RawRec
<1>3. ASSUME NEW v, layout.parts = Seal(n), raw.len = aeadMinSize + n, raw.ver = v
      PROVE  OpenVersion(v) = Passes(layout.parts) /\ raw.len >= aeadMinSize
  <2>1. raw.len >= aeadMinSize
    BY <1>2, <1>3, SizeFacts
  <2>2. aeadHeaderSize + n + TagSize = raw.len
    BY <1>2, <1>3, SizeFacts
  <2>3. OpenVersion(v) = Passes([nonce |-> <<1, aeadHeaderSize>>, body |-> <<aeadHeaderSize, raw.len>>])
    BY <1>2, <1>3, <2>1, OpenVersionGood
  <2> QED BY <1>3, <2>1, <2>2, <2>3 DEF Seal
<1>4. CASE layout.kind = "v1"
  <2>1. layout.parts = Seal(n) /\ raw.len = aeadMinSize + n /\ raw.ver = 1
    BY <1>1, <1>4, VersionFacts DEF Whole
  <2>2. Open = Passes(layout.parts) /\ raw.len >= aeadMinSize
    BY <1>3, <2>1 DEF Open
  <2> QED BY <1>2, <1>4, <2>1, <2>2, KeyRingGood
<1>5. CASE layout.kind = "v2"
  <2>1. layout.parts = Seal(n) /\ raw.len = aeadMinSize + n /\ raw.ver = 2
    BY <1>1, <1>5, VersionFacts DEF Whole
  <2> QED BY <1>3, <1>5, <2>1 DEF OpenChaCha20
<1>6. CASE layout.kind = "v3"
  <2> DEFINE at == 2 + raw.kidLen
  <2>1. /\ raw.kidLen \in 1 .. MaxKidLen /\ layout.parts = KeyRingSeal(raw.kidLen, n)
        /\ raw.len = 1 + raw.kidLen + aeadMinSize + n /\ raw.ver = 3
    BY <1>1, <1>6, VersionFacts DEF Whole
  <2>2. /\ raw.len >= aeadMinSize /\ raw.len >= 2 /\ raw.len >= at + NonceSize + TagSize
        /\ at + NonceSize + n + TagSize = raw.len
    BY <1>2, <2>1, SizeFacts
  <2>3. KeyRingOpenV3 = Passes([kid |-> <<2, at>>, nonce |-> <<at, at + NonceSize>>,
                                body |-> <<at + NonceSize, raw.len>>])
    BY <1>2, <2>1, <2>2, OpenV3Good
  <2>4. KeyRingSeal(raw.kidLen, n) = [kid |-> <<2, at>>, nonce |-> <<at, at + NonceSize>>,
                                      body |-> <<at + NonceSize, raw.len>>]
    BY <2>2 DEF KeyRingSeal
  <2>5. KeyRingOpen = KeyRingOpenV3
    BY <1>2, <2>1, <2>2, KeyRingGood
  <2> QED BY <1>6, <2>1, <2>3, <2>4, <2>5
<1>7. CASE layout.kind = "v5"
  <2> DEFINE at == 1 + X25519KeySize
  <2>1. /\ layout.parts = SealAsymmetric(n) /\ raw.len = X25519KeySize + aeadMinSize + n
        /\ raw.ver = 5
    BY <1>1, <1>7, VersionFacts DEF Whole
  <2>2. raw.len >= at + NonceSize + TagSize /\ at + NonceSize + n + TagSize = raw.len
    BY <1>2, <2>1, SizeFacts
  <2>3. OpenAsymmetric = Passes([ephPub |-> <<1, at>>, nonce |-> <<at, at + NonceSize>>,
                                 body |-> <<at + NonceSize, raw.len>>])
    BY <1>2, <2>1, <2>2, AsymmetricGood
  <2>4. SealAsymmetric(n) = [ephPub |-> <<1, at>>, nonce |-> <<at, at + NonceSize>>,
                             body |-> <<at + NonceSize, raw.len>>]
    BY <2>2 DEF SealAsymmetric
  <2> QED BY <1>7, <2>1, <2>3, <2>4
<1>8. CASE layout.kind = "v6"
  <2> DEFINE at == 5 + raw.wrappedLen
  <2>1. /\ layout.parts = EnvelopeSeal(raw.wrappedLen, n)
        /\ raw.len = 5 + raw.wrappedLen + aeadMinSize + n /\ raw.ver = 6
    BY <1>1, <1>8, VersionFacts DEF Whole
  <2>2. raw.len >= at
    BY <1>2, <2>1, SizeFacts
  <2>3. EnvelopeOpen = Passes([wrapped |-> <<5, at>>, inner |-> <<at, raw.len>>])
    BY <1>2, <2>1, <2>2, EnvelopeGood
  <2>4. EnvelopeSeal(raw.wrappedLen, n) = [wrapped |-> <<5, at>>, inner |-> <<at, raw.len>>]
    BY <2>1 DEF EnvelopeSeal
  <2> QED BY <1>8, <2>1, <2>3, <2>4
<1> QED BY <1>4, <1>5, <1>6, <1>7, <1>8

\* And refuses every other format's.
LEMMA OthersRefused ==
  ASSUME WireInv, layout # NoLayout
  PROVE  /\ layout.kind # "v1" => Open.err \in Refusals
         /\ layout.kind # "v2" => OpenChaCha20.err \in Refusals
         /\ layout.kind \notin {"v1", "v3"} => KeyRingOpen.err \in Refusals
         /\ layout.kind # "v5" => OpenAsymmetric.err \in Refusals
         /\ layout.kind # "v6" => EnvelopeOpen.err \in Refusals
<1>1. raw \in RawRec /\ layout.kind \in Kinds /\ raw.ver = Version[layout.kind]
  BY DEF WireInv, Whole
<1>2. /\ layout.kind # "v1" => raw.ver # 1
      /\ layout.kind # "v2" => raw.ver # 2
      /\ layout.kind \notin {"v1", "v3"} => raw.ver \notin {1, 3}
      /\ layout.kind # "v5" => raw.ver # 5
      /\ layout.kind # "v6" => raw.ver # 6
  BY <1>1, VersionFacts DEF Kinds
<1>3. layout.kind # "v1" => Open.err \in Refusals
  BY <1>1, <1>2, OpenVersionGood DEF Open, Refusals
<1>4. layout.kind # "v2" => OpenChaCha20.err \in Refusals
  BY <1>1, <1>2, OpenVersionGood DEF OpenChaCha20, Refusals
<1>5. layout.kind \notin {"v1", "v3"} => KeyRingOpen.err \in Refusals
  BY <1>1, <1>2, KeyRingGood DEF Refusals
<1>6. layout.kind # "v5" => OpenAsymmetric.err \in Refusals
  BY <1>1, <1>2, AsymmetricGood DEF Refusals
<1>7. layout.kind # "v6" => EnvelopeOpen.err \in Refusals
  BY <1>1, <1>2, EnvelopeGood DEF Refusals
<1> QED BY <1>3, <1>4, <1>5, <1>6, <1>7

\* PartsRecovered of a result, before it is returned.
Recovers(name, r) ==
  layout # NoLayout =>
    IF \/ layout.kind = "v1" /\ name \in {"Open", "Sealer.Open", "MultiKeyReader.Open",
                                         "KeyRing.Open"}
       \/ layout.kind = "v2" /\ name = "OpenChaCha20"
       \/ layout.kind = "v3" /\ name = "KeyRing.Open"
       \/ layout.kind = "v5" /\ name = "OpenAsymmetric"
       \/ layout.kind = "v6" /\ name = "EnvelopeSealer.Open"
    THEN r = Passes(layout.parts)
    ELSE r.err \in Refusals

\* What each opener passes on is good and recovered.
LEMMA OpenersGood ==
  ASSUME WireInv
  PROVE  /\ GoodResult(Open) /\ GoodResult(OpenChaCha20) /\ GoodResult(OpenAsymmetric)
         /\ GoodResult(KeyRingOpen) /\ GoodResult(EnvelopeOpen)
         /\ \A name \in {"Open", "Sealer.Open", "MultiKeyReader.Open"} : Recovers(name, Open)
         /\ Recovers("OpenChaCha20", OpenChaCha20) /\ Recovers("OpenAsymmetric", OpenAsymmetric)
         /\ Recovers("KeyRing.Open", KeyRingOpen) /\ Recovers("EnvelopeSealer.Open", EnvelopeOpen)
<1>1. raw \in RawRec
  BY DEF WireInv
<1>2. GoodResult(Open) /\ GoodResult(OpenChaCha20)
  BY <1>1, OpenVersionGood DEF Open, OpenChaCha20
<1>3. GoodResult(OpenAsymmetric) /\ GoodResult(KeyRingOpen) /\ GoodResult(EnvelopeOpen)
  BY <1>1, AsymmetricGood, KeyRingGood, EnvelopeGood
<1>4. \A name \in {"Open", "Sealer.Open", "MultiKeyReader.Open"} : Recovers(name, Open)
  BY OwnRecovered, OthersRefused DEF Recovers
<1>5. Recovers("OpenChaCha20", OpenChaCha20) /\ Recovers("OpenAsymmetric", OpenAsymmetric)
  BY OwnRecovered, OthersRefused DEF Recovers
<1>6. Recovers("KeyRing.Open", KeyRingOpen) /\ Recovers("EnvelopeSealer.Open", EnvelopeOpen)
  BY OwnRecovered, OthersRefused DEF Recovers
<1> QED BY <1>2, <1>3, <1>4, <1>5, <1>6

\* A returned result keeps NoPanic, WholeParts and PartsRecovered.
LEMMA ReturnInv ==
  ASSUME WireInv, NEW name, NEW r, GoodResult(r),
         r.err = "ErrInvalidKey" \/ Recovers(name, r),
         opener' = name, res' = r, raw' = raw, layout' = layout
  PROVE  NoPanic' /\ WholeParts' /\ PartsRecovered'
<1>1. NoPanic' /\ WholeParts'
  BY DEF GoodResult, NoPanic, WholeParts
<1>2. PartsRecovered'
  BY DEF Recovers, PartsRecovered, Refusals
<1> QED BY <1>1, <1>2
-----------------------------------------------------------------------------
(* Keys                                                                    *)

\* Derived keys are told apart by the party they are derived for.
LEMMA TenantKeys ==
  ASSUME NEW p, NEW q
  PROVE  deriveTenantKey(p) = deriveTenantKey(q) <=> p = q
<1>1. Root # NoKey
  BY RecipientsAssumption
<1>2. \A x : deriveTenantKey(x) = [master |-> Root, info |-> x, len |-> AEADKeySize]
  BY <1>1 DEF deriveTenantKey, DeriveKey, AEADKeySize
<1>3. [master |-> Root, info |-> p, len |-> AEADKeySize].info = p
  OBVIOUS
<1>4. [master |-> Root, info |-> q, len |-> AEADKeySize].info = q
  OBVIOUS
<1> QED BY <1>2, <1>3, <1>4

\* So are agreed secrets, and both ends agree.
LEMMA AgreedKeys ==
  ASSUME NEW p, NEW q
  PROVE  X25519(p, "eph") = X25519("eph", q) <=> p = q
<1>1. X25519(p, "eph") = [agreed |-> {p, "eph"}] /\ X25519("eph", q) = [agreed |-> {"eph", q}]
  BY DEF X25519
<1>2. X25519(p, "eph") = X25519("eph", q) <=> {p, "eph"} = {"eph", q}
  BY <1>1
<1>3. {p, "eph"} = {"eph", q} <=> p = q
  OBVIOUS
<1> QED BY <1>2, <1>3

\* The opener a party calls on its own format opens the message with the
\* owner's key only.
LEMMA KeysMatch ==
  ASSUME OwnerInv, layout # NoLayout, NEW p, NEW name, Own(name)
  PROVE  OpenKey(name, p) = under <=> p = owner
<1>1. under = SealKey(layout.kind, owner)
  BY DEF OwnerInv
<1>2. CASE layout.kind = "v5"
  <2>1. name = "OpenAsymmetric"
    BY <1>2 DEF Own
  <2> QED BY <1>1, <1>2, <2>1, AgreedKeys DEF SealKey, OpenKey
<1>3. CASE layout.kind # "v5"
  <2>1. name # "OpenAsymmetric"
    BY <1>3 DEF Own
  <2> QED BY <1>1, <1>3, <2>1, TenantKeys DEF SealKey, OpenKey
<1> QED BY <1>2, <1>3

\* The openers that take one party's key, and what they pass on.
Opener(name, r) ==
  \/ name \in {"Open", "Sealer.Open"} /\ r = Open
  \/ name = "OpenChaCha20" /\ r = OpenChaCha20
  \/ name = "OpenAsymmetric" /\ r = OpenAsymmetric

\* An opener passes an untouched message of its own format and no other.
LEMMA PassesOwn ==
  ASSUME WireInv, layout # NoLayout, NEW name, NEW r, Opener(name, r)
  PROVE  r.err = "nil" <=> Own(name)
<1>1. \A e \in Refusals : e # "nil"
  BY DEF Refusals
<1>2. Passes(layout.parts).err = "nil"
  BY PassesFacts
<1>3. CASE name \in {"Open", "Sealer.Open"} /\ r = Open
  BY <1>1, <1>2, <1>3, OwnRecovered, OthersRefused DEF Own
<1>4. CASE name = "OpenChaCha20" /\ r = OpenChaCha20
  BY <1>1, <1>2, <1>4, OwnRecovered, OthersRefused DEF Own
<1>5. CASE name = "OpenAsymmetric" /\ r = OpenAsymmetric
  BY <1>1, <1>2, <1>5, OwnRecovered, OthersRefused DEF Own
<1> QED BY <1>3, <1>4, <1>5 DEF Opener

\* With one key: success for the owner on its own format, and the error told
\* for another key on it.
LEMMA OpenedFacts ==
  ASSUME WireInv, OwnerInv, NEW name, NEW r, Opener(name, r), NEW p \in Parties \cup {NoKey}
  PROVE  /\ \A e \in Opened(name, r, p) : e = "nil" <=> Own(name) /\ p = owner
         /\ Own(name) /\ p = owner => Opened(name, r, p) = {"nil"}
         /\ Own(name) /\ p # owner =>
              Opened(name, r, p) = {IF p = NoKey THEN "ErrInvalidKey" ELSE "ErrTampered"}
<1>1. owner # NoKey
  BY RecipientsAssumption DEF OwnerInv
<1>2. CASE p = NoKey
  BY <1>1, <1>2 DEF Opened
<1>3. CASE p # NoKey /\ layout = NoLayout
  <2>1. ~Own(name)
    BY <1>3 DEF Own, NoLayout
  <2>2. \A e \in Opened(name, r, p) : e # "nil"
    BY <1>3 DEF Opened
  <2> QED BY <2>1, <2>2
<1>4. CASE p # NoKey /\ layout # NoLayout /\ ~Own(name)
  <2>1. r.err # "nil"
    BY <1>4, PassesOwn
  <2>2. Opened(name, r, p) = {r.err}
    BY <1>4, <2>1 DEF Opened
  <2> QED BY <1>4, <2>1, <2>2
<1>5. CASE p # NoKey /\ layout # NoLayout /\ Own(name)
  <2>1. r.err = "nil"
    BY <1>5, PassesOwn
  <2>2. OpenKey(name, p) = under <=> p = owner
    BY <1>5, KeysMatch
  <2>3. Opened(name, r, p) = IF p = owner THEN {"nil"} ELSE {"ErrTampered"}
    BY <1>5, <2>1, <2>2 DEF Opened
  <2> QED BY <1>5, <2>3
<1> QED BY <1>2, <1>3, <1>4, <1>5

-----------------------------------------------------------------------------
(* The steps                                                               *)

\* What a step that calls no opener again keeps.
LEMMA KeptInv ==
  ASSUME IInv, UNCHANGED vars
  PROVE  IInv'
<1>1. /\ raw' = raw /\ layout' = layout /\ opener' = opener /\ res' = res
      /\ owner' = owner /\ under' = under /\ readers' = readers /\ err' = err
  BY DEF vars, wireVars
<1>2. WireInv' /\ OwnerInv' /\ Waiting'
  BY <1>1 DEF IInv, WireInv, Whole, OwnerInv, Waiting
<1>3. NoPanic' /\ WholeParts' /\ PartsRecovered'
  BY <1>1 DEF IInv, NoPanic, WholeParts, PartsRecovered
<1>4. OnlyOwnerReads'
  BY <1>1 DEF IInv, OnlyOwnerReads, Own
<1> QED BY <1>2, <1>3, <1>4 DEF IInv

\* What is left of the invariant while the message and the owner stay.
LEMMA StayInv ==
  ASSUME WireInv, OwnerInv, UNCHANGED <<raw, layout, owner, under>>
  PROVE  WireInv' /\ OwnerInv'
BY DEF WireInv, Whole, OwnerInv

\* Something happens to the message on its way.
LEMMA TouchInv ==
  ASSUME MessagesFit, IInv, Touch, UNCHANGED <<owner, under, readers, err>>
  PROVE  IInv'
<1>1. /\ opener = "none" /\ layout' = NoLayout /\ opener' = opener /\ res' = res
      /\ owner' = owner /\ under' = under /\ readers' = readers /\ err' = err
  BY DEF Touch
<1>2. raw \in RawRec /\ owner \in Parties /\ res = Pending /\ readers = <<>>
  BY <1>1 DEF IInv, WireInv, OwnerInv, Waiting
<1>3. raw' \in RawRec
  <2>1. ASSUME NEW n \in Lengths, Resize(n) PROVE raw' \in RawRec
    <3>1. n \in 0 .. LenMod - 1
      BY WireAssumption DEF MessagesFit
    <3> QED BY <1>2, <2>1, <3>1 DEF Resize, RawRec
  <2>2. ASSUME NEW v \in Versions, NEW k \in 0 .. ByteMod - 1, NEW w \in 0 .. LenMod - 1,
               Rewrite(v, k, w)
        PROVE  raw' \in RawRec
    BY <1>2, <2>2 DEF Rewrite, RawRec
  <2>3. raw.ver \in Versions /\ raw.kidLen \in 0 .. ByteMod - 1 /\ raw.wrappedLen \in 0 .. LenMod - 1
    BY <1>2 DEF RawRec
  <2> QED BY <2>1, <2>2, <2>3 DEF Touch
<1>4. WireInv' /\ OwnerInv' /\ Waiting'
  BY <1>1, <1>2, <1>3 DEF WireInv, OwnerInv, Waiting
<1>5. res'.err = "none" /\ DOMAIN res'.parts = {}
  <2>1. DOMAIN NoParts = {}
    BY DEF NoParts
  <2> HIDE DEF NoParts
  <2> QED BY <1>1, <1>2, <2>1 DEF Pending
<1>6. NoPanic' /\ WholeParts' /\ PartsRecovered'
  BY <1>5 DEF NoPanic, WholeParts, PartsRecovered
<1>7. OnlyOwnerReads'
  BY <1>1, <1>2 DEF OnlyOwnerReads
<1> QED BY <1>4, <1>6, <1>7 DEF IInv

\* The result a call returns, with keys or without.
LEMMA CalledInv ==
  ASSUME IInv, NEW name, name # "none", NEW r, NEW ps, NEW errs,
         GoodResult(r), Recovers(name, r), Called(name, r, ps, errs)
  PROVE  /\ WireInv' /\ OwnerInv' /\ Waiting' /\ NoPanic' /\ WholeParts' /\ PartsRecovered'
         /\ opener' = name /\ readers' = ps /\ err' \in errs /\ owner' = owner
         /\ layout' = layout
<1>1. /\ opener' = name /\ readers' = ps /\ err' \in errs
      /\ UNCHANGED <<raw, layout, owner, under>>
      /\ res' = r \/ res' = Fails("ErrInvalidKey")
  BY DEF Called, Return
<1>2. WireInv /\ OwnerInv
  BY DEF IInv
<1>3. WireInv' /\ OwnerInv'
  BY <1>1, <1>2, StayInv
<1>4. Waiting'
  BY <1>1 DEF Waiting
<1>5. /\ GoodResult(Fails("ErrInvalidKey"))
      /\ Fails("ErrInvalidKey").err = "ErrInvalidKey"
  BY FailsFacts
<1>6. NoPanic' /\ WholeParts' /\ PartsRecovered'
  BY <1>1, <1>2, <1>5, ReturnInv
<1> QED BY <1>1, <1>3, <1>4, <1>6

\* A call with one key.
LEMMA OpenWithInv ==
  ASSUME IInv, NEW name, NEW r, Opener(name, r), NEW p \in Parties \cup {NoKey},
         OpenWith(name, r, p)
  PROVE  IInv'
<1>1. WireInv /\ OwnerInv
  BY DEF IInv
<1>2. GoodResult(r) /\ Recovers(name, r) /\ name # "none"
  BY <1>1, OpenersGood DEF Opener
<1>3. Called(name, r, <<p>>, Opened(name, r, p))
  BY DEF OpenWith
<1>4. /\ WireInv' /\ OwnerInv' /\ Waiting' /\ NoPanic' /\ WholeParts' /\ PartsRecovered'
      /\ opener' = name /\ readers' = <<p>> /\ err' \in Opened(name, r, p) /\ owner' = owner
      /\ layout' = layout
  BY <1>2, <1>3, CalledInv
<1>5. /\ err' = "nil" <=> Own(name) /\ p = owner
      /\ Own(name) /\ p # owner => err' = IF p = NoKey THEN "ErrInvalidKey" ELSE "ErrTampered"
  BY <1>1, <1>4, OpenedFacts
<1>6. Own(name)' <=> Own(name)
  BY <1>4 DEF Own
<1>7. OnlyOwnerReads'
  <2>1. (\E i \in DOMAIN readers' : readers'[i] = owner') <=> p = owner
    BY <1>4
  <2>2. readers'[Len(readers')] = p
    BY <1>4
  <2>3. Own(opener)' <=> Own(name)
    BY <1>4 DEF Own
  <2> QED BY <1>5, <2>1, <2>2, <2>3 DEF OnlyOwnerReads
<1> QED BY <1>4, <1>7 DEF IInv

\* A call with two keys, tried in turn.
LEMMA MultiKeyInv ==
  ASSUME IInv, NEW p \in Parties \cup {NoKey}, NEW q \in Parties \cup {NoKey},
         MultiKeyReaderOpen(<<p, q>>)
  PROVE  IInv'
<1> DEFINE name == "MultiKeyReader.Open"
           ps == <<p, q>>
<1>1. WireInv /\ OwnerInv
  BY DEF IInv
<1>2. GoodResult(Open) /\ Recovers(name, Open) /\ name # "none"
  BY <1>1, OpenersGood
<1>3. Called(name, Open, ps, MultiOpened(ps))
  BY DEF MultiKeyReaderOpen
<1>4. DOMAIN ps = {1, 2} /\ ps[1] = p /\ ps[2] = q /\ Len(ps) = 2
  OBVIOUS
<1> HIDE DEF ps
<1>5. /\ WireInv' /\ OwnerInv' /\ Waiting' /\ NoPanic' /\ WholeParts' /\ PartsRecovered'
      /\ opener' = name /\ readers' = ps /\ err' \in MultiOpened(ps) /\ owner' = owner
      /\ layout' = layout
  BY <1>2, <1>3, CalledInv
<1>6. Opener("Open", Open)
  BY DEF Opener
<1>7. ASSUME NEW x \in {p, q}
      PROVE  /\ \A e \in Opened("Open", Open, x) : e = "nil" <=> Own("Open") /\ x = owner
             /\ "nil" \in Opened("Open", Open, x) <=> Own("Open") /\ x = owner
             /\ Own("Open") /\ x # owner =>
                  Opened("Open", Open, x) = {IF x = NoKey THEN "ErrInvalidKey" ELSE "ErrTampered"}
  <2>1. x \in Parties \cup {NoKey}
    OBVIOUS
  <2> QED BY <1>1, <1>6, <2>1, OpenedFacts
<1>8. MultiOpened(ps) = IF Own("Open") /\ (p = owner \/ q = owner) THEN {"nil"}
                        ELSE Opened("Open", Open, q)
  <2>1. (\E i \in DOMAIN ps : "nil" \in Opened("Open", Open, ps[i])) <=>
          Own("Open") /\ (p = owner \/ q = owner)
    BY <1>4, <1>7
  <2> QED BY <1>4, <2>1 DEF MultiOpened
<1>9. /\ err' = "nil" <=> Own("Open") /\ (p = owner \/ q = owner)
      /\ Own("Open") /\ ~(p = owner \/ q = owner) =>
           err' = IF q = NoKey THEN "ErrInvalidKey" ELSE "ErrTampered"
  BY <1>5, <1>7, <1>8
<1>10. OnlyOwnerReads'
  <2>1. (\E i \in DOMAIN readers' : readers'[i] = owner') <=> p = owner \/ q = owner
    BY <1>4, <1>5
  <2>2. readers'[Len(readers')] = q
    BY <1>4, <1>5
  <2>3. Own(opener)' <=> Own("Open")
    BY <1>5 DEF Own
  <2> QED BY <1>9, <2>1, <2>2, <2>3 DEF OnlyOwnerReads
<1> QED BY <1>5, <1>10 DEF IInv

\* KeyRing and EnvelopeSealer.
LEMMA ElsewhereInv ==
  ASSUME IInv, NEW name, NEW r, OpenElsewhere(name, r),
         \/ name = "KeyRing.Open" /\ r = KeyRingOpen
         \/ name = "EnvelopeSealer.Open" /\ r = EnvelopeOpen
  PROVE  IInv'
<1>1. /\ opener = "none" /\ opener' = name /\ res' = r
      /\ UNCHANGED <<raw, layout, owner, under, readers>>
  BY DEF OpenElsewhere, Return
<1>2. WireInv /\ OwnerInv /\ readers = <<>>
  BY <1>1 DEF IInv, Waiting
<1>3. GoodResult(r) /\ Recovers(name, r) /\ name # "none"
  BY <1>2, OpenersGood
<1>4. NoPanic' /\ WholeParts' /\ PartsRecovered'
  BY <1>1, <1>2, <1>3, ReturnInv
<1>5. WireInv' /\ OwnerInv'
  BY <1>1, <1>2, StayInv
<1>6. Waiting' /\ OnlyOwnerReads'
  BY <1>1, <1>2, <1>3 DEF Waiting, OnlyOwnerReads
<1> QED BY <1>4, <1>5, <1>6 DEF IInv

\* What a sealer makes is a whole message of its kind.
LEMMA SealedInv ==
  ASSUME MessagesFit, NEW kind \in Kinds, NEW parts, NEW n \in 0 .. MaxPt,
         NEW k \in 0 .. ByteMod - 1, NEW w \in 0 .. LenMod - 1,
         NEW size \in 0 .. LenMod - 1, Sealed(kind, parts, size, k, w),
         kind \in {"v1", "v2"} => parts = Seal(n) /\ size = aeadMinSize + n,
         kind = "v3" => /\ k \in 1 .. MaxKidLen /\ parts = KeyRingSeal(k, n)
                        /\ size = 1 + k + aeadMinSize + n,
         kind = "v5" => parts = SealAsymmetric(n) /\ size = X25519KeySize + aeadMinSize + n,
         kind = "v6" => parts = EnvelopeSeal(w, n) /\ size = 5 + w + aeadMinSize + n
  PROVE  WireInv
<1>1. /\ raw = [len |-> size, ver |-> Version[kind], kidLen |-> k, wrappedLen |-> w]
      /\ layout = [kind |-> kind, parts |-> parts]
  BY DEF Sealed
<1>2. Version[kind] \in Versions
  BY VersionFacts DEF Kinds, Versions
<1>3. /\ raw \in RawRec /\ raw.len = size /\ raw.ver = Version[kind]
      /\ raw.kidLen = k /\ raw.wrappedLen = w
  BY <1>1, <1>2 DEF RawRec
<1>4. layout.kind = kind /\ layout.parts = parts
  BY <1>1
<1>5. Whole(layout.kind, n)
  BY <1>3, <1>4 DEF Whole
<1> QED BY <1>3, <1>4, <1>5 DEF WireInv

\* Every sealer's messages fit.
LEMMA SealedFits ==
  ASSUME MessagesFit, NEW n \in 0 .. MaxPt
  PROVE  /\ aeadMinSize + n \in 0 .. LenMod - 1
         /\ X25519KeySize + aeadMinSize + n \in 0 .. LenMod - 1
         /\ \A k \in 1 .. MaxKidLen : 1 + k + aeadMinSize + n \in 0 .. LenMod - 1
         /\ \A w \in 0 .. MaxWrapped : 5 + w + aeadMinSize + n \in 0 .. LenMod - 1
<1>1. aeadMinSize \in Nat /\ n \in Nat /\ n <= MaxPt
  BY SizeFacts
<1> QED BY <1>1, SizeFacts DEF MessagesFit

\* A message as it leaves its sealer.
LEMMA InitInv ==
  ASSUME MessagesFit, Init
  PROVE  IInv
<1>1. PICK n \in 0 .. MaxPt, k \in 0 .. ByteMod - 1, w \in 0 .. LenMod - 1 :
        \/ Sealed("v1", Seal(n), aeadMinSize + n, k, w)
        \/ Sealed("v1", SealerSeal(n), aeadMinSize + n, k, w)
        \/ Sealed("v2", SealChaCha20(n), aeadMinSize + n, k, w)
        \/ k \in 1 .. MaxKidLen
           /\ Sealed("v3", KeyRingSeal(k, n), 1 + k + aeadMinSize + n, k, w)
        \/ Sealed("v5", SealAsymmetric(n), X25519KeySize + aeadMinSize + n, k, w)
        \/ w <= MaxWrapped
           /\ Sealed("v6", EnvelopeSeal(w, n), 5 + w + aeadMinSize + n, k, w)
  BY DEF Init, InitWire
<1>2. SealerSeal(n) = Seal(n) /\ SealChaCha20(n) = Seal(n)
  BY DEF SealerSeal, SealChaCha20
<1>3. \A kind \in {"v1", "v2", "v3", "v5", "v6"} : kind \in Kinds
  BY DEF Kinds
<1>4. WireInv
  <2>1. CASE \E kind \in {"v1", "v2"} : Sealed(kind, Seal(n), aeadMinSize + n, k, w)
    <3>1. PICK kind \in {"v1", "v2"} : Sealed(kind, Seal(n), aeadMinSize + n, k, w)
      BY <2>1
    <3>2. kind \in Kinds /\ kind # "v3" /\ kind # "v5" /\ kind # "v6"
      BY <1>3
    <3>3. aeadMinSize + n \in 0 .. LenMod - 1
      BY SealedFits
    <3> QED BY <3>1, <3>2, <3>3, SealedInv
  <2>2. CASE /\ k \in 1 .. MaxKidLen
             /\ Sealed("v3", KeyRingSeal(k, n), 1 + k + aeadMinSize + n, k, w)
    <3>1. 1 + k + aeadMinSize + n \in 0 .. LenMod - 1
      BY <2>2, SealedFits
    <3> QED BY <1>3, <2>2, <3>1, SealedInv
  <2>3. CASE Sealed("v5", SealAsymmetric(n), X25519KeySize + aeadMinSize + n, k, w)
    <3>1. X25519KeySize + aeadMinSize + n \in 0 .. LenMod - 1
      BY SealedFits
    <3> QED BY <1>3, <2>3, <3>1, SealedInv
  <2>4. CASE /\ w <= MaxWrapped
             /\ Sealed("v6", EnvelopeSeal(w, n), 5 + w + aeadMinSize + n, k, w)
    <3>1. w \in 0 .. MaxWrapped
      BY <2>4, SizeFacts
    <3>2. 5 + w + aeadMinSize + n \in 0 .. LenMod - 1
      BY <3>1, SealedFits
    <3> QED BY <1>3, <2>4, <3>2, SealedInv
  <2> QED BY <1>1, <1>2, <2>1, <2>2, <2>3, <2>4
<1>5. /\ opener = "none" /\ res = Pending /\ readers = <<>>
      /\ owner \in Parties /\ under = SealKey(layout.kind, owner)
  BY DEF Init, InitWire
<1>6. OwnerInv /\ Waiting /\ OnlyOwnerReads
  BY <1>5 DEF OwnerInv, Waiting, OnlyOwnerReads
<1>7. res.err = "none" /\ DOMAIN res.parts = {}
  <2>1. DOMAIN NoParts = {}
    BY DEF NoParts
  <2> HIDE DEF NoParts
  <2> QED BY <1>5, <2>1 DEF Pending
<1>8. NoPanic /\ WholeParts /\ PartsRecovered
  BY <1>7 DEF NoPanic, WholeParts, PartsRecovered
<1> QED BY <1>4, <1>6, <1>8 DEF IInv

\* Every step of the specification.
LEMMA StepInv ==
  ASSUME MessagesFit, IInv, [Next]_vars
  PROVE  IInv'
<1>1. CASE Touch /\ UNCHANGED <<owner, under, readers, err>>
  BY <1>1, TouchInv
<1>2. /\ Opener("Open", Open) /\ Opener("OpenChaCha20", OpenChaCha20)
      /\ Opener("OpenAsymmetric", OpenAsymmetric) /\ Opener("Sealer.Open", Open)
      /\ SealerOpen = Open
  BY DEF Opener, SealerOpen, Open
<1>3. ASSUME NEW p \in Parties \cup {NoKey},
             \/ OpenWith("Open", Open, p)
             \/ OpenWith("OpenChaCha20", OpenChaCha20, p)
             \/ OpenWith("OpenAsymmetric", OpenAsymmetric, p)
      PROVE  IInv'
  BY <1>2, <1>3, OpenWithInv
<1>4. ASSUME NEW p \in Parties, OpenWith("Sealer.Open", SealerOpen, p)
      PROVE  IInv'
  <2>1. p \in Parties \cup {NoKey} /\ OpenWith("Sealer.Open", Open, p)
    BY <1>2, <1>4
  <2> QED BY <1>2, <2>1, OpenWithInv
<1>5. ASSUME NEW p \in Parties \cup {NoKey}, NEW q \in Parties \cup {NoKey},
             MultiKeyReaderOpen(<<p, q>>)
      PROVE  IInv'
  BY <1>5, MultiKeyInv
<1>6. CASE OpenElsewhere("KeyRing.Open", KeyRingOpen)
  BY <1>6, ElsewhereInv
<1>7. CASE OpenElsewhere("EnvelopeSealer.Open", EnvelopeOpen)
  BY <1>7, ElsewhereInv
<1>8. CASE UNCHANGED vars
  BY <1>8, KeptInv
<1> QED BY <1>1, <1>3, <1>4, <1>5, <1>6, <1>7, <1>8 DEF Next

\* The inductive invariant.
LEMMA Inv ==
  ASSUME MessagesFit
  PROVE  Spec => []IInv
<1>1. Init => IInv
  BY InitInv
<1>2. IInv /\ [Next]_vars => IInv'
  BY StepInv
<1> QED BY <1>1, <1>2, PTL DEF Spec
-----------------------------------------------------------------------------
\* No opener slices beyond the message, whatever its bytes and its length
\* (the header checks of aead.go, chacha20.go, keyring.go, asymmetric.go and
\* kms.go), as long as it is shorter than 4 GiB.
THEOREM OpenersNeverPanic ==
  ASSUME MessagesFit
  PROVE  Spec => []NoPanic
<1>1. IInv => NoPanic
  BY DEF IInv
<1> QED BY <1>1, Inv, PTL

\* No cipher is called with a nonce of another size or with less than a tag,
\* and every part is followed by the next up to the end of the message.
THEOREM CiphersGetWholeParts ==
  ASSUME MessagesFit
  PROVE  Spec => []WholeParts
<1>1. IInv => WholeParts
  BY DEF IInv
<1> QED BY <1>1, Inv, PTL

\* An untouched message is taken apart as it was put together by the openers
\* of its own format and refused by those of the others.
THEOREM FormatsStayApart ==
  ASSUME MessagesFit
  PROVE  Spec => []PartsRecovered
<1>1. IInv => PartsRecovered
  BY DEF IInv
<1> QED BY <1>1, Inv, PTL

\* A message is read with its owner's key on its own format, untouched, and
\* never otherwise; MultiKeyReader's answer is that of its keys together.
THEOREM OnlyTheOwnerReads ==
  ASSUME MessagesFit
  PROVE  Spec => []OnlyOwnerReads
<1>1. IInv => OnlyOwnerReads
  BY DEF IInv
<1> QED BY <1>1, Inv, PTL
=============================================================================
