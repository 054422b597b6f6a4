-------------------------------- MODULE Wire --------------------------------
(***************************************************************************)
(* The wire formats of the one-shot functions and the arithmetic by which  *)
(* their openers take them apart: Seal/Open and Sealer (version 1),        *)
(* SealChaCha20 (2), KeyRing (3), SealAsymmetric (5), EnvelopeSealer (6).  *)
(* A message is sealed, something may cut, extend or rewrite it, and one   *)
(* of the openers is called on it; Recipients adds the keys and the steps. *)
(*                                                                         *)
(* Of the decoded bytes a message keeps its length and the bytes openers   *)
(* decide by: the version, the kid length and the wrapped key's length.    *)
(* A part is the pair <<lo, hi>> of the Go slice raw[lo:hi].               *)
(***************************************************************************)
EXTENDS Integers

CONSTANTS
  NonceSize, TagSize, X25519KeySize,  \* in bytes
  MaxKidLen,   \* keyRingMaxKidLen
  ByteMod,     \* number of values of a byte
  LenMod,      \* number of values of the uint32 length of a wrapped key
  MaxPt,       \* bound: plaintext length
  MaxWrapped,  \* bound: wrapped key length
  Lengths      \* the lengths a message can be cut or extended to

ASSUME WireAssumption ==
  /\ NonceSize \in Nat /\ TagSize \in Nat /\ X25519KeySize \in Nat
  /\ MaxKidLen \in Nat /\ ByteMod \in Nat /\ LenMod \in Nat
  /\ MaxKidLen < ByteMod
  /\ MaxPt \in Nat /\ MaxWrapped \in Nat /\ MaxWrapped < LenMod
  /\ Lengths \subseteq Nat

VARIABLES
  raw,     \* the message: length and deciding bytes
  layout,  \* history: the parts its sealer wrote; none once it was touched
  opener,  \* which opener was called
  res      \* its error, or "nil" and the parts it passes to the cipher

wireVars == <<raw, layout, opener, res>>

aeadHeaderSize == 1 + NonceSize
aeadMinSize == aeadHeaderSize + TagSize

Kinds == {"v1", "v2", "v3", "v5", "v6"}
Version == [v1 |-> 1, v2 |-> 2, v3 |-> 3, v5 |-> 5, v6 |-> 6]
Versions == {0, 1, 2, 3, 5, 6}

NoParts == [x \in {} |-> <<0, 0>>]
NoLayout == [kind |-> "none", parts |-> NoParts]
Pending == [err |-> "none", parts |-> NoParts]
Fails(err) == [err |-> err, parts |-> NoParts]
Passes(parts) == [err |-> "nil", parts |-> parts]

-----------------------------------------------------------------------------
(* Sealers: where each part of the output lies.  Where a format has no kid *)
(* or wrapped key, the bytes an opener would read for their lengths are     *)
(* the nonce's or the key's, and can be anything.                           *)

Seal(n) == [nonce |-> <<1, aeadHeaderSize>>,
            body |-> <<aeadHeaderSize, aeadHeaderSize + n + TagSize>>]
SealerSeal(n) == Seal(n)
SealChaCha20(n) == Seal(n)

KeyRingSeal(k, n) ==
  LET at == 2 + k
  IN [kid |-> <<2, at>>, nonce |-> <<at, at + NonceSize>>,
      body |-> <<at + NonceSize, at + NonceSize + n + TagSize>>]

SealAsymmetric(n) ==
  LET at == 1 + X25519KeySize
  IN [ephPub |-> <<1, at>>, nonce |-> <<at, at + NonceSize>>,
      body |-> <<at + NonceSize, at + NonceSize + n + TagSize>>]

EnvelopeSeal(w, n) ==
  [wrapped |-> <<5, 5 + w>>, inner |-> <<5 + w, 5 + w + aeadMinSize + n>>]

Sealed(kind, parts, len, k, w) ==
  /\ layout = [kind |-> kind, parts |-> parts]
  /\ raw = [len |-> len, ver |-> Version[kind], kidLen |-> k, wrappedLen |-> w]

InitWire ==
  /\ \E n \in 0 .. MaxPt, k \in 0 .. ByteMod - 1, w \in 0 .. LenMod - 1 :
       \/ Sealed("v1", Seal(n), aeadMinSize + n, k, w)
       \/ Sealed("v1", SealerSeal(n), aeadMinSize + n, k, w)
       \/ Sealed("v2", SealChaCha20(n), aeadMinSize + n, k, w)
       \/ k \in 1 .. MaxKidLen
          /\ Sealed("v3", KeyRingSeal(k, n), 1 + k + aeadMinSize + n, k, w)
       \/ Sealed("v5", SealAsymmetric(n), X25519KeySize + aeadMinSize + n, k, w)
       \/ w <= MaxWrapped
          /\ Sealed("v6", EnvelopeSeal(w, n), 5 + w + aeadMinSize + n, k, w)
  /\ opener = "none"
  /\ res = Pending

-----------------------------------------------------------------------------
(* What may happen to a message on its way, outside the code.              *)

Resize(n) == raw' = [raw EXCEPT !.len = n]
Rewrite(v, k, w) == raw' = [raw EXCEPT !.ver = v, !.kidLen = k, !.wrappedLen = w]

\* Some byte of the message is changed.  Those of the nonce, the body and the
\* tag decide nothing in the layout and have no field in raw: a change of one of
\* them is the case that leaves raw as it was.
Touch ==
  /\ opener = "none"
  /\ \/ \E n \in Lengths : Resize(n)
     \/ \E v \in Versions : Rewrite(v, raw.kidLen, raw.wrappedLen)
     \/ \E k \in 0 .. ByteMod - 1 : Rewrite(raw.ver, k, raw.wrappedLen)
     \/ \E w \in 0 .. LenMod - 1 : Rewrite(raw.ver, raw.kidLen, w)
  /\ layout' = NoLayout
  /\ UNCHANGED <<opener, res>>

-----------------------------------------------------------------------------
(* Openers, after the base64 decoding.                                     *)

\* The checks and slices of Open, Sealer.Open and OpenChaCha20.
OpenVersion(ver) ==
  IF raw.len < aeadMinSize THEN Fails("ErrCiphertextTooShort")
  ELSE IF raw.ver # ver THEN Fails("ErrUnsupportedVersion")
  ELSE Passes([nonce |-> <<1, aeadHeaderSize>>, body |-> <<aeadHeaderSize, raw.len>>])

Open == OpenVersion(1)
SealerOpen == OpenVersion(1)
OpenChaCha20 == OpenVersion(2)

KeyRingOpenV3_NoBound ==  \* mutant: the length with the kid is not checked
  LET at == 2 + raw.kidLen
  IN IF raw.kidLen < 1 \/ raw.kidLen > MaxKidLen THEN Fails("ErrInvalidCiphertext")
     ELSE Passes([kid |-> <<2, at>>, nonce |-> <<at, at + NonceSize>>,
                  body |-> <<at + NonceSize, raw.len>>])
KeyRingOpenV3 ==
  LET at == 2 + raw.kidLen
  IN IF raw.len < 2 THEN Fails("ErrCiphertextTooShort")
     ELSE IF raw.kidLen < 1 \/ raw.kidLen > MaxKidLen THEN Fails("ErrInvalidCiphertext")
     ELSE IF raw.len < at + NonceSize + TagSize THEN Fails("ErrCiphertextTooShort")
     ELSE Passes([kid |-> <<2, at>>, nonce |-> <<at, at + NonceSize>>,
                  body |-> <<at + NonceSize, raw.len>>])

openV1WithAEAD == OpenVersion(1)

KeyRingOpen ==
  IF raw.len < aeadMinSize THEN Fails("ErrCiphertextTooShort")
  ELSE CASE raw.ver = 1 -> openV1WithAEAD
         [] raw.ver = 3 -> KeyRingOpenV3
         [] OTHER -> Fails("ErrUnsupportedVersion")

OpenAsymmetric_NoTag ==  \* mutant: the minimum forgets the tag
  LET at == 1 + X25519KeySize
  IN IF raw.len < at + NonceSize THEN Fails("ErrCiphertextTooShort")
     ELSE IF raw.ver # 5 THEN Fails("ErrUnsupportedVersion")
     ELSE Passes([ephPub |-> <<1, at>>, nonce |-> <<at, at + NonceSize>>,
                  body |-> <<at + NonceSize, raw.len>>])
OpenAsymmetric ==
  LET at == 1 + X25519KeySize
  IN IF raw.len < at + NonceSize + TagSize THEN Fails("ErrCiphertextTooShort")
     ELSE IF raw.ver # 5 THEN Fails("ErrUnsupportedVersion")
     ELSE Passes([ephPub |-> <<1, at>>, nonce |-> <<at, at + NonceSize>>,
                  body |-> <<at + NonceSize, raw.len>>])

\* The bound is compared in uint64; the slices are cut at 5 + wrappedLen in
\* uint32.
EnvelopeOpen_From4 ==  \* mutant: the length field is counted as 3 bytes
  IF raw.len < 5 THEN Fails("ErrCiphertextTooShort")
  ELSE IF raw.ver # 6 THEN Fails("ErrUnsupportedVersion")
  ELSE IF 5 + raw.wrappedLen > raw.len THEN Fails("ErrCiphertextTooShort")
  ELSE Passes([wrapped |-> <<4, 4 + raw.wrappedLen>>, inner |-> <<4 + raw.wrappedLen, raw.len>>])
EnvelopeOpen ==
  LET at == (5 + raw.wrappedLen) % LenMod
  IN IF raw.len < 5 THEN Fails("ErrCiphertextTooShort")
     ELSE IF raw.ver # 6 THEN Fails("ErrUnsupportedVersion")
     ELSE IF 5 + raw.wrappedLen > raw.len THEN Fails("ErrCiphertextTooShort")
     ELSE Passes([wrapped |-> <<5, at>>, inner |-> <<at, raw.len>>])

Return(name, r) == opener = "none" /\ opener' = name /\ res' = r

-----------------------------------------------------------------------------
Size(part) == part[2] - part[1]

\* Every slice an opener takes lies within the message, whatever was done to
\* the message: no opener panics, whatever the length fields say.
NoPanic ==
  \A x \in DOMAIN res.parts :
    LET p == res.parts[x] IN 0 <= p[1] /\ p[1] <= p[2] /\ p[2] <= raw.len

\* A cipher is only called with a nonce of its size and a body that can hold
\* a tag, and the parts follow each other without gap up to the message's end.
WholeParts ==
  res.err = "nil" =>
    /\ \E x \in DOMAIN res.parts : res.parts[x][2] = raw.len
    /\ "nonce" \in DOMAIN res.parts =>
         /\ Size(res.parts["nonce"]) = NonceSize
         /\ Size(res.parts["body"]) >= TagSize
         /\ res.parts["nonce"][2] = res.parts["body"][1]
    /\ "wrapped" \in DOMAIN res.parts =>
         res.parts["wrapped"][2] = res.parts["inner"][1]

\* An untouched message is taken apart exactly as its sealer put it together,
\* by its own format's openers and KeyRing, and is refused by all others:
\* formats are told apart by the version byte alone, never by luck.
PartsRecovered ==
  layout # NoLayout /\ res.err \notin {"none", "ErrInvalidKey"} =>
    IF \/ layout.kind = "v1" /\ opener \in {"Open", "Sealer.Open", "MultiKeyReader.Open",
                                           "KeyRing.Open"}
       \/ layout.kind = "v2" /\ opener = "OpenChaCha20"
       \/ layout.kind = "v3" /\ opener = "KeyRing.Open"
       \/ layout.kind = "v5" /\ opener = "OpenAsymmetric"
       \/ layout.kind = "v6" /\ opener = "EnvelopeSealer.Open"
    THEN res = Passes(layout.parts)
    ELSE res.err \in {"ErrUnsupportedVersion", "ErrCiphertextTooShort"}
=============================================================================
