--------------------------- MODULE MigrationProofs ---------------------------
(***************************************************************************)
(* Proofs about Migration for every table, every set of keys, plaintexts   *)
(* and AADs, every block size and whatever the store does to the rows.     *)
(***************************************************************************)
EXTENDS Migration, TLAPS

RowRec == [fmt : {"cbc", "aead"}, form : {"whole", "cut"}, key : CbcKeys,
           aad : AADs \cup {"none"}, pt : Seq(Nat), alphabet : Alphabets,
           chars : Nat, first : Nat]

\* The text of a row that is still as EncryptCBC or Seal wrote it.
TextInv(row) ==
  row.form = "whole" =>
    /\ row.fmt = "cbc" =>
         /\ row.alphabet = "hex" /\ row.chars = 2 * (BlockSize + Len(row.pt))
         /\ Len(row.pt) # 0 /\ Len(row.pt) % BlockSize = 0
    /\ row.fmt = "aead" =>
         /\ row.alphabet = "base64url" /\ row.first = V1
         /\ row.chars = Base64Chars(aeadMinSize + Len(row.pt))

Shape ==
  /\ key \in CbcKeys
  /\ rows \in [RowIds -> RowRec] /\ \A r \in RowIds : TextInv(rows[r])
  /\ truth \in [RowIds -> Texts]
  /\ hurt \subseteq RowIds /\ todo \subseteq RowIds /\ failed \subseteq RowIds

\* A row nobody damaged holds what was last saved, in its own format.
RowInv(r) ==
  r \notin hurt =>
    /\ rows[r].form = "whole" /\ rows[r].key = key
    /\ rows[r].fmt = "cbc" => rows[r].pt = EncryptCBC(truth[r])
    /\ rows[r].fmt = "aead" => rows[r].pt = truth[r] /\ key \in Keys

IInv == Shape /\ (\A r \in RowIds : RowInv(r)) /\ ScriptMigrates

-----------------------------------------------------------------------------
(* PKCS#7 padding                                                          *)

\* Quotient and remainder are the only ones.
LEMMA ModUnique ==
  ASSUME NEW size \in Nat \ {0}, NEW q \in Int, NEW r \in 0 .. size - 1, NEW x \in Int,
         x = size * q + r
  PROVE  x % size = r
<1> DEFINE d == x \div size
           m == x % size
           e == d - q
<1>1. d \in Int /\ m \in 0 .. size - 1 /\ x = size * d + m
  OBVIOUS
<1> HIDE DEF d, m
<1>2. size * e = size * d - size * q /\ e \in Int
  BY <1>1
<1>3. size * e = r - m
  BY <1>1, <1>2
<1> HIDE DEF e
<1>4. ASSUME e >= 1 PROVE FALSE
  <2>1. size * e = size + size * (e - 1) /\ size * (e - 1) >= 0
    BY <1>2, <1>4
  <2> QED BY <1>1, <1>2, <1>3, <2>1
<1>5. ASSUME e <= -1 PROVE FALSE
  <2>1. size * e = size * (e + 1) - size /\ size * (e + 1) <= 0
    BY <1>2, <1>5
  <2> QED BY <1>1, <1>2, <1>3, <2>1
<1>6. e = 0
  BY <1>2, <1>4, <1>5
<1>7. r = m
  BY <1>1, <1>3, <1>6
<1> QED BY <1>7 DEF m

\* The padding is one byte to a whole block long and fills the last block.
LEMMA PadLenFacts ==
  ASSUME NEW size \in Nat \ {0}, NEW n \in Nat
  PROVE  PadLen(n, size) \in 1 .. size /\ (n + PadLen(n, size)) % size = 0
<1> DEFINE d == n \div size
           m == n % size
<1>1. d \in Int /\ m \in 0 .. size - 1 /\ n = size * d + m
  OBVIOUS
<1>2. PadLen(n, size) = size - m
  BY DEF PadLen
<1> HIDE DEF d, m
<1>3. size * (d + 1) = size * d + size
  BY <1>1
<1>4. n + PadLen(n, size) = size * (d + 1) + 0 /\ n + PadLen(n, size) \in Int /\ d + 1 \in Int
  BY <1>1, <1>2, <1>3
<1>5. (n + PadLen(n, size)) % size = 0
  <2>1. 0 \in 0 .. size - 1
    OBVIOUS
  <2> QED BY <1>4, <2>1, ModUnique, Zenon
<1> QED BY <1>1, <1>2, <1>5

\* A padding that fits whole blocks is the one pad would have added.
LEMMA PadLenOnly ==
  ASSUME NEW size \in Nat \ {0}, NEW len \in Nat, len % size = 0,
         NEW n \in 1 .. size, n <= len
  PROVE  PadLen(len - n, size) = n
<1> DEFINE d == len \div size
<1>1. d \in Int /\ len = size * d
  OBVIOUS
<1> HIDE DEF d
<1>2. size * (d - 1) = size * d - size
  BY <1>1
<1> DEFINE x == len - n
           q == d - 1
           r == size - n
<1>3. x = size * q + r /\ r \in 0 .. size - 1 /\ x \in Int /\ q \in Int
  BY <1>1, <1>2
<1> HIDE DEF x, q, r
<1>4. x % size = r
  BY <1>3, ModUnique
<1>5. size - (size - n) = n
  OBVIOUS
<1> QED BY <1>4, <1>5 DEF PadLen, x, r

\* The beginning of a sequence.
LEMMA PrefixFacts ==
  ASSUME NEW s \in Seq(Nat), NEW k \in 0 .. Len(s)
  PROVE  /\ SubSeq(s, 1, k) \in Seq(Nat) /\ Len(SubSeq(s, 1, k)) = k
         /\ \A i \in 1 .. k : SubSeq(s, 1, k)[i] = s[i]
OBVIOUS

\* Sequences with the same elements are the same.
LEMMA SameSeq ==
  ASSUME NEW a \in Seq(Nat), NEW b \in Seq(Nat), Len(a) = Len(b),
         \A i \in 1 .. Len(b) : a[i] = b[i]
  PROVE  a = b
OBVIOUS

\* pad's result: the text, then padLen bytes of that value.
LEMMA PadFacts ==
  ASSUME NEW size \in Nat \ {0}, NEW buf \in Seq(Nat)
  PROVE  LET n == PadLen(Len(buf), size)
         IN /\ pad(buf, size) \in Seq(Nat) /\ n \in 1 .. size
            /\ Len(pad(buf, size)) = Len(buf) + n
            /\ \A i \in 1 .. Len(buf) : pad(buf, size)[i] = buf[i]
            /\ \A i \in Len(buf) + 1 .. Len(buf) + n : pad(buf, size)[i] = n
<1> DEFINE n == PadLen(Len(buf), size)
           tail == [i \in 1 .. n |-> n]
<1>1. n \in 1 .. size /\ Len(buf) \in Nat
  <2>1. Len(buf) \in Nat
    OBVIOUS
  <2> QED BY <2>1, PadLenFacts, Zenon
<1>2. pad(buf, size) = buf \o tail
  BY DEF pad
<1> HIDE DEF n
<1>3. tail \in Seq(Nat) /\ Len(tail) = n /\ \A i \in 1 .. n : tail[i] = n
  BY <1>1
<1> HIDE DEF tail
<1>4. /\ buf \o tail \in Seq(Nat) /\ Len(buf \o tail) = Len(buf) + n
      /\ \A i \in 1 .. Len(buf) : (buf \o tail)[i] = buf[i]
      /\ \A i \in Len(buf) + 1 .. Len(buf) + n : (buf \o tail)[i] = tail[i - Len(buf)]
  BY <1>1, <1>3
<1>5. ASSUME NEW i \in Len(buf) + 1 .. Len(buf) + n PROVE (buf \o tail)[i] = n
  <2>1. i - Len(buf) \in 1 .. n
    BY <1>1
  <2> QED BY <1>3, <1>4, <2>1
<1> QED BY <1>1, <1>2, <1>4, <1>5 DEF n

\* What EncryptCBC padded, DecryptCBC's unpad accepts and gives back.
LEMMA UnpadPads ==
  ASSUME NEW size \in Nat \ {0}, NEW buf \in Seq(Nat)
  PROVE  PaddingOK(pad(buf, size), size) /\ unpad(pad(buf, size), size) = buf
<1> DEFINE n == PadLen(Len(buf), size)
           out == pad(buf, size)
<1>1. /\ out \in Seq(Nat) /\ n \in 1 .. size /\ Len(out) = Len(buf) + n
      /\ \A i \in 1 .. Len(buf) : out[i] = buf[i]
      /\ \A i \in Len(buf) + 1 .. Len(buf) + n : out[i] = n
  BY PadFacts
<1>2. (Len(buf) + n) % size = 0 /\ Len(buf) \in Nat
  <2>1. Len(buf) \in Nat
    OBVIOUS
  <2> QED BY <2>1, PadLenFacts, Zenon
<1> HIDE DEF n, out
<1>3. Len(out) # 0 /\ Len(out) % size = 0 /\ n <= Len(out) /\ n # 0 /\ n <= size
  <2>1. Len(out) % size = 0
    <3>1. Len(out) = Len(buf) + n /\ (Len(buf) + n) % size = 0
      BY <1>1, <1>2, Zenon
    <3> QED BY ONLY <3>1, Zenon
  <2>2. Len(out) # 0 /\ n <= Len(out) /\ n # 0 /\ n <= size
    <3>1. Len(out) = Len(buf) + n /\ n \in 1 .. size /\ Len(buf) \in Nat
      BY <1>1, <1>2, Zenon
    <3> QED BY <3>1
  <2> QED BY <2>1, <2>2
<1>4. out[Len(out)] = n
  <2>1. Len(buf) + n \in Len(buf) + 1 .. Len(buf) + n
    BY <1>1, <1>2
  <2> QED BY <1>1, <2>1
<1>5. Len(out) - n = Len(buf) /\ Len(out) - n + 1 = Len(buf) + 1
  BY <1>1, <1>2
<1>6. \A i \in Len(out) - n + 1 .. Len(out) : out[i] = n
  BY <1>1, <1>5
<1>7. PaddingOK(out, size)
  BY <1>3, <1>4, <1>6 DEF PaddingOK
<1>8. SubSeq(out, 1, Len(buf)) = buf
  <2>1. Len(buf) <= Len(out)
    BY <1>1, <1>2
  <2>2. /\ SubSeq(out, 1, Len(buf)) \in Seq(Nat) /\ Len(SubSeq(out, 1, Len(buf))) = Len(buf)
        /\ \A i \in 1 .. Len(buf) : SubSeq(out, 1, Len(buf))[i] = out[i]
    <3>1. Len(buf) \in 0 .. Len(out)
      BY <1>2, <2>1
    <3> QED BY <1>1, <3>1, PrefixFacts, Zenon
  <2>3. ASSUME NEW i \in 1 .. Len(buf) PROVE SubSeq(out, 1, Len(buf))[i] = buf[i]
    BY <1>1, <2>2, Zenon
  <2> QED BY <2>2, <2>3, SameSeq, Zenon
<1> QED BY <1>4, <1>5, <1>7, <1>8 DEF unpad, out

\* What unpad accepts pads to what it was given: nothing else is accepted.
LEMMA PadUnpads ==
  ASSUME NEW size \in Nat \ {0}, NEW buf \in Seq(Nat), PaddingOK(buf, size)
  PROVE  unpad(buf, size) \in Seq(Nat) /\ pad(unpad(buf, size), size) = buf
<1> DEFINE n == buf[Len(buf)]
           text == SubSeq(buf, 1, Len(buf) - n)
<1>1. /\ Len(buf) \in Nat \ {0} /\ Len(buf) % size = 0
      /\ n # 0 /\ n <= size /\ n <= Len(buf)
      /\ \A i \in Len(buf) - n + 1 .. Len(buf) : buf[i] = n
  BY DEF PaddingOK
<1>2. n \in Nat
  <2>1. Len(buf) \in 1 .. Len(buf)
    BY <1>1
  <2> QED BY <2>1
<1> HIDE DEF n
<1>3. Len(buf) - n \in Nat /\ n \in 1 .. size /\ Len(buf) - n <= Len(buf)
  BY <1>1, <1>2
<1>4. /\ text \in Seq(Nat) /\ Len(text) = Len(buf) - n
      /\ \A i \in 1 .. Len(buf) - n : text[i] = buf[i]
  BY <1>3
<1> HIDE DEF text
<1>5. PadLen(Len(text), size) = n
  BY <1>1, <1>3, <1>4, PadLenOnly
<1>6. /\ pad(text, size) \in Seq(Nat) /\ Len(pad(text, size)) = Len(text) + n
      /\ \A i \in 1 .. Len(text) : pad(text, size)[i] = text[i]
      /\ \A i \in Len(text) + 1 .. Len(text) + n : pad(text, size)[i] = n
  BY <1>4, <1>5, PadFacts
<1>7. Len(text) + n = Len(buf) /\ Len(text) + 1 = Len(buf) - n + 1
  BY <1>1, <1>2, <1>4
<1>8. ASSUME NEW i \in 1 .. Len(buf) PROVE pad(text, size)[i] = buf[i]
  <2>1. i \in 1 .. Len(text) \/ i \in Len(text) + 1 .. Len(text) + n
    BY <1>3, <1>4, <1>7
  <2>2. CASE i \in 1 .. Len(text)
    BY <1>4, <1>6, <2>2
  <2>3. CASE i \in Len(text) + 1 .. Len(text) + n
    BY <1>1, <1>6, <1>7, <2>3
  <2> QED BY <2>1, <2>2, <2>3
<1>9. pad(text, size) = buf
  <2>1. Len(pad(text, size)) = Len(buf)
    BY <1>6, <1>7
  <2> QED BY <1>6, <1>8, <2>1, SameSeq, Zenon
<1>10. unpad(buf, size) = text
  BY DEF unpad, n, text
<1> QED BY <1>4, <1>9, <1>10

-----------------------------------------------------------------------------
(* Texts                                                                   *)

\* The base64url text of n bytes decodes, to n bytes.
LEMMA Base64Facts ==
  ASSUME NEW n \in Nat
  PROVE  /\ Base64Chars(n) \in Nat /\ Base64Chars(n) % 4 # 1
         /\ (3 * Base64Chars(n)) \div 4 = n
<1> DEFINE c == Base64Chars(n)
<1>1. c \in Nat /\ 3 * c <= 4 * n + 2 /\ 3 * c >= 4 * n
  BY DEF Base64Chars
<1> HIDE DEF c
<1>2. (3 * c) \div 4 = n
  BY <1>1
<1>3. c % 4 # 1
  <2> DEFINE d == c \div 4
  <2>1. d \in Int /\ c = 4 * d + (c % 4)
    BY <1>1
  <2> HIDE DEF d
  <2> QED BY <1>1, <2>1
<1> QED BY <1>1, <1>2, <1>3 DEF c

\* The hex text of n bytes decodes, to n bytes.
LEMMA HexFacts ==
  ASSUME NEW n \in Nat, NEW row, row.alphabet = "hex", row.chars = 2 * n
  PROVE  IsHex(row) /\ HexLen(row) = n
<1>1. (2 * n) % 2 = 0 /\ (2 * n) \div 2 = n
  OBVIOUS
<1> QED BY <1>1 DEF IsHex, HexLen

\* What a text's blocks decrypt to is a sequence of as many bytes.
LEMMA BodyFacts ==
  ASSUME NEW row \in RowRec, TextInv(row), NEW k, NEW noise \in Noise(row),
         HexLen(row) >= BlockSize
  PROVE  /\ Body(k, row, noise) \in Seq(Nat)
         /\ Len(Body(k, row, noise)) = HexLen(row) - BlockSize
<1> DEFINE n == HexLen(row) - BlockSize
<1>1. BlockSize \in Nat /\ row.chars \in Nat /\ row.pt \in Seq(Nat)
  BY CbcAssumption DEF RowRec
<1>2. HexLen(row) \in Nat
  BY <1>1 DEF HexLen
<1>3. n \in Nat
  BY <1>1, <1>2
<1>4. noise \in [1 .. n -> Nat]
  BY MigrationAssumption DEF Noise
<1> HIDE DEF n
<1>5. noise \in Seq(Nat) /\ Len(noise) = n
  BY <1>3, <1>4
<1>6. CASE row.fmt = "cbc" /\ row.form = "whole" /\ row.key = k
  <2>1. /\ row.alphabet = "hex" /\ row.chars = 2 * (BlockSize + Len(row.pt))
        /\ Len(row.pt) \in Nat
    BY <1>1, <1>6 DEF TextInv
  <2>2. HexLen(row) = BlockSize + Len(row.pt)
    <3>1. BlockSize + Len(row.pt) \in Nat
      BY <1>1, <2>1
    <3> QED BY <2>1, <3>1, HexFacts, Zenon
  <2>3. Len(row.pt) = n
    BY <1>1, <2>1, <2>2 DEF n
  <2> QED BY <1>1, <1>6, <2>3 DEF Body, n
<1>7. CASE ~(row.fmt = "cbc" /\ row.form = "whole" /\ row.key = k)
  <2>1. Body(k, row, noise) = noise
    BY <1>7 DEF Body
  <2> QED BY <1>5, <2>1 DEF n
<1> QED BY <1>6, <1>7

-----------------------------------------------------------------------------
(* OpenAuto                                                                *)

\* Open opens only what was sealed with its key and AAD and is as it was, which
\* isLikelyAEAD finds likely.
LEMMA OpensFacts ==
  ASSUME NEW row \in RowRec, NEW k, NEW aad, Opens(k, row, aad)
  PROVE  /\ isLikelyAEAD(row)
         /\ row.fmt = "aead" /\ row.form = "whole" /\ k = row.key /\ aad = row.aad
<1> DEFINE kk == IF k \in Keys THEN k ELSE BadKey
           ct == Ciphertext(row)
<1>1. OpenError(kk, ct, aad) = "nil"
  BY DEF Opens
<1> HIDE DEF kk, ct
<1>2. kk # BadKey /\ ct.form \notin {"notBase64", "short"} /\ ct.ver = V1 /\ GcmOpens(kk, ct, aad)
  BY <1>1 DEF OpenError
<1>3. ct.form = "whole" /\ ct.key = kk /\ ct.aad = aad
  BY <1>2 DEF GcmOpens
<1>4. ct.key = row.key /\ ct.aad = row.aad /\ ct.ver = row.first
  BY DEF ct, Ciphertext
<1>5. IsBase64(row) /\ ~(Base64Len(row) < aeadMinSize) /\ row.fmt = "aead" /\ row.form = "whole"
  BY <1>3 DEF ct, Ciphertext
<1>6. kk = k
  BY <1>2 DEF kk
<1>7. Base64Len(row) >= aeadMinSize
  <2>1. row.chars \in Nat /\ aeadMinSize \in Nat
    BY MigrationAssumption DEF RowRec
  <2>2. Base64Len(row) \in Int
    BY <2>1 DEF Base64Len
  <2> QED BY <1>5, <2>1, <2>2
<1> QED BY <1>2, <1>3, <1>4, <1>5, <1>6, <1>7 DEF isLikelyAEAD

\* And it opens every such row.
LEMMA WholeOpens ==
  ASSUME NEW row \in RowRec, TextInv(row), row.fmt = "aead", row.form = "whole",
         row.key \in Keys
  PROVE  Opens(row.key, row, row.aad)
<1> DEFINE n == aeadMinSize + Len(row.pt)
           ct == Ciphertext(row)
<1>1. Len(row.pt) \in Nat /\ aeadMinSize \in Nat
  BY MigrationAssumption DEF RowRec
<1>2. n \in Nat /\ n >= aeadMinSize
  BY <1>1
<1>3. row.alphabet = "base64url" /\ row.first = V1 /\ row.chars = Base64Chars(n)
  BY DEF TextInv
<1> HIDE DEF n
<1>4. IsBase64(row) /\ Base64Len(row) = n
  BY <1>2, <1>3, Base64Facts DEF IsBase64, Base64Len
<1>5. ~(Base64Len(row) < aeadMinSize)
  BY <1>1, <1>2, <1>4
<1>6. /\ ct.form = "whole" /\ ct.ver = V1 /\ ct.key = row.key /\ ct.aad = row.aad
  BY <1>3, <1>4, <1>5 DEF Ciphertext
<1> HIDE DEF ct
<1>7. row.key # BadKey
  BY MigrationAssumption
<1>8. OpenError(row.key, ct, row.aad) = "nil"
  BY <1>6, <1>7 DEF OpenError, GcmOpens
<1> QED BY <1>8 DEF Opens, ct

\* What DecryptCBC accepts isLikelyCBC finds likely: an IV alone has no padding.
LEMMA DecryptFacts ==
  ASSUME NEW row \in RowRec, TextInv(row), NEW k, NEW noise \in Noise(row),
         DecryptError(k, row, Body(k, row, noise)) = "nil"
  PROVE  /\ isLikelyCBC(row) /\ PaddingOK(Body(k, row, noise), BlockSize)
         /\ Body(k, row, noise) \in Seq(Nat)
<1> DEFINE body == Body(k, row, noise)
<1>1. /\ IsHex(row) /\ ~(HexLen(row) < BlockSize)
      /\ (HexLen(row) - BlockSize) % BlockSize = 0 /\ PaddingOK(body, BlockSize)
  BY DEF DecryptError
<1>2. HexLen(row) \in Nat /\ BlockSize \in Nat
  <2>1. row.chars \in Nat
    BY DEF RowRec
  <2> QED BY <2>1, CbcAssumption DEF HexLen
<1>3. HexLen(row) >= BlockSize
  BY <1>1, <1>2
<1>4. body \in Seq(Nat) /\ Len(body) = HexLen(row) - BlockSize
  BY <1>3, BodyFacts
<1> HIDE DEF body
<1>5. Len(body) # 0
  BY <1>1 DEF PaddingOK
<1>6. HexLen(row) - BlockSize > 0
  BY <1>2, <1>3, <1>4, <1>5
<1>7. isLikelyCBC(row)
  BY <1>1, <1>3, <1>6 DEF isLikelyCBC
<1> QED BY <1>1, <1>4, <1>7 DEF body

\* OpenAuto: what Open opens, else what DecryptCBC opens, else nothing.
LEMMA AutoFacts ==
  ASSUME NEW row \in RowRec, TextInv(row), NEW k, NEW aad, NEW noise \in Noise(row)
  PROVE  LET got == OpenAuto(k, row, aad, noise)
             body == Body(k, row, noise)
             err == DecryptError(k, row, body)
         IN /\ Opens(k, row, aad) => got = [err |-> "nil", pt |-> row.pt]
            /\ ~Opens(k, row, aad) /\ err = "nil" =>
                 got = [err |-> "nil", pt |-> unpad(body, BlockSize)]
            /\ ~Opens(k, row, aad) /\ err # "nil" => got.err # "nil"
<1> DEFINE body == Body(k, row, noise)
           err == DecryptError(k, row, body)
           opens == Opens(k, row, aad)
<1>1. opens => isLikelyAEAD(row)
  BY OpensFacts
<1>2. err = "nil" => isLikelyCBC(row)
  BY DecryptFacts
<1>3. err = "nil" => DecryptCBC(k, row, body) = [err |-> "nil", pt |-> unpad(body, BlockSize)]
  BY DEF DecryptCBC
<1>4. OpenAuto(k, row, aad, noise) =
        IF isLikelyAEAD(row) /\ opens THEN [err |-> "nil", pt |-> row.pt]
        ELSE IF isLikelyCBC(row) /\ err = "nil" THEN DecryptCBC(k, row, body)
        ELSE [err |-> "ErrUnknownFormat", pt |-> <<>>]
  BY DEF OpenAuto
<1> HIDE DEF body, err, opens
<1>5. opens => OpenAuto(k, row, aad, noise) = [err |-> "nil", pt |-> row.pt]
  BY <1>1, <1>4
<1>6. ~opens /\ err = "nil" =>
        OpenAuto(k, row, aad, noise) = [err |-> "nil", pt |-> unpad(body, BlockSize)]
  BY <1>2, <1>3, <1>4
<1>7. ~opens /\ err # "nil" => OpenAuto(k, row, aad, noise).err # "nil"
  BY <1>4
<1> QED BY <1>5, <1>6, <1>7 DEF body, err, opens

\* A whole AEAD row is no hex, so OpenAuto reads it with its own key and AAD.
LEMMA AuthenticRow ==
  ASSUME NEW row \in RowRec, TextInv(row), row.fmt = "aead", row.form = "whole",
         NEW k, NEW aad, NEW noise \in Noise(row), OpenAuto(k, row, aad, noise).err = "nil"
  PROVE  aad = row.aad
<1>1. ~IsHex(row)
  BY DEF TextInv, IsHex
<1>2. DecryptError(k, row, Body(k, row, noise)) # "nil"
  BY <1>1 DEF DecryptError
<1>3. Opens(k, row, aad)
  BY <1>2, AutoFacts
<1> QED BY <1>3, OpensFacts

\* Whatever OpenAuto returns is a sequence of bytes.
LEMMA AutoType ==
  ASSUME NEW row \in RowRec, TextInv(row), NEW k, NEW aad, NEW noise \in Noise(row),
         OpenAuto(k, row, aad, noise).err = "nil"
  PROVE  OpenAuto(k, row, aad, noise).pt \in Seq(Nat)
<1>1. CASE Opens(k, row, aad)
  <2>1. OpenAuto(k, row, aad, noise) = [err |-> "nil", pt |-> row.pt]
    BY <1>1, AutoFacts
  <2> QED BY <2>1 DEF RowRec
<1>2. CASE ~Opens(k, row, aad)
  <2> DEFINE body == Body(k, row, noise)
  <2>1. DecryptError(k, row, body) = "nil"
    BY <1>2, AutoFacts
  <2>2. OpenAuto(k, row, aad, noise) = [err |-> "nil", pt |-> unpad(body, BlockSize)]
    BY <1>2, <2>1, AutoFacts
  <2>3. PaddingOK(body, BlockSize) /\ body \in Seq(Nat)
    BY <2>1, DecryptFacts
  <2> HIDE DEF body
  <2>4. unpad(body, BlockSize) \in Seq(Nat)
    BY <2>3, CbcAssumption, PadUnpads
  <2> QED BY <2>2, <2>4
<1> QED BY <1>1, <1>2

\* A plaintext is a sequence of bytes.
LEMMA TextType ==
  ASSUME NEW x \in Texts
  PROVE  x \in Seq(Nat)
<1>1. x \in Seq(Bytes) /\ Bytes \subseteq Nat
  BY MigrationAssumption
<1>2. Len(x) \in Nat /\ x \in [1 .. Len(x) -> Bytes]
  BY <1>1
<1>3. x \in [1 .. Len(x) -> Nat]
  BY <1>1, <1>2
<1> QED BY <1>2, <1>3

\* A row nobody damaged reads back.
LEMMA UndamagedReads ==
  ASSUME Shape, NEW r \in RowIds \ hurt, RowInv(r), NEW aad, NEW noise \in Noise(rows[r]),
         rows[r].fmt = "aead" => aad = rows[r].aad
  PROVE  OpenAuto(key, rows[r], aad, noise) = [err |-> "nil", pt |-> truth[r]]
<1> DEFINE row == rows[r]
<1>1. /\ row \in RowRec /\ TextInv(row) /\ row.form = "whole" /\ row.key = key
      /\ row.fmt = "cbc" => row.pt = EncryptCBC(truth[r])
      /\ row.fmt = "aead" => row.pt = truth[r] /\ key \in Keys
  BY DEF Shape, RowInv
<1>2. truth[r] \in Seq(Nat) /\ key \in CbcKeys
  <2>1. truth[r] \in Texts /\ key \in CbcKeys
    BY DEF Shape
  <2> QED BY <2>1, TextType
<1>3. noise \in Noise(row) /\ (row.fmt = "aead" => aad = row.aad)
  OBVIOUS
<1> HIDE DEF row
<1>4. CASE row.fmt = "aead"
  <2>1. Opens(key, row, aad)
    BY <1>1, <1>3, <1>4, WholeOpens
  <2>2. OpenAuto(key, row, aad, noise) = [err |-> "nil", pt |-> row.pt]
    BY <1>1, <1>3, <2>1, AutoFacts
  <2> QED BY <1>1, <1>4, <2>2 DEF row
<1>5. CASE row.fmt = "cbc"
  <2> DEFINE body == pad(truth[r], BlockSize)
  <2>1. Body(key, row, noise) = body
    BY <1>1, <1>5 DEF Body, EncryptCBC
  <2>2. PaddingOK(body, BlockSize) /\ unpad(body, BlockSize) = truth[r]
    BY <1>2, CbcAssumption, UnpadPads
  <2>3. row.alphabet = "hex" /\ row.chars = 2 * (BlockSize + Len(row.pt))
        /\ Len(row.pt) % BlockSize = 0 /\ Len(row.pt) \in Nat /\ BlockSize \in Nat
    BY <1>1, <1>5, CbcAssumption DEF TextInv, RowRec
  <2> HIDE DEF body
  <2>4. IsHex(row) /\ HexLen(row) = BlockSize + Len(row.pt)
    <3>1. BlockSize + Len(row.pt) \in Nat
      BY <2>3
    <3> QED BY <2>3, <3>1, HexFacts, Zenon
  <2>5. ~(HexLen(row) < BlockSize) /\ HexLen(row) - BlockSize = Len(row.pt)
    BY <2>3, <2>4
  <2>6. DecryptError(key, row, body) = "nil"
    BY <1>2, <2>2, <2>3, <2>4, <2>5 DEF DecryptError, validCBCKeyLen
  <2>7. ~Opens(key, row, aad)
    BY <1>1, <1>5, OpensFacts
  <2>8. OpenAuto(key, row, aad, noise) = [err |-> "nil", pt |-> unpad(body, BlockSize)]
    BY <1>1, <1>3, <2>1, <2>6, <2>7, AutoFacts
  <2> QED BY <2>2, <2>8 DEF row
<1> QED BY <1>1, <1>4, <1>5 DEF RowRec

-----------------------------------------------------------------------------
(* The steps                                                               *)

\* One row is rewritten.
LEMMA PutRow ==
  ASSUME Shape, NEW r \in RowIds, NEW row \in RowRec, TextInv(row),
         rows' = [rows EXCEPT ![r] = row]
  PROVE  /\ rows' \in [RowIds -> RowRec] /\ \A q \in RowIds : TextInv(rows'[q])
         /\ rows'[r] = row /\ \A q \in RowIds \ {r} : rows'[q] = rows[q]
<1>1. /\ rows' \in [RowIds -> RowRec] /\ rows'[r] = row
      /\ \A q \in RowIds \ {r} : rows'[q] = rows[q]
  BY DEF Shape
<1>2. ASSUME NEW q \in RowIds PROVE TextInv(rows'[q])
  <2>1. CASE q = r
    BY <1>1, <2>1
  <2>2. CASE q # r
    <3>1. rows'[q] = rows[q] /\ TextInv(rows[q])
      BY <1>1, <2>2 DEF Shape
    <3> QED BY <3>1
  <2> QED BY <2>1, <2>2
<1> QED BY <1>1, <1>2

\* The rest of Shape in the next state.
LEMMA ShapeNext ==
  ASSUME Shape, rows' \in [RowIds -> RowRec], \A q \in RowIds : TextInv(rows'[q]),
         key' = key, truth' \in [RowIds -> Texts],
         hurt' \subseteq RowIds, todo' \subseteq RowIds, failed' \subseteq RowIds
  PROVE  Shape'
<1>1. \A q \in RowIds : TextInv(rows[q])'
  BY DEF TextInv
<1> QED BY <1>1 DEF Shape

\* The row Seal writes.
LEMMA AeadRowFacts ==
  ASSUME NEW k \in CbcKeys, NEW pt \in Seq(Nat), NEW aad \in AADs
  PROVE  /\ AeadRow(k, pt, aad) \in RowRec /\ TextInv(AeadRow(k, pt, aad))
         /\ AeadRow(k, pt, aad).fmt = "aead" /\ AeadRow(k, pt, aad).form = "whole"
         /\ AeadRow(k, pt, aad).key = k /\ AeadRow(k, pt, aad).pt = pt
<1>1. aeadMinSize + Len(pt) \in Nat
  BY MigrationAssumption
<1>2. Base64Chars(aeadMinSize + Len(pt)) \in Nat
  BY <1>1, Base64Facts
<1>3. V1 \in Nat
  BY DEF V1
<1> QED BY <1>2, <1>3 DEF AeadRow, RowRec, Alphabets, TextInv

\* Save.
LEMMA SaveInv ==
  ASSUME IInv, NEW r \in RowIds, NEW pt \in Texts, NEW aad \in AADs, Save(r, pt, aad)
  PROVE  IInv'
<1> DEFINE row == AeadRow(key, pt, aad)
<1>1. /\ key \in Keys /\ rows' = [rows EXCEPT ![r] = row]
      /\ truth' = [truth EXCEPT ![r] = pt] /\ hurt' = hurt \ {r}
      /\ UNCHANGED <<key, todo, failed>>
  BY DEF Save
<1>2. Shape /\ ScriptMigrates /\ \A q \in RowIds : RowInv(q)
  BY DEF IInv
<1>3. pt \in Seq(Nat) /\ key \in CbcKeys
  BY <1>2, TextType DEF Shape
<1>4. /\ row \in RowRec /\ TextInv(row) /\ row.fmt = "aead" /\ row.form = "whole"
      /\ row.key = key /\ row.pt = pt
  BY <1>3, AeadRowFacts
<1> HIDE DEF row
<1>5. /\ rows' \in [RowIds -> RowRec] /\ \A q \in RowIds : TextInv(rows'[q])
      /\ rows'[r] = row /\ \A q \in RowIds \ {r} : rows'[q] = rows[q]
  BY <1>1, <1>2, <1>4, PutRow
<1>6. /\ truth' \in [RowIds -> Texts] /\ truth'[r] = pt
      /\ \A q \in RowIds \ {r} : truth'[q] = truth[q]
  BY <1>1, <1>2 DEF Shape
<1>7. Shape'
  <2>1. hurt' \subseteq RowIds /\ todo' \subseteq RowIds /\ failed' \subseteq RowIds
    BY <1>1, <1>2 DEF Shape
  <2> QED BY <1>1, <1>2, <1>5, <1>6, <2>1, ShapeNext
<1>8. ASSUME NEW q \in RowIds PROVE RowInv(q)'
  <2>1. CASE q = r
    BY <1>1, <1>4, <1>5, <1>6, <2>1 DEF RowInv
  <2>2. CASE q # r
    BY <1>1, <1>2, <1>5, <1>6, <2>2 DEF RowInv
  <2> QED BY <2>1, <2>2
<1>9. ScriptMigrates'
  BY <1>1, <1>2, <1>4, <1>5 DEF ScriptMigrates
<1> QED BY <1>7, <1>8, <1>9 DEF IInv

\* The script's loop body.
LEMMA MigrateInv ==
  ASSUME IInv, NEW r \in RowIds, NEW aad \in AADs, NEW noise \in Noise(rows[r]),
         Migrate(r, aad, noise)
  PROVE  IInv'
<1> DEFINE got == OpenAuto(key, rows[r], aad, noise)
           row == AeadRow(key, got.pt, aad)
<1>1. /\ todo' = todo \ {r} /\ UNCHANGED <<key, truth, hurt>>
      /\ \/ got.err = "nil" /\ key \in Keys /\ rows' = [rows EXCEPT ![r] = row] /\ failed' = failed
         \/ failed' = failed \cup {r} /\ rows' = rows
  BY DEF Migrate
<1>2. /\ Shape /\ ScriptMigrates /\ (\A q \in RowIds : RowInv(q))
      /\ rows[r] \in RowRec /\ TextInv(rows[r])
  BY DEF IInv, Shape
<1>3. CASE failed' = failed \cup {r} /\ rows' = rows
  <2>1. Shape'
    <3>1. /\ rows' \in [RowIds -> RowRec] /\ \A q \in RowIds : TextInv(rows'[q])
          /\ truth' \in [RowIds -> Texts]
      BY <1>1, <1>2, <1>3 DEF Shape
    <3>2. hurt' \subseteq RowIds /\ todo' \subseteq RowIds /\ failed' \subseteq RowIds
      BY <1>1, <1>2, <1>3 DEF Shape
    <3> QED BY <1>1, <1>2, <3>1, <3>2, ShapeNext
  <2>2. \A q \in RowIds : RowInv(q)'
    BY <1>1, <1>2, <1>3 DEF RowInv
  <2>3. ScriptMigrates'
    BY <1>1, <1>2, <1>3 DEF ScriptMigrates
  <2> QED BY <2>1, <2>2, <2>3 DEF IInv
<1>4. CASE got.err = "nil" /\ key \in Keys /\ rows' = [rows EXCEPT ![r] = row] /\ failed' = failed
  <2>1. got.pt \in Seq(Nat) /\ key \in CbcKeys
    BY <1>2, <1>4, AutoType DEF Shape
  <2>2. r \notin hurt /\ (rows[r].fmt = "aead" => aad = rows[r].aad) => got.pt = truth[r]
    <3>1. r \notin hurt /\ (rows[r].fmt = "aead" => aad = rows[r].aad) =>
            got = [err |-> "nil", pt |-> truth[r]]
      BY <1>2, UndamagedReads
    <3> HIDE DEF got
    <3> QED BY <3>1
  <2>3. r \notin hurt /\ rows[r].fmt = "aead" => aad = rows[r].aad
    BY <1>2, <1>4, AuthenticRow DEF RowInv
  <2> HIDE DEF got
  <2>4. /\ row \in RowRec /\ TextInv(row) /\ row.fmt = "aead" /\ row.form = "whole"
        /\ row.key = key /\ row.pt = got.pt
    BY <2>1, AeadRowFacts
  <2> HIDE DEF row
  <2>5. /\ rows' \in [RowIds -> RowRec] /\ \A q \in RowIds : TextInv(rows'[q])
        /\ rows'[r] = row /\ \A q \in RowIds \ {r} : rows'[q] = rows[q]
    BY <1>2, <1>4, <2>4, PutRow
  <2>6. Shape'
    <3>1. /\ hurt' \subseteq RowIds /\ todo' \subseteq RowIds /\ failed' \subseteq RowIds
          /\ truth' \in [RowIds -> Texts]
      BY <1>1, <1>2, <1>4 DEF Shape
    <3> QED BY <1>1, <1>2, <2>5, <3>1, ShapeNext
  <2>7. ASSUME NEW q \in RowIds PROVE RowInv(q)'
    <3>1. CASE q = r
      BY <1>1, <1>4, <2>2, <2>3, <2>4, <2>5, <3>1 DEF RowInv
    <3>2. CASE q # r
      BY <1>1, <1>2, <2>5, <3>2 DEF RowInv
    <3> QED BY <3>1, <3>2
  <2>8. ScriptMigrates'
    BY <1>1, <1>2, <1>4, <2>4, <2>5 DEF ScriptMigrates
  <2> QED BY <2>6, <2>7, <2>8 DEF IInv
<1> QED BY <1>1, <1>3, <1>4

\* The store's damage.
LEMMA DamageInv ==
  ASSUME IInv, NEW r \in RowIds, NEW alphabet \in Alphabets, NEW chars \in TextLens,
         NEW first \in {0, V1}, Damage(r, alphabet, chars, first)
  PROVE  IInv'
<1> DEFINE row == [rows[r] EXCEPT !.form = "cut", !.alphabet = alphabet,
                                  !.chars = chars, !.first = first]
<1>1. /\ rows' = [rows EXCEPT ![r].form = "cut", ![r].alphabet = alphabet,
                              ![r].chars = chars, ![r].first = first]
      /\ hurt' = hurt \cup {r}
      /\ UNCHANGED <<key, truth, todo, failed>>
  BY DEF Damage
<1>2. Shape /\ ScriptMigrates /\ (\A q \in RowIds : RowInv(q)) /\ rows[r] \in RowRec
  BY DEF IInv, Shape
<1>3. row \in RowRec /\ row.fmt = rows[r].fmt /\ row.form = "cut"
  <2>1. chars \in Nat /\ first \in Nat
    BY MigrationAssumption DEF V1
  <2> QED BY <1>2, <2>1 DEF RowRec
<1>4. rows' = [rows EXCEPT ![r] = row]
  BY <1>1, <1>2 DEF Shape
<1> HIDE DEF row
<1>5. TextInv(row)
  BY <1>3 DEF TextInv
<1>6. /\ rows' \in [RowIds -> RowRec] /\ \A q \in RowIds : TextInv(rows'[q])
      /\ rows'[r] = row /\ \A q \in RowIds \ {r} : rows'[q] = rows[q]
  BY <1>2, <1>3, <1>4, <1>5, PutRow
<1>7. Shape'
  <2>1. /\ hurt' \subseteq RowIds /\ todo' \subseteq RowIds /\ failed' \subseteq RowIds
        /\ truth' \in [RowIds -> Texts]
    BY <1>1, <1>2 DEF Shape
  <2> QED BY <1>1, <1>2, <1>6, <2>1, ShapeNext
<1>8. \A q \in RowIds : RowInv(q)'
  BY <1>1, <1>2, <1>6 DEF RowInv
<1>9. ScriptMigrates'
  BY <1>1, <1>2, <1>3, <1>6 DEF ScriptMigrates
<1> QED BY <1>7, <1>8, <1>9 DEF IInv

\* The table as the old application left it.
LEMMA InitInv == Init => IInv
<1> SUFFICES ASSUME Init PROVE IInv
  OBVIOUS
<1>1. PICK iv \in [RowIds -> IVs] : rows = [r \in RowIds |-> CbcRow(key, truth[r], iv[r])]
  BY DEF Init
<1>2. key \in CbcKeys /\ truth \in [RowIds -> Texts] /\ hurt = {} /\ todo = RowIds /\ failed = {}
  BY DEF Init
<1>3. ASSUME NEW r \in RowIds
      PROVE  /\ rows[r] \in RowRec /\ TextInv(rows[r]) /\ rows[r].form = "whole"
             /\ rows[r].key = key /\ rows[r].fmt = "cbc" /\ rows[r].pt = EncryptCBC(truth[r])
  <2> DEFINE body == EncryptCBC(truth[r])
             chars == 2 * (BlockSize + Len(body))
             first == FirstByte(iv[r])
  <2>1. truth[r] \in Seq(Nat) /\ iv[r] \in (0 .. 15) \X (0 .. 15)
    <3>1. truth[r] \in Texts /\ iv[r] \in IVs
      BY <1>2
    <3>2. IVs \subseteq (0 .. 15) \X (0 .. 15)
      BY MigrationAssumption
    <3> QED BY <3>1, <3>2, TextType, Zenon
  <2>2. body \in Seq(Nat) /\ PaddingOK(body, BlockSize)
    BY <2>1, CbcAssumption, PadFacts, UnpadPads DEF EncryptCBC
  <2>3. rows[r] = CbcRow(key, truth[r], iv[r])
    BY <1>1
  <2>4. rows[r] = [fmt |-> "cbc", form |-> "whole", key |-> key, aad |-> "none", pt |-> body,
                   alphabet |-> "hex", chars |-> chars, first |-> first]
    BY <2>3 DEF CbcRow
  <2>5. first \in Nat
    <3>1. iv[r][1] \in 0 .. 15 /\ iv[r][2] \in 0 .. 15
      BY <2>1
    <3> QED BY <3>1 DEF FirstByte, Sextet
  <2> HIDE DEF body, first
  <2>6. Len(body) \in Nat /\ Len(body) # 0 /\ Len(body) % BlockSize = 0
    BY <2>2 DEF PaddingOK
  <2>7. chars \in Nat
    BY <2>6, CbcAssumption
  <2>8. rows[r] \in RowRec
    BY <1>2, <2>2, <2>4, <2>5, <2>7 DEF RowRec, Alphabets
  <2>9. TextInv(rows[r])
    BY <2>4, <2>6 DEF TextInv
  <2> QED BY <2>4, <2>8, <2>9 DEF body
<1>4. rows \in [RowIds -> RowRec]
  BY <1>1, <1>3
<1>5. Shape
  BY <1>2, <1>3, <1>4 DEF Shape
<1>6. \A r \in RowIds : RowInv(r)
  BY <1>3 DEF RowInv
<1>7. ScriptMigrates
  BY <1>2 DEF ScriptMigrates
<1> QED BY <1>5, <1>6, <1>7 DEF IInv

\* Every step keeps the invariant.
LEMMA StepInv ==
  ASSUME IInv, [Next]_vars
  PROVE  IInv'
<1>1. CASE Rerun
  <2>1. todo' = RowIds /\ failed' = {} /\ UNCHANGED <<key, rows, truth, hurt>>
    BY <1>1 DEF Rerun
  <2>2. Shape /\ rows' \in [RowIds -> RowRec] /\ \A q \in RowIds : TextInv(rows'[q])
    BY <2>1 DEF IInv, Shape
  <2>3. /\ hurt' \subseteq RowIds /\ todo' \subseteq RowIds /\ failed' \subseteq RowIds
        /\ truth' \in [RowIds -> Texts]
    BY <2>1 DEF IInv, Shape
  <2>4. Shape'
    BY <2>1, <2>2, <2>3, ShapeNext
  <2> QED BY <2>1, <2>4 DEF IInv, RowInv, ScriptMigrates
<1>2. CASE UNCHANGED vars
  <2>1. UNCHANGED <<key, rows, truth, hurt, todo, failed>>
    BY <1>2 DEF vars
  <2>2. Shape'
    BY <2>1 DEF IInv, Shape, TextInv
  <2> QED BY <2>1, <2>2 DEF IInv, RowInv, ScriptMigrates
<1> QED BY <1>1, <1>2, SaveInv, MigrateInv, DamageInv DEF Next

\* The invariant holds in every reachable state.
LEMMA Inv == Spec => []IInv
<1>1. IInv /\ [Next]_vars => IInv'
  BY StepInv
<1> QED BY <1>1, InitInv, PTL DEF Spec

-----------------------------------------------------------------------------
\* OpenAuto reads every undamaged row, of either format and through every mix
\* of saves and runs of the script, as what was last saved in it.
THEOREM RowsReadBack == Spec => []AutoReads
<1>1. IInv => AutoReads
  <2> SUFFICES ASSUME IInv, NEW r \in RowIds \ hurt, NEW noise \in Noise(rows[r])
               PROVE  LET aad == IF rows[r].fmt = "aead" THEN rows[r].aad
                                 ELSE CHOOSE a \in AADs : TRUE
                      IN OpenAuto(key, rows[r], aad, noise) = [err |-> "nil", pt |-> truth[r]]
    BY DEF AutoReads
  <2>1. Shape /\ RowInv(r)
    BY DEF IInv
  <2> QED BY <2>1, UndamagedReads
<1> QED BY <1>1, Inv, PTL

\* OpenAuto's fall-through to unauthenticated CBC is open to hex of whole blocks
\* alone: no other text of a row that Seal wrote reads as anything but what was
\* sealed, under the key and AAD it was sealed with.
THEOREM AeadIsAuthentic == Spec => []AeadStaysAuthentic
<1>1. IInv => AeadStaysAuthentic
  <2> SUFFICES ASSUME IInv, NEW r \in RowIds, NEW k \in CbcKeys \cup {BadKey},
                      NEW aad \in AADs, NEW noise \in Noise(rows[r]), rows[r].fmt = "aead",
                      ~isLikelyCBC(rows[r]), OpenAuto(k, rows[r], aad, noise).err = "nil"
               PROVE  /\ OpenAuto(k, rows[r], aad, noise).pt = rows[r].pt
                      /\ k = rows[r].key /\ aad = rows[r].aad
    BY DEF AeadStaysAuthentic
  <2>1. rows[r] \in RowRec /\ TextInv(rows[r])
    BY DEF IInv, Shape
  <2>2. Opens(k, rows[r], aad)
    BY <2>1, AutoFacts, DecryptFacts
  <2>3. OpenAuto(k, rows[r], aad, noise) = [err |-> "nil", pt |-> rows[r].pt]
    BY <2>1, <2>2, AutoFacts
  <2> QED BY <2>1, <2>2, <2>3, OpensFacts
<1> QED BY <1>1, Inv, PTL

\* unpad accepts nothing but what pad makes: whatever OpenAuto returns without
\* authentication, the blocks decrypted to exactly that, padded.
THEOREM PaddingIsExact == Spec => []OnlyPaddedAccepted
<1>1. IInv => OnlyPaddedAccepted
  <2> SUFFICES ASSUME IInv, NEW r \in RowIds, NEW k \in CbcKeys,
                      NEW aad \in AADs, NEW noise \in Noise(rows[r]),
                      ~Opens(k, rows[r], aad), OpenAuto(k, rows[r], aad, noise).err = "nil"
               PROVE  EncryptCBC(OpenAuto(k, rows[r], aad, noise).pt) = Body(k, rows[r], noise)
    BY DEF OnlyPaddedAccepted
  <2> DEFINE body == Body(k, rows[r], noise)
  <2>1. rows[r] \in RowRec /\ TextInv(rows[r])
    BY DEF IInv, Shape
  <2>2. DecryptError(k, rows[r], body) = "nil"
    BY <2>1, AutoFacts
  <2>3. OpenAuto(k, rows[r], aad, noise) = [err |-> "nil", pt |-> unpad(body, BlockSize)]
    BY <2>1, <2>2, AutoFacts
  <2>4. body \in Seq(Nat) /\ PaddingOK(body, BlockSize)
    BY <2>1, <2>2, DecryptFacts
  <2> HIDE DEF body
  <2>5. pad(unpad(body, BlockSize), BlockSize) = body
    BY <2>4, CbcAssumption, PadUnpads
  <2> QED BY <2>3, <2>5 DEF EncryptCBC, body
<1> QED BY <1>1, Inv, PTL

\* The detectors refuse nothing that Open or DecryptCBC accepts, and let nothing
\* else through.
THEOREM DetectorsAgree == Spec => []DetectionIsExact
<1>1. IInv => DetectionIsExact
  <2> SUFFICES ASSUME IInv, NEW r \in RowIds, NEW k \in CbcKeys \cup {BadKey},
                      NEW aad \in AADs, NEW noise \in Noise(rows[r])
               PROVE  OpenAuto(k, rows[r], aad, noise).err = "nil" <=>
                        \/ Opens(k, rows[r], aad)
                        \/ DecryptError(k, rows[r], Body(k, rows[r], noise)) = "nil"
    BY DEF DetectionIsExact
  <2> DEFINE got == OpenAuto(k, rows[r], aad, noise)
             err == DecryptError(k, rows[r], Body(k, rows[r], noise))
             opens == Opens(k, rows[r], aad)
             read == unpad(Body(k, rows[r], noise), BlockSize)
  <2>1. rows[r] \in RowRec /\ TextInv(rows[r])
    BY DEF IInv, Shape
  <2>2. /\ opens => got = [err |-> "nil", pt |-> rows[r].pt]
        /\ ~opens /\ err = "nil" => got = [err |-> "nil", pt |-> read]
        /\ ~opens /\ err # "nil" => got.err # "nil"
    BY <2>1, AutoFacts
  <2> HIDE DEF got, err, opens, read
  <2>3. got.err = "nil" <=> opens \/ err = "nil"
    BY <2>2
  <2> QED BY <2>3 DEF got, err, opens
<1> QED BY <1>1, Inv, PTL

\* Every row the script passed without an error report is an AEAD row.
THEOREM ScriptLeavesNoCbc == Spec => []ScriptMigrates
<1>1. IInv => ScriptMigrates
  BY DEF IInv
<1> QED BY <1>1, Inv, PTL
=============================================================================
