----------------------------- MODULE Migration -----------------------------
(***************************************************************************)
(* auto.go and the migration it is for: a table holds AES-CBC rows (hex)   *)
(* and AES-GCM rows (base64url); the application saves rows with Seal and  *)
(* reads them with OpenAuto, while a script reads each row with OpenAuto,  *)
(* seals it again and writes it back, as examples/migrate_cbc_to_gcm does. *)
(* The store may damage rows.                                              *)
(*                                                                         *)
(* Reading a row changes nothing, so reads are no actions: the properties  *)
(* say what OpenAuto returns in every state.  A row's text is known by     *)
(* what the detectors look at, its alphabet, its length and the first byte *)
(* of its base64url decoding, and by what it was written with.             *)
(***************************************************************************)
EXTENDS Integers, Sequences, Aead, Cbc

CONSTANTS
  RowIds,
  Keys,         \* 32-byte keys, which both formats accept
  Bytes,        \* byte values
  Texts,        \* plaintexts
  AADs,
  IVs,          \* the first two hex digits of an IV
  aeadMinSize,  \* bytes of a version, a nonce and a tag
  TextLens      \* lengths, in characters, of the texts that damage leaves

ASSUME MigrationAssumption ==
  /\ BadKey \notin CbcKeys
  /\ Keys \subseteq CbcKeys
  /\ Bytes \subseteq Nat /\ Texts \subseteq Seq(Bytes)
  /\ IVs \subseteq (0 .. 15) \X (0 .. 15)
  /\ aeadMinSize \in Nat \ {0} /\ TextLens \subseteq Nat

VARIABLES
  key,     \* the key of the application and of the script
  rows,    \* the table
  truth,   \* history: the plaintext last saved in each row
  hurt,    \* history: the rows damaged since they were last saved
  todo,    \* the rows the script has still to visit
  failed   \* the rows the script reported an error for

vars == <<key, rows, truth, hurt, todo, failed>>

-----------------------------------------------------------------------------
(* A row: its format, whether its text is still the one written ("whole"), *)
(* what it was written with, and its text.  What Seal writes, 39 or more   *)
(* characters of mostly random bytes, is taken not to be all hex digits by *)
(* chance.                                                                 *)

Alphabets == {"hex", "base64url", "other"}

\* base64url gives the digits 0-9 the values 52-61 and a-f the values 26-31;
\* the first decoded byte has the first value's 6 bits and 2 of the second's.
Sextet(digit) == IF digit < 10 THEN 52 + digit ELSE 16 + digit
FirstByte(iv) == 4 * Sextet(iv[1]) + Sextet(iv[2]) \div 16

\* RawURLEncoding: every three bytes are four characters, the rest as few as
\* hold them, and one character alone decodes to nothing.
Base64Chars(n) == (4 * n + 2) \div 3
Base64Len(text) == (3 * text.chars) \div 4
IsBase64(text) == text.alphabet \in {"hex", "base64url"} /\ text.chars % 4 # 1

CbcRow(k, pt, iv) ==
  [fmt |-> "cbc", form |-> "whole", key |-> k, aad |-> "none", pt |-> EncryptCBC(pt),
   alphabet |-> "hex", chars |-> 2 * (BlockSize + Len(EncryptCBC(pt))),
   first |-> FirstByte(iv)]
AeadRow(k, pt, aad) ==
  [fmt |-> "aead", form |-> "whole", key |-> k, aad |-> aad, pt |-> pt,
   alphabet |-> "base64url", chars |-> Base64Chars(aeadMinSize + Len(pt)),
   first |-> V1]

isLikelyAEAD_Above(row) ==  \* mutant: the shortest message is left out
  IsBase64(row) /\ Base64Len(row) > aeadMinSize /\ row.first = V1
isLikelyAEAD(row) ==
  IsBase64(row) /\ Base64Len(row) >= aeadMinSize /\ row.first = V1

isLikelyCBC(row) ==
  /\ IsHex(row) /\ HexLen(row) >= BlockSize
  /\ LET body == HexLen(row) - BlockSize
     IN body % BlockSize = 0 /\ body > 0

\* The row's text as Open sees it.
Ciphertext(row) ==
  [form |-> IF ~IsBase64(row) THEN "notBase64"
            ELSE IF Base64Len(row) < aeadMinSize THEN "short"
            ELSE IF row.fmt = "aead" THEN row.form ELSE "cut",
   ver |-> row.first, key |-> row.key, aad |-> row.aad, pt |-> row.pt]

\* Open of either kind of text; its key must be 32 bytes long.
Opens(k, row, aad) ==
  OpenError(IF k \in Keys THEN k ELSE BadKey, Ciphertext(row), aad) = "nil"

\* What the blocks of a text decrypt to: what EncryptCBC was given, under its
\* key, or any bytes.
Noise(row) == [1 .. HexLen(row) - BlockSize -> Bytes]
Body(k, row, noise) ==
  IF row.fmt = "cbc" /\ row.form = "whole" /\ row.key = k THEN row.pt ELSE noise

OpenAuto_NoAAD(k, row, aad, noise) ==  \* mutant: Open is called with a nil AAD
  IF isLikelyAEAD(row) /\ Opens(k, row, CHOOSE a \in AADs : TRUE)
  THEN [err |-> "nil", pt |-> row.pt]
  ELSE IF isLikelyCBC(row) /\ DecryptError(k, row, Body(k, row, noise)) = "nil"
       THEN DecryptCBC(k, row, Body(k, row, noise))
       ELSE [err |-> "ErrUnknownFormat", pt |-> <<>>]
OpenAuto(k, row, aad, noise) ==
  IF isLikelyAEAD(row) /\ Opens(k, row, aad) THEN [err |-> "nil", pt |-> row.pt]
  ELSE IF isLikelyCBC(row) /\ DecryptError(k, row, Body(k, row, noise)) = "nil"
       THEN DecryptCBC(k, row, Body(k, row, noise))
       ELSE [err |-> "ErrUnknownFormat", pt |-> <<>>]

-----------------------------------------------------------------------------
\* The table as the old application left it: rows written by EncryptCBC.
Init ==
  /\ key \in CbcKeys
  /\ truth \in [RowIds -> Texts]
  /\ \E iv \in [RowIds -> IVs] :
       rows = [r \in RowIds |-> CbcRow(key, truth[r], iv[r])]
  /\ hurt = {} /\ todo = RowIds /\ failed = {}

\* The application saves a row with Seal, which only 32-byte keys allow.
Save(r, pt, aad) ==
  /\ key \in Keys
  /\ rows' = [rows EXCEPT ![r] = AeadRow(key, pt, aad)]
  /\ truth' = [truth EXCEPT ![r] = pt]
  /\ hurt' = hurt \ {r}
  /\ UNCHANGED <<key, todo, failed>>

\* The script's loop body: a row that OpenAuto or Seal fails on is reported
\* and left as it is; any other is written back as an AEAD row.
Migrate_Silent(r, aad, noise) ==  \* mutant: a failed Seal is not reported
  LET got == OpenAuto(key, rows[r], aad, noise)
  IN /\ r \in todo
     /\ todo' = todo \ {r}
     /\ \/ /\ got.err = "nil" /\ key \in Keys
           /\ rows' = [rows EXCEPT ![r] = AeadRow(key, got.pt, aad)]
           /\ UNCHANGED failed
        \/ /\ failed' = IF got.err = "nil" THEN failed ELSE failed \cup {r}
           /\ UNCHANGED rows
     /\ UNCHANGED <<key, truth, hurt>>
Migrate(r, aad, noise) ==
  LET got == OpenAuto(key, rows[r], aad, noise)
  IN /\ r \in todo
     /\ todo' = todo \ {r}
     /\ \/ /\ got.err = "nil" /\ key \in Keys
           /\ rows' = [rows EXCEPT ![r] = AeadRow(key, got.pt, aad)]
           /\ UNCHANGED failed
        \/ /\ failed' = failed \cup {r}  \* always possible: Seal's random source
           /\ UNCHANGED rows
     /\ UNCHANGED <<key, truth, hurt>>

\* The script is run again, over a table that is partly migrated.
Rerun ==
  /\ todo = {}
  /\ todo' = RowIds /\ failed' = {}
  /\ UNCHANGED <<key, rows, truth, hurt>>

\* The store replaces a row's text by one, of any alphabet, hex too, that Seal
\* did not write.
Damage(r, alphabet, chars, first) ==
  /\ r \notin hurt
  /\ rows' = [rows EXCEPT ![r].form = "cut", ![r].alphabet = alphabet,
                          ![r].chars = chars, ![r].first = first]
  /\ hurt' = hurt \cup {r}
  /\ UNCHANGED <<key, truth, todo, failed>>

Next ==
  \/ \E r \in RowIds :
       \/ \E aad \in AADs, pt \in Texts : Save(r, pt, aad)
       \/ \E aad \in AADs, noise \in Noise(rows[r]) : Migrate(r, aad, noise)
       \/ \E alphabet \in Alphabets, chars \in TextLens, first \in {0, V1} :
            Damage(r, alphabet, chars, first)
  \/ Rerun

Spec == Init /\ [][Next]_vars

-----------------------------------------------------------------------------
\* Through every mix of saves and migration steps an undamaged row of either
\* format reads back, by OpenAuto, as what was last saved in it: the script
\* loses no row, no plaintext is confused with its padding, and neither format
\* is taken for the other, whatever bytes its text begins with.
AutoReads ==
  \A r \in RowIds \ hurt : \A noise \in Noise(rows[r]) :
    LET aad == IF rows[r].fmt = "aead" THEN rows[r].aad ELSE CHOOSE a \in AADs : TRUE
    IN OpenAuto(key, rows[r], aad, noise) = [err |-> "nil", pt |-> truth[r]]

\* OpenAuto's fall-through to unauthenticated CBC is open to hex of whole blocks
\* alone.  Any other text in a row that Seal wrote, damaged or not and under any
\* key, reads as what was sealed, with the key and AAD it was sealed with, or
\* not at all.
AeadStaysAuthentic ==
  \A r \in RowIds, k \in CbcKeys \cup {BadKey}, aad \in AADs :
    \A noise \in Noise(rows[r]) :
      LET got == OpenAuto(k, rows[r], aad, noise)
      IN rows[r].fmt = "aead" /\ ~isLikelyCBC(rows[r]) /\ got.err = "nil" =>
           got.pt = rows[r].pt /\ k = rows[r].key /\ aad = rows[r].aad

\* What OpenAuto returns without authentication pads to exactly what the blocks
\* decrypted to: damage to a CBC row, and hex put in the place of an AEAD row,
\* is found out unless the noise is exactly padded.
OnlyPaddedAccepted ==
  \A r \in RowIds, k \in CbcKeys, aad \in AADs :
    \A noise \in Noise(rows[r]) :
      LET got == OpenAuto(k, rows[r], aad, noise)
      IN ~Opens(k, rows[r], aad) /\ got.err = "nil" =>
           EncryptCBC(got.pt) = Body(k, rows[r], noise)

\* The detectors' tests agree with the openers' own: OpenAuto opens a text, of
\* any length and alphabet, exactly if Open or DecryptCBC opens it, the shortest
\* text of each format included, so a reader may use it for either.
DetectionIsExact ==
  \A r \in RowIds, k \in CbcKeys \cup {BadKey}, aad \in AADs :
    \A noise \in Noise(rows[r]) :
      OpenAuto(k, rows[r], aad, noise).err = "nil" <=>
        \/ Opens(k, rows[r], aad)
        \/ DecryptError(k, rows[r], Body(k, rows[r], noise)) = "nil"

\* Every row the script passed without reporting an error is an AEAD row.
ScriptMigrates ==
  \A r \in RowIds \ (todo \cup failed) : rows[r].fmt = "aead"
=============================================================================
