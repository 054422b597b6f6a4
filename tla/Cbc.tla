-------------------------------- MODULE Cbc --------------------------------
(***************************************************************************)
(* cbc.go: EncryptCBC pads a plaintext to whole blocks with PKCS#7, and    *)
(* DecryptCBC removes the padding it finds.  AES-CBC turns whole blocks    *)
(* into whole blocks under a key and back; for damaged blocks, or under    *)
(* another key, it gives other bytes, any of them, since nothing           *)
(* authenticates.                                                          *)
(***************************************************************************)
EXTENDS Integers, Sequences

CONSTANTS
  BlockSize,  \* aes.BlockSize
  CbcKeys     \* keys of 16, 24 or 32 bytes

ASSUME CbcAssumption == BlockSize \in Nat \ {0}

validCBCKeyLen(key) == key \in CbcKeys

PadLen_None(n, size) == (size - (n % size)) % size  \* mutant: none after a whole block
PadLen(n, size) == size - (n % size)

\* From one byte to a whole block of padding, each byte its length.
pad(buf, size) ==
  LET padLen == PadLen(Len(buf), size)
  IN buf \o [i \in 1 .. padLen |-> padLen]

\* unpad's checks: whole blocks, a count in the last byte, and that many
\* bytes equal to it.
PaddingOK_LastByte(buf, size) ==  \* mutant: only the last byte is looked at
  /\ Len(buf) # 0 /\ Len(buf) % size = 0
  /\ buf[Len(buf)] \in 1 .. size
PaddingOK(buf, size) ==
  /\ Len(buf) # 0 /\ Len(buf) % size = 0
  /\ LET n == buf[Len(buf)]
     IN /\ n # 0 /\ n <= size /\ n <= Len(buf)
        /\ \A i \in Len(buf) - n + 1 .. Len(buf) : buf[i] = n
unpad(buf, size) == SubSeq(buf, 1, Len(buf) - buf[Len(buf)])

\* What EncryptCBC's blocks decrypt to under the same key.
EncryptCBC(plaintext) == pad(plaintext, BlockSize)

\* hex.DecodeString: only hex digits, two to a byte.  A text is known by its
\* alphabet, "hex", "base64url" or "other", and its length in characters.
IsHex(text) == text.alphabet = "hex" /\ text.chars % 2 = 0
HexLen(text) == text.chars \div 2

\* DecryptCBC's error, for a text whose blocks, if it has any, decrypt to body.
DecryptError(key, text, body) ==
  IF ~validCBCKeyLen(key) THEN "ErrInvalidKey"
  ELSE IF ~IsHex(text) THEN "ErrInvalidCiphertext"
  ELSE IF HexLen(text) < BlockSize THEN "ErrCiphertextTooShort"
  ELSE IF (HexLen(text) - BlockSize) % BlockSize # 0 THEN "ErrCiphertextNotBlockAligned"
  ELSE IF ~PaddingOK(body, BlockSize) THEN "ErrInvalidPadding"
  ELSE "nil"
DecryptCBC(key, text, body) ==
  LET err == DecryptError(key, text, body)
  IN [err |-> err, pt |-> IF err = "nil" THEN unpad(body, BlockSize) ELSE <<>>]
=============================================================================
