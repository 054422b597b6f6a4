-------------------------------- MODULE Aead --------------------------------
(***************************************************************************)
(* The one-shot AEAD functions, Seal and Open, as the rest of the package  *)
(* uses them.  A ciphertext remembers the cipher, key, additional data and *)
(* plaintext it was sealed with, and opens under nothing else.  `form` is  *)
(* what became of its text: "whole", "cut" or garbled but long enough,     *)
(* "short", or "notBase64".                                                *)
(***************************************************************************)
CONSTANT BadKey  \* a key that is not AEADKeySize bytes long

V1 == 1
Forms == {"whole", "cut", "short", "notBase64"}

\* sealWithNonce after its key check; the nonce drawn is a fresh one.
Sealed(key, pt, aad) ==
  [form |-> "whole", ver |-> V1, key |-> key, aad |-> aad, pt |-> pt]

GcmOpens(key, ct, aad) ==
  ct.form = "whole" /\ ct.key = key /\ ct.aad = aad

\* The error Open returns.
OpenError(key, ct, aad) ==
  IF key = BadKey THEN "ErrInvalidKey"
  ELSE IF ct.form = "notBase64" THEN "ErrInvalidCiphertext"
  ELSE IF ct.form = "short" THEN "ErrCiphertextTooShort"
  ELSE IF ct.ver # V1 THEN "ErrUnsupportedVersion"
  ELSE IF GcmOpens(key, ct, aad) THEN "nil" ELSE "ErrTampered"

OpenErrors == {"nil", "ErrInvalidKey", "ErrInvalidCiphertext",
               "ErrCiphertextTooShort", "ErrUnsupportedVersion", "ErrTampered"}
=============================================================================
