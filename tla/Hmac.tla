-------------------------------- MODULE Hmac --------------------------------
(***************************************************************************)
(* sign.go: HMAC-SHA256, ideal.  A tag is what went into it and its length *)
(* in bytes.                                                               *)
(***************************************************************************)
EXTENDS Naturals

Size == 32

Sign(key, data) == [key |-> key, data |-> data, len |-> Size]

ConstantTimeEqual(a, b) == a = b

Verify(key, data, mac) == mac.len = Size /\ ConstantTimeEqual(Sign(key, data), mac)
=============================================================================
