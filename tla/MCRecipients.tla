---------------------------- MODULE MCRecipients ----------------------------
(* A small instance of Recipients, and with it of Wire, for TLC.           *)
EXTENDS Recipients

CONSTANT MaxRaw  \* bound: message length

OfferedLengths == 0 .. MaxRaw

ASSUME SmallMessages == MessagesFit
=============================================================================
