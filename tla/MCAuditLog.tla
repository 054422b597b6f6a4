----------------------------- MODULE MCAuditLog -----------------------------
(* A small instance of AuditLog for TLC: fields of one word and of two, so *)
(* that a "|" can move from one field to another.                          *)
EXTENDS AuditLog

CONSTANT a

SmallActors == {<<a>>, <<a, a>>}
SmallActions == {<<a>>}
SmallResources == {<<a>>, <<a, a>>}
=============================================================================
