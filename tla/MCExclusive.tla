----------------------------- MODULE MCExclusive -----------------------------
(* ExclusiveAccess and its inductive invariant for TLC. *)
EXTENDS ExclusiveInvariant
=============================================================================
