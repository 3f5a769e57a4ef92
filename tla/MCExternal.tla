----------------------------- MODULE MCExternal -----------------------------
(* ExternalExclusive for TLC. *)
EXTENDS ExternalExclusive
=============================================================================
