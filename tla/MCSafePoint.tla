----------------------------- MODULE MCSafePoint -----------------------------
(* SafePoint for TLC. *)
EXTENDS SafePoint
=============================================================================
