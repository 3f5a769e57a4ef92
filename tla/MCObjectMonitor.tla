--------------------------- MODULE MCObjectMonitor ---------------------------
(* A small instance of ObjectMonitor. *)
EXTENDS ObjectMonitor
=============================================================================
