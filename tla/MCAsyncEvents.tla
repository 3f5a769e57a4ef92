---------------------------- MODULE MCAsyncEvents ----------------------------
(* Small instances of AsyncEvents. *)
EXTENDS AsyncEvents
=============================================================================
