---------------------------- MODULE MCInspection ----------------------------
(* ThreadInspection for TLC. *)
EXTENDS ThreadInspection, TLC

(* Inspectors that do nothing else are interchangeable. *)
InspectorSymmetry == Permutations(Inspector)
=============================================================================
