----------------------------- MODULE MCClassInit -----------------------------
(***************************************************************************)
(* A class sub, its superclass sup, whose <clinit> uses sub, and the       *)
(* interfaces of sub, int with a default method and tag without.  Thread a *)
(* uses sub, thread b sup.                                                 *)
(***************************************************************************)
EXTENDS ClassInitialization, TLC

CONSTANTS a, b, sup, sub, int, tag

MCSuper      == (sub :> sup) @@ [c \in Class |-> NoClass]
MCInterfaces == (sub :> <<int, tag>>) @@ [c \in Class |-> <<>>]
MCAsks       == (a :> {sub}) @@ (b :> {sup})
Cyclic       == (sup :> {sub}) @@ [c \in Class |-> {}]
=============================================================================
