----------------------------- MODULE MCKDexHost -----------------------------
(***************************************************************************)
(* KDexHost for model checking.  Its configurations give the constants     *)
(* their values: strings for the kinds of children and referents, and the  *)
(* bounds on incarnations, edits and failures that make it finite.         *)
(***************************************************************************)
EXTENDS KDexHost
=============================================================================
