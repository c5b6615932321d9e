------------------------------ MODULE MCPlugin ------------------------------
(***************************************************************************)
(* A small instance of the OpenCode spoke.  No definition tells one        *)
(* top-level session from another.                                         *)
(***************************************************************************)
EXTENDS OpenCode

Alike == Permutations(TopLevel)
=============================================================================
