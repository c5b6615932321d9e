------------------------------ MODULE MCStream ------------------------------
(***************************************************************************)
(* Small instances of the stream spoke.  The requests of one kind are      *)
(* alike: no definition tells one say, or one state, from another.         *)
(***************************************************************************)
EXTENDS StreamSpoke, TLC

Alike == Permutations(Sayer) \cup Permutations(Hook)
=============================================================================
