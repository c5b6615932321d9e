----------------------------- MODULE MCProcess -----------------------------
(***************************************************************************)
(* Two hub processes and two homes; on one of the homes something is said. *)
(***************************************************************************)
EXTENDS HubProcess, TLC

Alike == Permutations(Proc)
=============================================================================
