----------------------------- MODULE MCSayGate -----------------------------
(***************************************************************************)
(* A small gate: two messages, a bucket of two tokens that two thirds of a *)
(* token fill every second, and a dedup window of two seconds.             *)
(***************************************************************************)
EXTENDS SayGate

=============================================================================
