----------------------------- MODULE MCSession -----------------------------
(***************************************************************************)
(* Two stream processes of one session and two readers.                    *)
(***************************************************************************)
EXTENDS Session
=============================================================================
