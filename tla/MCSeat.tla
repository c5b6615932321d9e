------------------------------- MODULE MCSeat -------------------------------
(***************************************************************************)
(* One seat and one peer.                                                  *)
(***************************************************************************)
EXTENDS ObserverSeat
=============================================================================
