--------------------------- MODULE MCClientWaits ----------------------------
(* The model-checking instance of ClientWaits. *)
EXTENDS ClientWaits, TLC
=============================================================================
