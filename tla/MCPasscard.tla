----------------------------- MODULE MCPasscard -----------------------------
(* TLC instance of Passcard. *)
EXTENDS CardNumbers
=============================================================================
