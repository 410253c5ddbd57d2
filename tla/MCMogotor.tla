----------------------------- MODULE MCMogotor -----------------------------
(* Small instances of Mogotor for TLC. *)
EXTENDS Mogotor
============================================================================
