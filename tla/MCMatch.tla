------------------------------- MODULE MCMatch -------------------------------
(* A small instance of MatchFight for TLC. *)
EXTENDS MatchFight

CONSTANTS r1, r2, g1
=============================================================================
