------------------------------ MODULE MCEngine ------------------------------
(* A small instance of the engine for TLC. *)
EXTENDS Engine

Moments == 0..1

Ahead == {0, 1}
=============================================================================
