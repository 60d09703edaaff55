-------------------------------- MODULE MCNet --------------------------------
(* Small instances of NetModule for TLC. *)
EXTENDS NetModule

CONSTANTS listener, caller, guest

\* Nothing for the others.
CallerTwice == [c \in Cnns |-> IF c = caller THEN 2 ELSE 0]
GuestOnce == [c \in Cnns |-> IF c = guest THEN 1 ELSE 0]
=============================================================================
