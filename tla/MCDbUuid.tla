------------------------------ MODULE MCDbUuid ------------------------------
(* A small instance of DbUuid for TLC. *)
EXTENDS DbUuid, TLC

CONSTANTS s1, s2

\* Services are interchangeable.
AnyService == Permutations(Services)
=============================================================================
