---------------------------- MODULE MCRoleSystem ----------------------------
(* Small instances of RoleSessions for TLC. *)
EXTENDS RoleSessions, TLC

CONSTANTS c1, c2, c3, g1, m1, m2, r1

\* Every client is on gate g1.
OneGate == [c \in Clients |-> g1]
\* All connections of one player: they share the login token.
OnePlayer == [c \in Clients |-> 1]

\* Connections on the same gate with the same token are interchangeable, and
\* so are game services.
AnyClient == Permutations(Clients)
AnyClientOrGame == Permutations(Clients) \cup Permutations(Games)
=============================================================================
