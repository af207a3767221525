---------------------------- MODULE MCMessaging ----------------------------
(* Instances of Messaging for TLC. *)
EXTENDS Messaging, TLC

CONSTANTS c1, c2, c3, s1, s2

Symmetry == Permutations(Conns) \cup Permutations(Stacks)

Daemons == {"email", "heartbeat"}
OnlyHeartbeat == {"heartbeat"}
NoDaemons == {}
EmailOnly == {"email"}
=============================================================================
