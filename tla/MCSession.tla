----------------------------- MODULE MCSession -----------------------------
(* Instances of Session for TLC: more chats than slots, colliding hashes.  *)
EXTENDS Session, TLC

CONSTANTS cli, a, b, c, d

\* Three chats probe from slot 0 and two from the last slot of three.
Colliding == cli :> 0 @@ a :> 0 @@ b :> 0 @@ c :> 2 @@ d :> 2
=============================================================================
