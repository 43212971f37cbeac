----------------------------- MODULE MCReplies -----------------------------
(* Replies on small instances.                                             *)
EXTENDS Replies, TLC

CONSTANTS w1, w2, i1

\* By mail a one-word answer, an away message or an opt-out, by chat an answer
\* or an opt-out.
KindsTwo == (w1 :> {"call", "away", "stop"}) @@ (w2 :> {"reply", "stop"})
DoorTwo == (w1 :> "mail") @@ (w2 :> "chat")
=============================================================================
