------------------------- MODULE MCCommandQueueLive -------------------------
(* An agent run and a second command that wants the same global slot.       *)
EXTENDS CommandQueue

MCLaneOf == [s1 |-> "session", g1 |-> "main", g2 |-> "main"]
MCCommands == DOMAIN MCLaneOf
MCChild == [s1 |-> "g1", g1 |-> "none", g2 |-> "none"]
MCSyncParents == {"s1"}
=============================================================================
