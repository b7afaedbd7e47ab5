--------------------------- MODULE MCCommandQueue ---------------------------
(* One lane and four commands, one of them submitted by the task of another *)
(* before its first await: the call that re-enters a lane being pumped.     *)
(* That task may end before its child does.                                 *)
EXTENDS CommandQueue

MCLaneOf == [p |-> "main", c |-> "main", d |-> "main", e |-> "main"]
MCCommands == DOMAIN MCLaneOf
MCChild == [p |-> "c", c |-> "none", d |-> "none", e |-> "none"]
MCSyncParents == {"p"}
=============================================================================
