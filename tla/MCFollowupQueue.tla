--------------------------- MODULE MCFollowupQueue ---------------------------
(* Instances of FollowupQueue for TLC *)
EXTENDS FollowupQueue

CONSTANTS q1, q2, a, b, c

TwoDests == [m \in Msgs |-> IF m = c THEN "there" ELSE "here"]
Set(m, p) == [mode |-> m, policy |-> p]
Summarizing == {Set("followup", "summarize"), Set("collect", "summarize")}
=============================================================================
