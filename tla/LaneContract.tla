---------------------------- MODULE LaneContract ----------------------------
(***************************************************************************)
(* What the command queue promises its callers, without saying how: in     *)
(* each lane commands start in the order they were submitted, no command   *)
(* starts while the lane's limit is reached, a command that can start      *)
(* eventually does, and a restart frees the slots of the tasks it          *)
(* interrupts without losing the commands that wait.                       *)
(***************************************************************************)
EXTENDS Naturals, Sequences, FiniteSets

CONSTANTS Lanes, Commands, LaneOf, MaxLimit

VARIABLES
  line,      \* line[l]: commands waiting for lane l, oldest first
  holders,   \* holders[l]: commands that hold a slot of lane l
  limit,     \* limit[l]: slots of lane l
  open,      \* submissions are accepted
  fate       \* fate[c]: "new", "queued", "running", or how it settled

vars == <<line, holders, limit, open, fate>>

Settled == {"resolved", "failed", "cleared", "refused"}

Init ==
  /\ line = [l \in Lanes |-> <<>>]
  /\ holders = [l \in Lanes |-> {}]
  /\ limit = [l \in Lanes |-> 1]
  /\ open = TRUE
  /\ fate = [c \in Commands |-> "new"]

Accept(c) ==
  /\ open /\ fate[c] = "new"
  /\ line' = [line EXCEPT ![LaneOf[c]] = Append(@, c)]
  /\ fate' = [fate EXCEPT ![c] = "queued"]
  /\ UNCHANGED <<holders, limit, open>>

Refuse(c) ==
  /\ ~open /\ fate[c] = "new"
  /\ fate' = [fate EXCEPT ![c] = "refused"]
  /\ UNCHANGED <<line, holders, limit, open>>

Start(l) ==
  /\ line[l] # <<>>
  /\ Cardinality(holders[l]) < limit[l]
  /\ holders' = [holders EXCEPT ![l] = @ \cup {Head(line[l])}]
  /\ line' = [line EXCEPT ![l] = Tail(@)]
  /\ fate' = [fate EXCEPT ![Head(line[l])] = "running"]
  /\ UNCHANGED <<limit, open>>

\* A running command settles and gives back its slot, if it still has one.
Settle(c) ==
  /\ fate[c] = "running"
  /\ \E outcome \in Settled : fate' = [fate EXCEPT ![c] = outcome]
  /\ holders' = [holders EXCEPT ![LaneOf[c]] = @ \ {c}]
  /\ UNCHANGED <<line, limit, open>>

Drop(l) ==
  /\ fate' = [c \in Commands |->
                IF \E i \in DOMAIN line[l] : line[l][i] = c THEN "cleared" ELSE fate[c]]
  /\ line' = [line EXCEPT ![l] = <<>>]
  /\ UNCHANGED <<holders, limit, open>>

SetLimit(l, n) == limit' = [limit EXCEPT ![l] = n] /\ UNCHANGED <<line, holders, open, fate>>

Close == open' = FALSE /\ UNCHANGED <<line, holders, limit, fate>>

Restart ==
  /\ open' = TRUE
  /\ holders' = [l \in Lanes |-> {}]
  /\ UNCHANGED <<line, limit, fate>>

Next ==
  \/ \E c \in Commands : Accept(c) \/ Refuse(c) \/ Settle(c)
  \/ \E l \in Lanes : Start(l) \/ Drop(l) \/ \E n \in 1..MaxLimit : SetLimit(l, n)
  \/ Close \/ Restart

Safety == Init /\ [][Next]_vars
Spec == Safety /\ \A l \in Lanes : WF_vars(Start(l))
=============================================================================
