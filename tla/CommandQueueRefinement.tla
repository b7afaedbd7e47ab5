----------------------- MODULE CommandQueueRefinement -----------------------
(* The command queue implements the safety part of LaneContract: each of    *)
(* its steps is a step of the contract or leaves it where it was.           *)
EXTENDS CommandQueueProofs, FiniteSetTheorems, FunctionTheorems

USE LaneAssumption, ChildAssumption, BoundAssumption

\* Ids tell tasks in flight apart, so a lane's slots count its tasks.
LEMMA SlotsCountTasks ==
  ASSUME TypeOK, Inductive, NEW l \in Lanes
  PROVE  /\ IsFiniteSet(InFlight(l))
         /\ Cardinality(InFlight(l)) = Cardinality(activeTaskIds[l])
<1> DEFINE f == [c \in InFlight(l) |-> task[c].id]
<1>1. activeTaskIds[l] = {task[c].id : c \in InFlight(l)}
  BY DEF Inductive, SlotAccounting
<1>2. IsFiniteSet(activeTaskIds[l])
  <2>1. activeTaskIds[l] \in SUBSET Nat /\ nextTaskId \in Nat
    BY DEF TypeOK
  <2>2. \A id \in activeTaskIds[l] : id <= nextTaskId
    BY <1>1 DEF Inductive, IdsAreFresh, InFlight, TypeOK
  <2>3. QED
    BY <2>1, <2>2, FS_BoundedSetOfNaturals
<1>3. \A c, d \in InFlight(l) : task[c].id = task[d].id => c = d
  BY DEF Inductive, IdsAreFresh, InFlight
<1>4. f \in Injection(InFlight(l), activeTaskIds[l])
  BY <1>1, <1>3 DEF Injection, IsInjective
<1>5. f \in Surjection(InFlight(l), activeTaskIds[l])
  BY <1>1 DEF Surjection
<1>6. QED
  BY <1>2, <1>4, <1>5, FS_Injection

-----------------------------------------------------------------------------
LEMMA InitRefines == Init => Contract!Init
<1> SUFFICES ASSUME Init PROVE Contract!Init
  OBVIOUS
<1>1. \A l \in Lanes : InFlight(l) = {}
  BY DEF Init, InFlight
<1>2. QED
  BY <1>1 DEF Init, Contract!Init

LEMMA SubmitRefines ==
  ASSUME TypeOK, NEW c \in Commands, NEW calls, Submit(c, calls)
  PROVE  Contract!Accept(c) \/ Contract!Refuse(c)
<1>1. Quiet
  BY SubmitQuiet
<1>2. [l \in Lanes |-> InFlight(l)]' = [l \in Lanes |-> InFlight(l)]
  BY <1>1 DEF Quiet, InFlight
<1>3. QED
  BY <1>2 DEF Submit, Contract!Accept, Contract!Refuse

\* What starting a task does to the tasks in flight.
LEMMA StartInFlight ==
  ASSUME TypeOK, Inductive, PumpStart
  PROVE  \E m \in Lanes :
           /\ queue[m] # <<>> /\ Cardinality(InFlight(m)) < maxConcurrent[m]
           /\ InFlight(m)' = InFlight(m) \cup {Head(queue[m])}
           /\ \A l \in Lanes \ {m} : InFlight(l)' = InFlight(l)
           /\ Head(queue[m]) \notin InFlight(m)
           /\ status' = [status EXCEPT ![Head(queue[m])] = "running"]
           /\ queue' = [queue EXCEPT ![m] = Tail(@)]
           /\ UNCHANGED <<maxConcurrent, gatewayDraining>>
<1>1. PICK m \in Lanes : Top.lane = m
  BY StackShape, FrameKinds DEF PumpStart, Running, TypeOK
<1> DEFINE c == Head(queue[m])
<1>2. c \in Commands /\ LaneOf[c] = m /\ status[c] = "queued"
  BY <1>1, StartQueue DEF Inductive
<1>3. /\ task'[c] = [id |-> nextTaskId, gen |-> generation[m]]
      /\ \A d \in Commands \ {c} : task'[d] = task[d] /\ status'[d] = status[d]
      /\ status' = [status EXCEPT ![c] = "running"]
      /\ queue' = [queue EXCEPT ![m] = Tail(@)]
      /\ UNCHANGED <<generation, maxConcurrent, gatewayDraining>>
      /\ queue[m] # <<>> /\ HasRoom(m)
  BY <1>1, <1>2 DEF PumpStart, CanStart, TypeOK
<1>4. Cardinality(InFlight(m)) < maxConcurrent[m]
  BY <1>3, SlotsCountTasks DEF HasRoom
<1> HIDE DEF c
<1>5. /\ InFlight(m)' = InFlight(m) \cup {c}
      /\ \A l \in Lanes \ {m} : InFlight(l)' = InFlight(l)
      /\ c \notin InFlight(m)
  <2>1. /\ status'[c] = "running" /\ task'[c].gen = generation[m]
        /\ \A l \in Lanes : c \notin InFlight(l)
    BY <1>2, <1>3 DEF InFlight, TypeOK
  <2>2. QED
    BY <1>2, <1>3, <2>1 DEF InFlight
<1>6. QED
  BY <1>3, <1>4, <1>5 DEF c

LEMMA StartRefines ==
  ASSUME TypeOK, Inductive, PumpStart
  PROVE  \E l \in Lanes : Contract!Start(l)
<1> DEFINE H == [l \in Lanes |-> InFlight(l)]
<1>1. PICK m \in Lanes :
        /\ queue[m] # <<>> /\ Cardinality(InFlight(m)) < maxConcurrent[m]
        /\ InFlight(m)' = InFlight(m) \cup {Head(queue[m])}
        /\ \A l \in Lanes \ {m} : InFlight(l)' = InFlight(l)
        /\ status' = [status EXCEPT ![Head(queue[m])] = "running"]
        /\ queue' = [queue EXCEPT ![m] = Tail(@)]
        /\ UNCHANGED <<maxConcurrent, gatewayDraining>>
  BY StartInFlight
<1>2. Cardinality(H[m]) < maxConcurrent[m]
  BY <1>1
<1>3. H' = [H EXCEPT ![m] = @ \cup {Head(queue[m])}]
  BY <1>1
<1>4. UNCHANGED <<maxConcurrent, ~gatewayDraining>>
  BY <1>1
<1> HIDE DEF H
<1>5. /\ queue[m] # <<>> /\ queue' = [queue EXCEPT ![m] = Tail(@)]
      /\ Cardinality(H[m]) < maxConcurrent[m]
      /\ H' = [H EXCEPT ![m] = @ \cup {Head(queue[m])}]
      /\ status' = [status EXCEPT ![Head(queue[m])] = "running"]
      /\ UNCHANGED <<maxConcurrent, ~gatewayDraining>>
  BY <1>1, <1>2, <1>3, <1>4
<1>6. Contract!Cardinality(H[m]) = Cardinality(H[m])
  BY DEF Cardinality, Contract!Cardinality
<1>7. Contract!Start(m)
  BY <1>5, <1>6, Zenon DEF Contract!Start, H
<1>8. QED
  BY <1>7

LEMMA CompletionRefines ==
  ASSUME TypeOK, Inductive, NEW c \in Commands, CompleteTask(c, Settled)
  PROVE  Contract!Settle(c)
<1>1. /\ status[c] = "running" /\ LaneOf[c] \in Lanes
      /\ \E outcome \in Settled : status' = [status EXCEPT ![c] = outcome]
      /\ UNCHANGED <<task, generation, queue, maxConcurrent, gatewayDraining>>
  BY DEF CompleteTask, PumpAgain
<1>2. status'[c] # "running" /\ \A d \in Commands \ {c} : status'[d] = status[d]
  BY <1>1 DEF TypeOK, Settled
<1>3. \A l \in Lanes : InFlight(l)' = IF l = LaneOf[c] THEN InFlight(l) \ {c} ELSE InFlight(l)
  BY <1>1, <1>2 DEF InFlight
<1>4. [l \in Lanes |-> InFlight(l)]'
        = [[l \in Lanes |-> InFlight(l)] EXCEPT ![LaneOf[c]] = @ \ {c}]
  BY <1>1, <1>3
<1>5. QED
  BY <1>1, <1>4 DEF Contract!Settle, Settled, Contract!Settled

LEMMA StepRefines ==
  ASSUME TypeOK, Inductive, [Next]_vars
  PROVE  [Contract!Next]_(Contract!vars)
<1>1. CASE PumpStart
  BY <1>1, StartRefines DEF Contract!Next
<1>2. ASSUME NEW c \in Commands, CompleteTask(c, Settled) PROVE Contract!Next
  BY <1>2, CompletionRefines DEF Contract!Next
<1>3. ASSUME NEW c \in Commands, Enqueue(c) PROVE Contract!Next
  BY <1>3, SubmitRefines DEF Enqueue, Contract!Next
<1>4. CASE ResetAllLanes
  <2>1. Slots
    BY DEF Inductive, Slots
  <2>2. \A l \in Lanes : InFlight(l)' = {}
    BY <1>4, <2>1, ResetSlots
  <2>3. [l \in Lanes |-> InFlight(l)]' = [l \in Lanes |-> {}]
    BY <2>2
  <2>4. Contract!Restart
    BY <1>4, <2>3 DEF ResetAllLanes, Contract!Restart
  <2>5. QED
    BY <2>4 DEF Contract!Next
<1>5. CASE Quiet
  <2>1. [l \in Lanes |-> InFlight(l)]' = [l \in Lanes |-> InFlight(l)]
    BY <1>5 DEF Quiet, InFlight
  <2>2. ASSUME NEW l \in Lanes, ClearCommandLane(l) PROVE Contract!Next
    <3>1. Contract!Drop(l)
      BY <2>1, <2>2 DEF ClearCommandLane, Contract!Drop
    <3>2. QED
      BY <3>1 DEF Contract!Next
  <2>3. ASSUME NEW l \in Lanes, NEW n \in 0..MaxLimit, SetCommandLaneConcurrency(l, n)
        PROVE  Contract!Next
    <3>1. SlotCount(n) \in 1..MaxLimit
      BY DEF SlotCount
    <3>2. Contract!SetLimit(l, SlotCount(n))
      BY <2>1, <2>3 DEF SetCommandLaneConcurrency, SlotCount, Contract!SetLimit
    <3>3. QED
      BY <3>1, <3>2 DEF Contract!Next
  <2>4. CASE MarkGatewayDraining
    BY <2>1, <2>4 DEF MarkGatewayDraining, Contract!Close, Contract!Next
  <2>5. CASE UNCHANGED <<queue, maxConcurrent, gatewayDraining, status>>
    BY <2>1, <2>5 DEF Contract!vars
  <2>6. CASE DrainLane \/ PumpExit \/ ResetDrain \/ WaitForActiveTasks \/ WaitCheck
             \/ UNCHANGED vars
    BY <2>5, <2>6 DEF DrainLane, PumpExit, ResetDrain, WaitForActiveTasks, WaitCheck, AllEnded,
                      vars, laneVars
  <2>7. CASE TaskPrefix
    <3>1. Top.cmd \in Commands
      BY <2>7, StackShape, FrameKinds DEF TaskPrefix, Running, TypeOK
    <3>2. CASE Child[Top.cmd] # NoCommand /\ Submit(Child[Top.cmd], Rest)
      <4>1. Child[Top.cmd] \in Commands
        BY <3>1, <3>2
      <4>2. QED
        BY <3>2, <4>1, SubmitRefines DEF Contract!Next
    <3>3. QED
      BY <2>5, <2>7, <3>2 DEF TaskPrefix, laneVars
  <2>8. QED
    BY <1>1, <1>2, <1>3, <1>4, <2>2, <2>3, <2>4, <2>6, <2>7, CompletionCovers DEF Next, Turn
<1>6. QED
  BY <1>1, <1>2, <1>4, <1>5, OtherSteps DEF Inductive

\* The command queue starts commands as its contract promises: in order,
\* within the lane's limit, without losing a command at a restart.
THEOREM StartsAsPromisedHolds == Spec => StartsAsPromised
<1>1. Init => Contract!Init
  BY InitRefines
<1>2. TypeOK /\ Inductive /\ [Next]_vars => [Contract!Next]_(Contract!vars)
  BY StepRefines
<1>3. QED
  BY <1>1, <1>2, Invariance, PTL DEF Spec, StartsAsPromised, Contract!Safety

\* A command gets in flight only while its lane is below its limit, whatever
\* lowering of the limit or restart came before.
THEOREM LimitIsRespected == Spec => StartsWithinLimit
<1> DEFINE Within(l) == InFlight(l)' \subseteq InFlight(l)
                          \/ Cardinality(InFlight(l)') <= maxConcurrent'[l]
<1>1. ASSUME TypeOK, Inductive, [Next]_vars PROVE \A l \in Lanes : Within(l)
  <2>1. CASE Quiet
    BY <2>1 DEF Quiet, InFlight
  <2>2. CASE PumpStart
    <3>1. PICK m \in Lanes :
            /\ Cardinality(InFlight(m)) < maxConcurrent[m]
            /\ InFlight(m)' = InFlight(m) \cup {Head(queue[m])}
            /\ \A l \in Lanes \ {m} : InFlight(l)' = InFlight(l)
            /\ Head(queue[m]) \notin InFlight(m)
            /\ UNCHANGED maxConcurrent
      BY <1>1, <2>2, StartInFlight
    <3>2. IsFiniteSet(InFlight(m))
      BY <1>1, SlotsCountTasks
    <3>3. /\ Cardinality(InFlight(m)') = Cardinality(InFlight(m)) + 1
          /\ Cardinality(InFlight(m)) \in Nat
      BY <3>1, <3>2, FS_AddElement, FS_CardinalityType
    <3>4. maxConcurrent[m] \in Nat
      BY <1>1 DEF TypeOK
    <3>5. Cardinality(InFlight(m)') <= maxConcurrent'[m]
      BY <3>1, <3>3, <3>4
    <3>6. QED
      BY <3>1, <3>5
  <2>3. CASE \E c \in Commands : CompleteTask(c, Settled)
    BY <2>3 DEF CompleteTask, PumpAgain, InFlight
  <2>4. CASE ResetAllLanes
    <3>1. Slots
      BY <1>1 DEF Inductive, Slots
    <3>2. \A l \in Lanes : InFlight(l)' = {}
      BY <1>1, <2>4, <3>1, ResetSlots
    <3>3. QED
      BY <3>2
  <2>5. QED
    BY <1>1, <2>1, <2>2, <2>3, <2>4, OtherSteps DEF Inductive
<1>2. TypeOK /\ Inductive /\ [Next]_vars => [\A l \in Lanes : Within(l)]_vars
  BY <1>1
<1>3. QED
  BY <1>2, Invariance, PTL DEF Spec, StartsWithinLimit
=============================================================================
