------------------------- MODULE CommandQueueProofs -------------------------
(* Theorems about CommandQueue, for every set of lanes and commands.        *)
EXTENDS CommandQueue, SequenceTheorems, TLAPS

USE LaneAssumption, ChildAssumption, BoundAssumption

-----------------------------------------------------------------------------
(* The stack of calls.                                                      *)

\* What the frame in progress is, by its kind.
LEMMA FrameKinds ==
  ASSUME NEW f \in Frame
  PROVE  /\ f.at = "drain" => f.lane \in Lanes /\ f = DrainFrame(f.lane)
         /\ f.at = "pump"  => f.lane \in Lanes /\ f = PumpFrame(f.lane)
         /\ f.at = "task"  => f.cmd \in Commands /\ f = TaskFrame(f.cmd)
         /\ f.at = "reset" => f.todo \subseteq Lanes /\ f = ResetFrame(f.todo)
  BY DEF Frame, DrainFrame, PumpFrame, TaskFrame, ResetFrame

LEMMA FramesAreFrames ==
  /\ \A l \in Lanes : DrainFrame(l) \in Frame /\ PumpFrame(l) \in Frame
  /\ \A c \in Commands : TaskFrame(c) \in Frame
  /\ \A S \in SUBSET Lanes : ResetFrame(S) \in Frame
  BY DEF Frame, DrainFrame, PumpFrame, TaskFrame, ResetFrame

\* A non-empty stack is its innermost frame on top of the rest.
LEMMA StackShape ==
  ASSUME stack \in Seq(Frame), stack # <<>>
  PROVE  /\ Top \in Frame
         /\ Rest \in Seq(Frame)
         /\ Len(stack) \in Nat \ {0}
         /\ Len(Rest) = Len(stack) - 1
         /\ \A i \in 1..Len(Rest) : Rest[i] = stack[i]
<1>1. Len(stack) \in Nat \ {0}
  BY EmptySeq
<1>2. Top \in Frame
  BY <1>1, ElementOfSeq DEF Top
<1>3. \A i \in 1..(Len(stack) - 1) : stack[i] \in Frame
  BY <1>1, ElementOfSeq
<1>4. /\ Rest \in Seq(Frame)
      /\ Len(Rest) = Len(stack) - 1
      /\ \A i \in 1..(Len(stack) - 1) : Rest[i] = stack[i]
  <2> DEFINE n == Len(stack) - 1
  <2>1. n \in Nat /\ n \in Int /\ 1 \in Int
    BY <1>1
  <2>2. /\ Rest \in Seq(Frame)
        /\ Len(Rest) = IF 1 <= n THEN n - 1 + 1 ELSE 0
        /\ \A i \in 1..(n - 1 + 1) : Rest[i] = stack[1 + i - 1]
    BY <1>3, <2>1, SubSeqProperties DEF Rest
  <2> HIDE DEF n
  <2>3. Len(Rest) = n
    BY <2>1, <2>2
  <2>4. \A i \in 1..n : Rest[i] = stack[i]
    <3>1. TAKE i \in 1..n
    <3>2. i \in 1..(n - 1 + 1) /\ 1 + i - 1 = i
      BY <2>1
    <3>3. QED
      BY <2>2, <3>2
  <2>5. QED
    BY <2>2, <2>3, <2>4 DEF n
<1>5. QED
  BY <1>1, <1>2, <1>4

-----------------------------------------------------------------------------
LEMMA InitType == Init => TypeOK
<1> SUFFICES ASSUME Init PROVE TypeOK
  OBVIOUS
<1>1. queue \in [Lanes -> Seq(Commands)] /\ stack \in Seq(Frame)
  BY EmptySeq DEF Init
<1>2. maxConcurrent \in [Lanes -> 1..MaxLimit]
  BY BoundAssumption DEF Init
<1>3. status \in [Commands -> Pending \cup Settled]
  BY DEF Init, Pending
<1>4. task \in [Commands -> [id : Nat, gen : Nat]]
  BY DEF Init
<1>5. QED
  BY <1>1, <1>2, <1>3, <1>4 DEF Init, TypeOK

\* Submitting, from a stack of calls whatever it is.
LEMMA SubmitType ==
  ASSUME TypeOK, NEW c \in Commands, NEW calls \in Seq(Frame), Submit(c, calls)
  PROVE  TypeOK'
<1>1. LaneOf[c] \in Lanes
  OBVIOUS
<1>2. CASE gatewayDraining
  BY <1>2 DEF Submit, TypeOK, Settled
<1>3. CASE ~gatewayDraining
  <2>1. stack' \in Seq(Frame)
    BY <1>1, <1>3, FramesAreFrames DEF Submit
  <2>2. queue' \in [Lanes -> Seq(Commands)]
    <3>1. queue \in [Lanes -> Seq(Commands)]
      BY DEF TypeOK
    <3>2. Append(queue[LaneOf[c]], c) \in Seq(Commands)
      BY <1>1, <3>1
    <3>3. queue' = [queue EXCEPT ![LaneOf[c]] = Append(@, c)]
      BY <1>3 DEF Submit
    <3>4. QED
      BY <3>1, <3>2, <3>3
  <2>3. status' \in [Commands -> Pending \cup Settled]
    <3>1. status' = [status EXCEPT ![c] = "queued"] /\ "queued" \in Pending
      BY <1>3 DEF Submit, Pending
    <3>2. QED  BY <3>1 DEF TypeOK
  <2>4. UNCHANGED <<gatewayDraining, nextTaskId, activeTaskIds, maxConcurrent, draining,
                    generation, task, waiter>>
    BY <1>3 DEF Submit
  <2>5. QED
    BY <2>1, <2>2, <2>3, <2>4 DEF TypeOK
<1>4. QED
  BY <1>2, <1>3

LEMMA TurnType == TypeOK /\ Turn => TypeOK'
<1> SUFFICES ASSUME TypeOK, Turn PROVE TypeOK'
  OBVIOUS
<1>0. stack \in Seq(Frame) /\ stack # <<>>
  BY DEF TypeOK, Turn, DrainLane, PumpStart, PumpExit, TaskPrefix, ResetDrain, Running
<1>1. Top \in Frame /\ Rest \in Seq(Frame)
  BY <1>0, StackShape
<1>2. CASE DrainLane
  <2>1. Top.lane \in Lanes
    BY <1>1, <1>2, FrameKinds DEF DrainLane, Running
  <2>2. stack' \in Seq(Frame)
    BY <1>1, <1>2, <2>1, FramesAreFrames DEF DrainLane
  <2>3. draining' \in [Lanes -> BOOLEAN]
    BY <1>2, <2>1 DEF DrainLane, TypeOK
  <2>4. QED
    BY <1>2, <2>2, <2>3 DEF DrainLane, TypeOK
<1>3. CASE PumpStart
  <2> DEFINE l == Top.lane
  <2> DEFINE c == Head(queue[l])
  <2>1. l \in Lanes /\ queue[l] \in Seq(Commands) /\ queue[l] # <<>>
    BY <1>1, <1>3, FrameKinds DEF PumpStart, Running, CanStart, TypeOK
  <2>2. c \in Commands /\ Tail(queue[l]) \in Seq(Commands)
    BY <2>1
  <2>3. stack' \in Seq(Frame)
    BY <1>0, <1>3, <2>2, FramesAreFrames DEF PumpStart
  <2>4. queue' \in [Lanes -> Seq(Commands)]
    BY <1>3, <2>1, <2>2 DEF PumpStart, TypeOK
  <2>5. activeTaskIds' \in [Lanes -> SUBSET Nat]
    BY <1>3, <2>1 DEF PumpStart, TypeOK
  <2>6. task' \in [Commands -> [id : Nat, gen : Nat]]
    BY <1>3, <2>1, <2>2 DEF PumpStart, TypeOK
  <2>7. status' \in [Commands -> Pending \cup Settled]
    BY <1>3, <2>2 DEF PumpStart, TypeOK, Pending
  <2>8. nextTaskId' \in Nat
    BY <1>3 DEF PumpStart, TypeOK
  <2>9. UNCHANGED <<gatewayDraining, maxConcurrent, draining, generation, waiter>>
    BY <1>3 DEF PumpStart
  <2> HIDE DEF l, c
  <2>10. QED
    BY <2>3, <2>4, <2>5, <2>6, <2>7, <2>8, <2>9 DEF TypeOK
<1>4. CASE PumpExit
  BY <1>1, <1>4 DEF PumpExit, TypeOK
<1>5. CASE TaskPrefix
  <2>1. Top.cmd \in Commands
    BY <1>1, <1>5, FrameKinds DEF TaskPrefix, Running
  <2>2. CASE Child[Top.cmd] # NoCommand /\ Submit(Child[Top.cmd], Rest)
    <3>1. Child[Top.cmd] \in Commands
      BY <2>1, <2>2
    <3>2. QED
      BY <1>1, <2>2, <3>1, SubmitType
  <2>3. CASE stack' = Rest /\ UNCHANGED <<laneVars, status, task, waiter>>
    BY <1>1, <2>3 DEF TypeOK, laneVars
  <2>4. QED
    BY <1>5, <2>2, <2>3 DEF TaskPrefix
<1>6. CASE ResetDrain
  <2>1. Top.todo \subseteq Lanes
    BY <1>1, <1>6, FrameKinds DEF ResetDrain, Running
  <2>2. stack' \in Seq(Frame)
    <3>1. CASE Top.todo = {}
      BY <1>1, <1>6, <3>1 DEF ResetDrain
    <3>2. CASE Top.todo # {}
      <4>1. PICK l \in Top.todo :
              stack' = Append(Append(Rest, ResetFrame(Top.todo \ {l})), DrainFrame(l))
        BY <1>6, <3>2 DEF ResetDrain
      <4>2. ResetFrame(Top.todo \ {l}) \in Frame /\ DrainFrame(l) \in Frame
        BY <2>1, FramesAreFrames
      <4>3. QED
        BY <1>1, <4>1, <4>2
    <3>3. QED
      BY <3>1, <3>2
  <2>3. QED
    BY <1>6, <2>2 DEF ResetDrain, TypeOK, laneVars
<1>7. QED
  BY <1>2, <1>3, <1>4, <1>5, <1>6 DEF Turn

\* Both ways a task ends complete it, with a settled promise.
LEMMA CompletionCovers ==
  \A c \in Commands : Finish(c) \/ Abandon(c) => CompleteTask(c, Settled)
  BY DEF Finish, Abandon, CompleteTask, Endings, Settled

LEMMA StepType == TypeOK /\ [Next]_vars => TypeOK'
<1> SUFFICES ASSUME TypeOK, [Next]_vars PROVE TypeOK'
  OBVIOUS
<1>1. CASE Turn
  BY <1>1, TurnType
<1>2. ASSUME NEW c \in Commands, Enqueue(c) PROVE TypeOK'
  BY <1>2, EmptySeq, SubmitType DEF Enqueue
<1>3. ASSUME NEW c \in Commands, CompleteTask(c, Settled) PROVE TypeOK'
  <2>1. status' \in [Commands -> Pending \cup Settled]
    BY <1>3 DEF CompleteTask, PumpAgain, TypeOK, Pending, Settled
  <2>2. LaneOf[c] \in Lanes
    OBVIOUS
  <2>3. activeTaskIds' \in [Lanes -> SUBSET Nat] /\ stack' \in Seq(Frame)
    <3>1. CASE UNCHANGED <<activeTaskIds, stack>>
      BY <3>1 DEF TypeOK
    <3>2. CASE /\ activeTaskIds' = [activeTaskIds EXCEPT ![LaneOf[c]] = @ \ {task[c].id}]
               /\ stack' = <<PumpFrame(LaneOf[c])>>
      <4>1. stack' \in Seq(Frame)
        BY <2>2, <3>2, FramesAreFrames
      <4>2. QED
        BY <2>2, <3>2, <4>1 DEF TypeOK
    <3>3. QED
      BY <1>3, <3>1, <3>2 DEF CompleteTask, PumpAgain
  <2>4. QED
    BY <1>3, <2>1, <2>3 DEF CompleteTask, PumpAgain, TypeOK
<1>4. ASSUME NEW l \in Lanes, ClearCommandLane(l) PROVE TypeOK'
  <2>1. status' \in [Commands -> Pending \cup Settled]
    BY <1>4 DEF ClearCommandLane, TypeOK, Settled
  <2>2. queue' \in [Lanes -> Seq(Commands)]
    BY <1>4 DEF ClearCommandLane, TypeOK
  <2>3. QED
    BY <1>4, <2>1, <2>2 DEF ClearCommandLane, TypeOK
<1>5. ASSUME NEW l \in Lanes, NEW n \in 0..MaxLimit, SetCommandLaneConcurrency(l, n)
      PROVE  TypeOK'
  <2>1. stack' \in Seq(Frame)
    BY <1>5, FramesAreFrames DEF SetCommandLaneConcurrency, SlotCount
  <2>2. maxConcurrent' \in [Lanes -> 1..MaxLimit]
    BY <1>5 DEF SetCommandLaneConcurrency, SlotCount, TypeOK
  <2>3. QED
    BY <1>5, <2>1, <2>2 DEF SetCommandLaneConcurrency, SlotCount, TypeOK
<1>6. CASE MarkGatewayDraining
  BY <1>6 DEF MarkGatewayDraining, TypeOK
<1>7. CASE ResetAllLanes
  <2>1. stack' \in Seq(Frame)
    BY <1>7, FramesAreFrames DEF ResetAllLanes
  <2>2. generation' \in [Lanes -> Nat]
    BY <1>7 DEF ResetAllLanes, TypeOK
  <2>3. QED
    BY <1>7, <2>1, <2>2 DEF ResetAllLanes, TypeOK
<1>8. CASE WaitForActiveTasks
  BY <1>8 DEF WaitForActiveTasks, ActiveTasks, TypeOK, laneVars
<1>9. CASE WaitCheck
  BY <1>9 DEF WaitCheck, AllEnded, TypeOK, laneVars
<1>10. CASE UNCHANGED vars
  BY <1>10 DEF vars, laneVars, TypeOK
<1>11. QED
  BY <1>1, <1>2, <1>3, <1>4, <1>5, <1>6, <1>7, <1>8, <1>9, <1>10, CompletionCovers DEF Next

\* Every variable keeps its type: in particular a lane's limit stays at least
\* one, whatever the configuration says.
THEOREM TypeCorrect == Spec => []TypeOK
<1>1. QED
  BY InitType, StepType, PTL DEF Spec

-----------------------------------------------------------------------------
(* A lane's queue lists each waiting command once.                          *)

\* The facts of a submission, whatever stack it leaves.
LEMMA SubmitQueue ==
  ASSUME TypeOK, QueueLists, NEW c \in Commands, NEW calls, Submit(c, calls)
  PROVE  QueueLists'
<1>1. \A l \in Lanes : \A i \in DOMAIN queue[l] : queue[l][i] \in Commands \ {c}
  <2>1. TAKE l \in Lanes
  <2>2. TAKE i \in DOMAIN queue[l]
  <2>3. queue[l][i] \in Commands
    BY ElementOfSeq, LenProperties DEF TypeOK
  <2>4. QED
    BY <2>3 DEF QueueLists, ListsWaiting, Submit
<1>2. CASE gatewayDraining
  BY <1>1, <1>2 DEF Submit, QueueLists, ListsWaiting, TypeOK
<1>3. CASE ~gatewayDraining
  <2> DEFINE m == LaneOf[c]
  <2>1. m \in Lanes /\ queue[m] \in Seq(Commands)
    BY DEF TypeOK
  <2>2. /\ queue'[m] = Append(queue[m], c)
        /\ \A l \in Lanes \ {m} : queue'[l] = queue[l]
        /\ status'[c] = "queued"
        /\ \A d \in Commands \ {c} : status'[d] = status[d]
    BY <1>3, <2>1 DEF Submit, TypeOK
  <2>3. ASSUME NEW l \in Lanes, l # m PROVE ListsWaiting(l)'
    BY <1>1, <2>2, <2>3 DEF QueueLists, ListsWaiting
  <2>4. ListsWaiting(m)'
    <3>1. DOMAIN queue'[m] = 1..(Len(queue[m]) + 1)
      BY <2>1, <2>2
    <3>2. DOMAIN queue[m] = 1..Len(queue[m]) /\ Len(queue[m]) \in Nat
      BY <2>1, LenProperties
    <3>3. /\ queue'[m][Len(queue[m]) + 1] = c
          /\ \A i \in DOMAIN queue[m] : queue'[m][i] = queue[m][i]
      BY <2>1, <2>2
    <3>4. ListsWaiting(m)
      BY <2>1 DEF QueueLists
    <3>5. \A i \in DOMAIN queue'[m] :
            LaneOf[queue'[m][i]] = m /\ status'[queue'[m][i]] = "queued"
      BY <1>1, <2>1, <2>2, <3>1, <3>2, <3>3, <3>4 DEF ListsWaiting
    <3>6. \A i, j \in DOMAIN queue'[m] : queue'[m][i] = queue'[m][j] => i = j
      BY <1>1, <2>1, <3>1, <3>2, <3>3, <3>4 DEF ListsWaiting
    <3>7. QED
      BY <3>5, <3>6 DEF ListsWaiting
  <2>5. QED
    BY <2>3, <2>4 DEF QueueLists
<1>4. QED
  BY <1>2, <1>3

LEMMA StartQueue ==
  ASSUME TypeOK, QueueLists, PumpStart, NEW m \in Lanes, Top.lane = m
  PROVE  /\ QueueLists'
         /\ Head(queue[m]) \in Commands
         /\ LaneOf[Head(queue[m])] = m
         /\ status[Head(queue[m])] = "queued"
<1> DEFINE c == Head(queue[m])
<1>1. queue[m] \in Seq(Commands) /\ queue[m] # <<>>
  BY DEF PumpStart, CanStart, TypeOK
<1>2. 1 \in DOMAIN queue[m] /\ c = queue[m][1] /\ c \in Commands
  BY <1>1
<1>3. LaneOf[c] = m /\ status[c] = "queued"
  BY <1>2 DEF QueueLists, ListsWaiting
<1>4. /\ queue'[m] = Tail(queue[m])
      /\ \A l \in Lanes \ {m} : queue'[l] = queue[l]
      /\ \A d \in Commands \ {c} : status'[d] = status[d]
  BY <1>2 DEF PumpStart, TypeOK
<1>5. \A l \in Lanes : \A i \in DOMAIN queue[l] : queue[l][i] \in Commands
  BY ElementOfSeq, LenProperties DEF TypeOK
<1> HIDE DEF c
<1>6. ASSUME NEW l \in Lanes, l # m PROVE ListsWaiting(l)'
  BY <1>3, <1>4, <1>5, <1>6 DEF QueueLists, ListsWaiting
<1>7. ListsWaiting(m)'
  <2>1. /\ DOMAIN queue[m] = 1..Len(queue[m])
        /\ DOMAIN queue'[m] = 1..(Len(queue[m]) - 1)
        /\ Len(queue[m]) \in Nat
        /\ \A i \in 1..(Len(queue[m]) - 1) : queue'[m][i] = queue[m][i + 1]
    BY <1>1, <1>4, HeadTailProperties, LenProperties
  <2>2. \A i \in DOMAIN queue'[m] : i + 1 \in DOMAIN queue[m] /\ i + 1 # 1
    BY <2>1
  <2>3. \A i \in DOMAIN queue'[m] : queue'[m][i] \in Commands \ {c}
    BY <1>2, <1>5, <2>1, <2>2 DEF QueueLists, ListsWaiting
  <2>4. \A i \in DOMAIN queue'[m] : LaneOf[queue'[m][i]] = m /\ status'[queue'[m][i]] = "queued"
    BY <1>4, <2>1, <2>2, <2>3 DEF QueueLists, ListsWaiting
  <2>5. ASSUME NEW i \in DOMAIN queue'[m], NEW j \in DOMAIN queue'[m],
               queue'[m][i] = queue'[m][j]
        PROVE  i = j
    <3>0. ListsWaiting(m)
      BY DEF QueueLists
    <3>1. i + 1 = j + 1
      <4>1. i + 1 \in DOMAIN queue[m] /\ j + 1 \in DOMAIN queue[m]
        BY <2>2
      <4>2. queue[m][i + 1] = queue[m][j + 1]
        BY <2>1, <2>5
      <4>3. QED
        BY <3>0, <4>1, <4>2 DEF ListsWaiting
    <3>2. QED
      BY <2>1, <3>1
  <2>6. QED
    BY <2>4, <2>5 DEF ListsWaiting
<1>8. QED
  BY <1>2, <1>3, <1>6, <1>7 DEF QueueLists, c

LEMMA StepQueue == TypeOK /\ QueueLists /\ [Next]_vars => QueueLists'
<1> SUFFICES ASSUME TypeOK, QueueLists, [Next]_vars PROVE QueueLists'
  OBVIOUS
<1>0. \A l \in Lanes : \A i \in DOMAIN queue[l] : queue[l][i] \in Commands
  BY ElementOfSeq, LenProperties DEF TypeOK
<1>1. CASE UNCHANGED <<queue, status>>
  BY <1>1 DEF QueueLists, ListsWaiting
<1>2. CASE PumpStart
  <2>1. Top.lane \in Lanes
    BY <1>2, StackShape, FrameKinds DEF PumpStart, Running, TypeOK
  <2>2. QED
    BY <1>2, <2>1, StartQueue
<1>3. CASE TaskPrefix
  <2>1. Top.cmd \in Commands
    BY <1>3, StackShape, FrameKinds DEF TaskPrefix, Running, TypeOK
  <2>2. CASE Child[Top.cmd] # NoCommand /\ Submit(Child[Top.cmd], Rest)
    <3>1. Child[Top.cmd] \in Commands
      BY <2>1, <2>2
    <3>2. QED
      BY <2>2, <3>1, SubmitQueue
  <2>3. QED
    BY <1>1, <1>3, <2>2 DEF TaskPrefix, laneVars
<1>4. ASSUME NEW c \in Commands, Enqueue(c) PROVE QueueLists'
  BY <1>4, SubmitQueue DEF Enqueue
<1>5. ASSUME NEW c \in Commands, CompleteTask(c, Settled) PROVE QueueLists'
  <2>1. \A l \in Lanes : \A i \in DOMAIN queue[l] : queue[l][i] \in Commands \ {c}
    BY <1>0, <1>5 DEF CompleteTask, PumpAgain, QueueLists, ListsWaiting
  <2>2. UNCHANGED queue /\ \A d \in Commands \ {c} : status'[d] = status[d]
    BY <1>5 DEF CompleteTask, PumpAgain, TypeOK
  <2>3. QED
    BY <2>1, <2>2 DEF QueueLists, ListsWaiting
<1>6. ASSUME NEW m \in Lanes, ClearCommandLane(m) PROVE QueueLists'
  <2>1. queue'[m] = <<>> /\ \A l \in Lanes \ {m} : queue'[l] = queue[l]
    BY <1>6 DEF ClearCommandLane, TypeOK
  <2>2. ListsWaiting(m)'
    BY <2>1, EmptySeq, LenProperties DEF ListsWaiting
  <2>3. ASSUME NEW l \in Lanes, l # m PROVE ListsWaiting(l)'
    <3>1. \A i \in DOMAIN queue[l] : status'[queue[l][i]] = "queued"
      BY <1>0, <1>6, <2>3 DEF ClearCommandLane, QueueLists, ListsWaiting
    <3>2. QED
      BY <2>1, <2>3, <3>1 DEF QueueLists, ListsWaiting
  <2>4. QED
    BY <2>2, <2>3 DEF QueueLists
<1>7. CASE DrainLane \/ PumpExit \/ ResetDrain \/ MarkGatewayDraining \/ ResetAllLanes
           \/ WaitForActiveTasks \/ WaitCheck \/ UNCHANGED vars
  BY <1>1, <1>7 DEF DrainLane, PumpExit, ResetDrain, MarkGatewayDraining, ResetAllLanes,
                    WaitForActiveTasks, WaitCheck, vars, laneVars
<1>8. ASSUME NEW l \in Lanes, NEW n \in 0..MaxLimit, SetCommandLaneConcurrency(l, n)
      PROVE  QueueLists'
  BY <1>1, <1>8 DEF SetCommandLaneConcurrency, SlotCount
<1>9. QED
  BY <1>2, <1>3, <1>4, <1>5, <1>6, <1>7, <1>8, CompletionCovers DEF Next, Turn

-----------------------------------------------------------------------------
(* Ids, slots and the snapshot of waitForActiveTasks.                       *)

\* A step that neither starts, ends nor disowns a task.
Quiet ==
  /\ UNCHANGED <<activeTaskIds, task, generation, nextTaskId>>
  /\ \A c \in Commands : status'[c] = "running" <=> status[c] = "running"

LEMMA SubmitQuiet ==
  ASSUME TypeOK, NEW c \in Commands, NEW calls, Submit(c, calls)
  PROVE  Quiet /\ UNCHANGED waiter
<1>1. status[c] = "new" /\ status'[c] \in {"queued", "refused"}
  BY DEF Submit, TypeOK
<1>2. \A d \in Commands \ {c} : status'[d] = status[d]
  BY DEF Submit, TypeOK
<1>3. QED
  BY <1>1, <1>2 DEF Quiet, Submit

LEMMA OtherSteps ==
  ASSUME TypeOK, QueueLists, [Next]_vars
  PROVE  \/ Quiet /\ UNCHANGED waiter
         \/ Quiet /\ (WaitForActiveTasks \/ WaitCheck)
         \/ PumpStart \/ ResetAllLanes \/ \E c \in Commands : CompleteTask(c, Settled)
<1>1. CASE TaskPrefix
  <2>1. Top.cmd \in Commands
    BY <1>1, StackShape, FrameKinds DEF TaskPrefix, Running, TypeOK
  <2>2. CASE Child[Top.cmd] # NoCommand /\ Submit(Child[Top.cmd], Rest)
    <3>1. Child[Top.cmd] \in Commands
      BY <2>1, <2>2
    <3>2. QED
      BY <2>2, <3>1, SubmitQuiet
  <2>3. QED
    BY <1>1, <2>2 DEF TaskPrefix, Quiet, laneVars
<1>2. ASSUME NEW c \in Commands, Enqueue(c) PROVE Quiet /\ UNCHANGED waiter
  BY <1>2, SubmitQuiet DEF Enqueue
<1>3. ASSUME NEW l \in Lanes, ClearCommandLane(l) PROVE Quiet /\ UNCHANGED waiter
  <2>1. \A c \in Commands : (\E i \in DOMAIN queue[l] : queue[l][i] = c)
                            => status[c] = "queued"
    BY DEF QueueLists, ListsWaiting
  <2>2. \A c \in Commands : status'[c] = "running" <=> status[c] = "running"
    BY <1>3, <2>1 DEF ClearCommandLane
  <2>3. QED
    BY <1>3, <2>2 DEF ClearCommandLane, Quiet
<1>4. ASSUME NEW l \in Lanes, NEW n \in 0..MaxLimit, SetCommandLaneConcurrency(l, n)
      PROVE  Quiet /\ UNCHANGED waiter
  BY <1>4 DEF SetCommandLaneConcurrency, SlotCount, Quiet
<1>5. CASE DrainLane \/ PumpExit \/ ResetDrain \/ MarkGatewayDraining \/ UNCHANGED vars
  BY <1>5 DEF DrainLane, PumpExit, ResetDrain, MarkGatewayDraining, vars, laneVars, Quiet
<1>6. CASE WaitForActiveTasks \/ WaitCheck
  BY <1>6 DEF WaitForActiveTasks, WaitCheck, AllEnded, laneVars, Quiet
<1>7. QED
  BY <1>1, <1>2, <1>3, <1>4, <1>5, <1>6, CompletionCovers DEF Next, Turn

\* Every active id belongs to a task in flight, so it is below nextTaskId.
LEMMA ActiveIds ==
  ASSUME TypeOK, IdsAreFresh, SlotAccounting
  PROVE  /\ \A id \in ActiveTasks : id < nextTaskId
         /\ \A l \in Lanes : \A c \in InFlight(l) : task[c].id \in ActiveTasks
<1>1. \A l \in Lanes : \A id \in activeTaskIds[l] : id < nextTaskId
  BY DEF IdsAreFresh, SlotAccounting, InFlight
<1>2. QED
  BY <1>1 DEF ActiveTasks, SlotAccounting

Slots == QueueLists /\ IdsAreFresh /\ SlotAccounting /\ DrainedIsTrue

LEMMA QuietSlots ==
  ASSUME TypeOK, Slots, Quiet,
         UNCHANGED waiter \/ WaitForActiveTasks \/ WaitCheck
  PROVE  IdsAreFresh' /\ SlotAccounting' /\ DrainedIsTrue'
<1>1. \A l \in Lanes : InFlight(l)' = InFlight(l)
  BY DEF Quiet, InFlight
<1>2. SlotAccounting'
  <2>1. \A l \in Lanes : {task[c].id : c \in InFlight(l)}' = {task[c].id : c \in InFlight(l)}
    BY <1>1 DEF Quiet
  <2>2. QED
    BY <2>1 DEF Quiet, Slots, SlotAccounting
<1>3. \A id \in waiter'.snapshot : id < nextTaskId
  <2>1. CASE WaitForActiveTasks
    BY <2>1, ActiveIds DEF Slots, WaitForActiveTasks
  <2>2. CASE waiter'.snapshot = waiter.snapshot
    BY <2>2 DEF Slots, IdsAreFresh
  <2>3. UNCHANGED waiter \/ WaitCheck => waiter'.snapshot = waiter.snapshot
    BY DEF WaitCheck, AllEnded, TypeOK
  <2>4. QED
    BY <2>1, <2>2, <2>3
<1>4. IdsAreFresh'
  BY <1>3 DEF Slots, IdsAreFresh, Quiet
<1>5. DrainedIsTrue'
  <2>1. CASE UNCHANGED waiter
    BY <1>1, <2>1 DEF Quiet, Slots, DrainedIsTrue
  <2>2. CASE WaitForActiveTasks
    BY <1>1, <2>2, ActiveIds DEF Quiet, Slots, DrainedIsTrue, WaitForActiveTasks
  <2>3. CASE WaitCheck
    <3>1. waiter'.state = "drained" => waiter.snapshot \cap ActiveTasks = {}
      BY <2>3 DEF WaitCheck, AllEnded, TypeOK
    <3>2. waiter'.snapshot = waiter.snapshot
      BY <2>3 DEF WaitCheck, AllEnded, TypeOK
    <3>3. QED
      BY <1>1, <3>1, <3>2, ActiveIds DEF Quiet, Slots, DrainedIsTrue
  <2>4. QED
    BY <2>1, <2>2, <2>3
<1>6. QED
  BY <1>2, <1>4, <1>5

LEMMA StartSlots ==
  ASSUME TypeOK, Slots, PumpStart
  PROVE  IdsAreFresh' /\ SlotAccounting' /\ DrainedIsTrue'
<1>0. PICK m \in Lanes : Top.lane = m
  BY StackShape, FrameKinds DEF PumpStart, Running, TypeOK
<1> DEFINE c == Head(queue[m])
<1>1. c \in Commands /\ LaneOf[c] = m /\ status[c] = "queued"
  BY <1>0, StartQueue DEF Slots
<1>2. /\ activeTaskIds'[m] = activeTaskIds[m] \cup {nextTaskId}
      /\ \A l \in Lanes \ {m} : activeTaskIds'[l] = activeTaskIds[l]
      /\ task'[c] = [id |-> nextTaskId, gen |-> generation[m]]
      /\ \A d \in Commands \ {c} : task'[d] = task[d] /\ status'[d] = status[d]
      /\ status'[c] = "running"
      /\ nextTaskId' = nextTaskId + 1
      /\ UNCHANGED <<generation, waiter>>
  BY <1>0, <1>1 DEF PumpStart, TypeOK
<1> HIDE DEF c
<1>3. /\ InFlight(m)' = InFlight(m) \cup {c}
      /\ \A l \in Lanes \ {m} : InFlight(l)' = InFlight(l)
      /\ \A l \in Lanes : c \notin InFlight(l)
  BY <1>1, <1>2 DEF InFlight
<1>4. nextTaskId \in Nat /\ (\A d \in Commands : task[d].id < nextTaskId /\ task[d].id \in Nat)
  BY DEF Slots, IdsAreFresh, TypeOK
<1>5. IdsAreFresh'
  <2>1. \A d \in Commands : task'[d].id < nextTaskId'
    BY <1>2, <1>4
  <2>2. \A d \in Commands : status'[d] = "running" => task'[d].id # 0
    <3>1. nextTaskId # 0
      BY <1>1, <1>4
    <3>2. QED
      BY <1>2, <3>1 DEF Slots, IdsAreFresh
  <2>3. \A d, e \in Commands : task'[d].id = task'[e].id /\ task'[d].id # 0 => d = e
    <3>1. \A d \in Commands \ {c} : task'[d].id # nextTaskId
      BY <1>2, <1>4
    <3>2. QED
      BY <1>2, <3>1 DEF Slots, IdsAreFresh
  <2>4. \A l \in Lanes : \A d \in Commands : LaneOf[d] = l => task'[d].gen <= generation'[l]
    <3>1. generation[m] \in Nat /\ task'[c].gen = generation[m]
      BY <1>2 DEF TypeOK
    <3>2. \A l \in Lanes : \A d \in Commands \ {c} : LaneOf[d] = l => task'[d].gen <= generation'[l]
      BY <1>2 DEF Slots, IdsAreFresh
    <3>3. \A l \in Lanes : LaneOf[c] = l => task'[c].gen <= generation'[l]
      BY <1>1, <1>2, <3>1
    <3>4. QED
      BY <3>2, <3>3
  <2>5. \A id \in waiter'.snapshot : id < nextTaskId'
    BY <1>2, <1>4 DEF Slots, IdsAreFresh, TypeOK
  <2>6. QED
    BY <2>1, <2>2, <2>3, <2>4, <2>5 DEF IdsAreFresh
<1>6. SlotAccounting'
  <2>1. ASSUME NEW l \in Lanes, l # m
        PROVE  activeTaskIds'[l] = {task'[d].id : d \in InFlight(l)'}
    <3>1. \A d \in InFlight(l) : task'[d] = task[d]
      BY <1>2, <1>3 DEF InFlight
    <3>2. {task'[d].id : d \in InFlight(l)'} = {task[d].id : d \in InFlight(l)}
      BY <1>3, <2>1, <3>1
    <3>3. QED
      BY <1>2, <2>1, <3>2 DEF Slots, SlotAccounting
  <2>2. activeTaskIds'[m] = {task'[d].id : d \in InFlight(m)'}
    <3>1. \A d \in InFlight(m) : task'[d] = task[d]
      BY <1>2, <1>3 DEF InFlight
    <3>2. {task'[d].id : d \in InFlight(m)'} = {task[d].id : d \in InFlight(m)} \cup {nextTaskId}
      BY <1>2, <1>3, <3>1
    <3>3. QED
      BY <1>2, <3>2 DEF Slots, SlotAccounting
  <2>3. QED
    BY <2>1, <2>2 DEF SlotAccounting
<1>7. DrainedIsTrue'
  <2>1. nextTaskId \notin waiter.snapshot
    BY <1>4 DEF Slots, IdsAreFresh
  <2>2. \A l \in Lanes : \A d \in InFlight(l) : task'[d] = task[d]
    BY <1>2, <1>3 DEF InFlight
  <2>3. QED
    BY <1>2, <1>3, <2>1, <2>2 DEF Slots, DrainedIsTrue
<1>8. QED
  BY <1>5, <1>6, <1>7

LEMMA CompletionSlots ==
  ASSUME TypeOK, Slots, NEW c \in Commands, CompleteTask(c, Settled)
  PROVE  IdsAreFresh' /\ SlotAccounting' /\ DrainedIsTrue'
<1> DEFINE m == LaneOf[c]
<1>1. m \in Lanes /\ status[c] = "running"
  BY DEF CompleteTask, PumpAgain
<1>2. /\ UNCHANGED <<task, generation, nextTaskId, waiter>>
      /\ status'[c] # "running"
      /\ \A d \in Commands \ {c} : status'[d] = status[d]
  BY DEF CompleteTask, PumpAgain, Settled, TypeOK
<1>3. /\ InFlight(m)' = InFlight(m) \ {c}
      /\ \A l \in Lanes \ {m} : InFlight(l)' = InFlight(l)
  BY <1>1, <1>2 DEF InFlight
<1>4. IdsAreFresh'
  BY <1>1, <1>2 DEF Slots, IdsAreFresh
<1>5. DrainedIsTrue'
  BY <1>1, <1>2, <1>3 DEF Slots, DrainedIsTrue
<1>6. SlotAccounting'
  <2>1. ASSUME NEW l \in Lanes, l # m
        PROVE  activeTaskIds'[l] = {task'[d].id : d \in InFlight(l)'}
    <3>1. activeTaskIds'[l] = activeTaskIds[l]
      BY <1>1, <2>1 DEF CompleteTask, PumpAgain, TypeOK
    <3>2. InFlight(l)' = InFlight(l)
      BY <1>3, <2>1
    <3>3. QED
      BY <1>2, <3>1, <3>2 DEF Slots, SlotAccounting
  <2>2. CASE task[c].gen = generation[m]
    <3>1. activeTaskIds'[m] = activeTaskIds[m] \ {task[c].id}
      BY <1>1, <2>2 DEF CompleteTask, PumpAgain, TypeOK
    <3>2. \A d \in InFlight(m) \ {c} : task[d].id # task[c].id
      BY <1>1 DEF Slots, IdsAreFresh, InFlight
    <3>3. {task[d].id : d \in InFlight(m) \ {c}} = {task[d].id : d \in InFlight(m)} \ {task[c].id}
      BY <3>2
    <3>4. activeTaskIds[m] = {task[d].id : d \in InFlight(m)}
      BY <1>1 DEF Slots, SlotAccounting
    <3>5. activeTaskIds'[m] = {task[d].id : d \in InFlight(m)'}
      BY <1>3, <3>1, <3>3, <3>4
    <3>6. activeTaskIds'[m] = {task'[d].id : d \in InFlight(m)'}
      BY <1>2, <3>5
    <3>7. QED
      BY <2>1, <3>6 DEF SlotAccounting
  <2>3. CASE task[c].gen # generation[m]
    <3>1. c \notin InFlight(m)
      BY <2>3 DEF InFlight
    <3>2. UNCHANGED activeTaskIds
      BY <2>3 DEF CompleteTask, PumpAgain
    <3>3. QED
      BY <1>1, <1>2, <1>3, <2>1, <3>1, <3>2 DEF Slots, SlotAccounting
  <2>4. QED
    BY <2>2, <2>3
<1>7. QED
  BY <1>4, <1>5, <1>6

LEMMA ResetSlots ==
  ASSUME TypeOK, Slots, ResetAllLanes
  PROVE  IdsAreFresh' /\ SlotAccounting' /\ DrainedIsTrue'
         /\ \A l \in Lanes : InFlight(l)' = {}
<1>1. /\ UNCHANGED <<task, status, nextTaskId, waiter>>
      /\ \A l \in Lanes : generation'[l] = generation[l] + 1 /\ activeTaskIds'[l] = {}
  BY DEF ResetAllLanes
<1>2. \A l \in Lanes : \A c \in Commands : LaneOf[c] = l => task[c].gen < generation'[l]
  BY <1>1 DEF Slots, IdsAreFresh, TypeOK
<1>3. \A l \in Lanes : InFlight(l)' = {}
  BY <1>1, <1>2 DEF InFlight, TypeOK
<1>4. IdsAreFresh'
  BY <1>1, <1>2 DEF Slots, IdsAreFresh, TypeOK
<1>5. SlotAccounting' /\ DrainedIsTrue'
  BY <1>1, <1>3 DEF SlotAccounting, DrainedIsTrue
<1>6. QED
  BY <1>3, <1>4, <1>5

LEMMA StepSlots == TypeOK /\ Slots /\ [Next]_vars => Slots'
<1> SUFFICES ASSUME TypeOK, Slots, [Next]_vars PROVE Slots'
  OBVIOUS
<1>1. QueueLists'
  BY StepQueue DEF Slots
<1>2. IdsAreFresh' /\ SlotAccounting' /\ DrainedIsTrue'
  BY OtherSteps, QuietSlots, StartSlots, CompletionSlots, ResetSlots DEF Slots
<1>3. QED
  BY <1>1, <1>2 DEF Slots

LEMMA InitSlots == Init => Slots
<1> SUFFICES ASSUME Init PROVE Slots
  OBVIOUS
<1>1. QueueLists
  BY EmptySeq, LenProperties DEF Init, QueueLists, ListsWaiting
<1>2. IdsAreFresh
  BY DEF Init, IdsAreFresh
<1>3. SlotAccounting
  BY DEF Init, SlotAccounting, InFlight
<1>4. DrainedIsTrue
  BY DEF Init, DrainedIsTrue
<1>5. QED
  BY <1>1, <1>2, <1>3, <1>4 DEF Slots

-----------------------------------------------------------------------------
(* No lost wake-up.                                                         *)

On(s, f) == \E i \in DOMAIN s : s[i] = f

\* The calls in s will still look at lane l.
Reached(s, l) ==
  \/ On(s, DrainFrame(l)) \/ On(s, PumpFrame(l))
  \/ \E S \in SUBSET Lanes : l \in S /\ On(s, ResetFrame(S))

AheadOn(s) ==
  \A l \in Lanes : /\ draining[l] => On(s, PumpFrame(l))
                   /\ CanStart(l) => Reached(s, l)

LEMMA AheadOnStack == WakeupAhead <=> AheadOn(stack)
  BY DEF WakeupAhead, AheadOn, Reached, OnStack, On

LEMMA PushOn ==
  ASSUME NEW s \in Seq(Frame), NEW f \in Frame
  PROVE  \A g : On(Append(s, f), g) <=> On(s, g) \/ g = f
<1>1. /\ DOMAIN s = 1..Len(s) /\ Len(s) \in Nat
      /\ DOMAIN Append(s, f) = 1..(Len(s) + 1)
      /\ \A i \in 1..Len(s) : Append(s, f)[i] = s[i]
      /\ Append(s, f)[Len(s) + 1] = f
  BY LenProperties, AppendProperties
<1>2. \A n \in Nat : /\ \A i \in 1..(n + 1) : i \in 1..n \/ i = n + 1
                    /\ 1..n \subseteq 1..(n + 1) /\ n + 1 \in 1..(n + 1)
  OBVIOUS
<1>3. /\ \A i \in 1..(Len(s) + 1) : i \in 1..Len(s) \/ i = Len(s) + 1
      /\ 1..Len(s) \subseteq 1..(Len(s) + 1) /\ Len(s) + 1 \in 1..(Len(s) + 1)
  BY <1>1, <1>2
<1>4. QED
  BY <1>1, <1>2, <1>3 DEF On

LEMMA PopOn ==
  ASSUME stack \in Seq(Frame), stack # <<>>
  PROVE  \A g : On(stack, g) => On(Rest, g) \/ g = Top
<1>1. /\ DOMAIN stack = 1..Len(stack) /\ Len(stack) \in Nat \ {0}
      /\ DOMAIN Rest = 1..(Len(stack) - 1)
      /\ \A i \in 1..(Len(stack) - 1) : Rest[i] = stack[i]
  BY StackShape, LenProperties
<1>2. \A n \in Nat \ {0} : \A i \in 1..n : i \in 1..(n - 1) \/ i = n
  OBVIOUS
<1>3. QED
  BY <1>1, <1>2 DEF On, Top

\* Frames of different calls differ.
LEMMA FramesDiffer ==
  /\ \A l, m : DrainFrame(l) # PumpFrame(m)
  /\ \A l, c : DrainFrame(l) # TaskFrame(c) /\ PumpFrame(l) # TaskFrame(c)
  /\ \A l, S : DrainFrame(l) # ResetFrame(S) /\ PumpFrame(l) # ResetFrame(S)
  /\ \A S, c : ResetFrame(S) # TaskFrame(c)
  /\ \A l, m : PumpFrame(l) = PumpFrame(m) => l = m
  /\ \A l, m : DrainFrame(l) = DrainFrame(m) => l = m
  /\ \A S, T : ResetFrame(S) = ResetFrame(T) => S = T
  BY DEF DrainFrame, PumpFrame, TaskFrame, ResetFrame

\* Nothing is reached from an empty stack.
LEMMA EmptyReaches == \A f : ~On(<<>>, f)
  BY EmptySeq, LenProperties DEF On

LEMMA SubmitAhead ==
  ASSUME TypeOK, NEW c \in Commands, NEW calls \in Seq(Frame), AheadOn(calls),
         Submit(c, calls)
  PROVE  WakeupAhead'
<1> DEFINE m == LaneOf[c]
<1>1. m \in Lanes /\ DrainFrame(m) \in Frame
  BY FramesAreFrames
<1>2. UNCHANGED <<draining, activeTaskIds, maxConcurrent>>
  BY DEF Submit
<1>3. CASE gatewayDraining
  <2>1. stack' = calls /\ UNCHANGED queue
    BY <1>3 DEF Submit
  <2>2. \A l \in Lanes : CanStart(l)' = CanStart(l)
    BY <1>2, <2>1 DEF CanStart, HasRoom
  <2>3. AheadOn(stack)'
    BY <1>2, <2>1, <2>2 DEF AheadOn, Reached
  <2>4. QED
    BY <2>3, AheadOnStack DEF WakeupAhead, AheadOn, Reached, OnStack, On
<1>4. CASE ~gatewayDraining
  <2>1. /\ stack' = Append(calls, DrainFrame(m))
        /\ \A l \in Lanes \ {m} : queue'[l] = queue[l]
    BY <1>1, <1>4 DEF Submit, TypeOK
  <2>2. \A l \in Lanes \ {m} : CanStart(l)' = CanStart(l)
    BY <1>2, <2>1 DEF CanStart, HasRoom
  <2>3. \A g : On(calls, g) => On(stack', g)
    BY <1>1, <2>1, PushOn
  <2>4. On(stack', DrainFrame(m))
    BY <1>1, <2>1, PushOn
  <2>5. \A l \in Lanes : Reached(calls, l) => Reached(stack', l)
    BY <2>3 DEF Reached
  <2>6. Reached(stack', m)
    BY <2>4 DEF Reached
  <2>7. \A l \in Lanes : /\ draining'[l] => On(stack', PumpFrame(l))
                         /\ CanStart(l)' => Reached(stack', l)
    BY <1>2, <2>2, <2>3, <2>5, <2>6 DEF AheadOn
  <2>8. QED
    BY <2>7 DEF WakeupAhead, Reached, OnStack, On
<1>5. QED
  BY <1>3, <1>4

LEMMA TurnAhead ==
  ASSUME TypeOK, WakeupAhead, Turn
  PROVE  WakeupAhead'
<1>0. stack \in Seq(Frame) /\ stack # <<>>
  BY DEF TypeOK, Turn, DrainLane, PumpStart, PumpExit, TaskPrefix, ResetDrain, Running
<1>1. Top \in Frame /\ Rest \in Seq(Frame)
  BY <1>0, StackShape
<1>2. AheadOn(stack)
  BY AheadOnStack
<1>3. CASE DrainLane
  <2>1. PICK m \in Lanes : Top = DrainFrame(m) /\ Top.lane = m
    BY <1>1, <1>3, FrameKinds DEF DrainLane, Running
  <2>2. \A l \in Lanes : CanStart(l)' = CanStart(l)
    BY <1>3 DEF DrainLane, CanStart, HasRoom
  <2>3. \A g : On(stack, g) => On(Rest, g) \/ g = DrainFrame(m)
    BY <1>0, <2>1, PopOn
  <2>4. /\ \A l \in Lanes : On(stack, PumpFrame(l)) => On(Rest, PumpFrame(l))
        /\ \A l \in Lanes \ {m} : Reached(stack, l) => Reached(Rest, l)
    BY <2>3, FramesDiffer DEF Reached
  <2>5. CASE draining[m]
    <3>1. stack' = Rest /\ UNCHANGED draining
      BY <1>3, <2>1, <2>5 DEF DrainLane
    <3>2. Reached(Rest, m)
      BY <1>2, <2>4, <2>5 DEF AheadOn, Reached
    <3>3. \A l \in Lanes : /\ draining'[l] => On(stack', PumpFrame(l))
                           /\ CanStart(l)' => Reached(stack', l)
      BY <1>2, <2>2, <2>4, <3>1, <3>2 DEF AheadOn
    <3>4. QED
      BY <3>3 DEF WakeupAhead, Reached, OnStack, On
  <2>6. CASE ~draining[m]
    <3>1. /\ stack' = Append(Rest, PumpFrame(m))
          /\ \A l \in Lanes \ {m} : draining'[l] = draining[l]
      BY <1>3, <2>1, <2>6 DEF DrainLane, TypeOK
    <3>2. \A g : On(stack', g) <=> On(Rest, g) \/ g = PumpFrame(m)
      BY <1>1, <3>1, PushOn, FramesAreFrames
    <3>3. /\ On(stack', PumpFrame(m)) /\ Reached(stack', m)
          /\ \A l \in Lanes : Reached(Rest, l) => Reached(stack', l)
      BY <3>2 DEF Reached
    <3>4. \A l \in Lanes : /\ draining'[l] => On(stack', PumpFrame(l))
                           /\ CanStart(l)' => Reached(stack', l)
      BY <1>2, <2>2, <2>4, <3>1, <3>2, <3>3 DEF AheadOn
    <3>5. QED
      BY <3>4 DEF WakeupAhead, Reached, OnStack, On
  <2>7. QED
    BY <2>5, <2>6
<1>4. CASE PumpStart
  <2>1. PICK m \in Lanes : Top = PumpFrame(m) /\ Top.lane = m
    BY <1>1, <1>4, FrameKinds DEF PumpStart, Running
  <2> DEFINE c == Head(queue[m])
  <2>2. c \in Commands
    BY <1>4, <2>1 DEF PumpStart, CanStart, TypeOK
  <2>3. /\ stack' = Append(stack, TaskFrame(c))
        /\ UNCHANGED <<draining, maxConcurrent>>
        /\ \A l \in Lanes \ {m} : queue'[l] = queue[l] /\ activeTaskIds'[l] = activeTaskIds[l]
    BY <1>4, <2>1 DEF PumpStart, TypeOK
  <2>4. \A g : On(stack, g) => On(stack', g)
    BY <1>0, <2>2, <2>3, PushOn, FramesAreFrames
  <2>5. On(stack, PumpFrame(m))
    <3>1. Len(stack) \in DOMAIN stack
      BY <1>0, StackShape, LenProperties
    <3>2. QED
      BY <2>1, <3>1 DEF On, Top
  <2>6. Reached(stack', m) /\ \A l \in Lanes : Reached(stack, l) => Reached(stack', l)
    BY <2>4, <2>5 DEF Reached
  <2>7. \A l \in Lanes \ {m} : CanStart(l)' = CanStart(l)
    BY <2>3 DEF CanStart, HasRoom
  <2>8. \A l \in Lanes : /\ draining'[l] => On(stack', PumpFrame(l))
                         /\ CanStart(l)' => Reached(stack', l)
    BY <1>2, <2>3, <2>4, <2>6, <2>7 DEF AheadOn
  <2>9. QED
    BY <2>8 DEF WakeupAhead, Reached, OnStack, On
<1>5. CASE PumpExit
  <2>1. PICK m \in Lanes : Top = PumpFrame(m) /\ Top.lane = m
    BY <1>1, <1>5, FrameKinds DEF PumpExit, Running
  <2>2. /\ stack' = Rest /\ ~CanStart(m)
        /\ ~draining'[m] /\ \A l \in Lanes \ {m} : draining'[l] = draining[l]
        /\ \A l \in Lanes : CanStart(l)' = CanStart(l)
    BY <1>5, <2>1 DEF PumpExit, CanStart, HasRoom, TypeOK
  <2>3. \A g : On(stack, g) => On(Rest, g) \/ g = PumpFrame(m)
    BY <1>0, <2>1, PopOn
  <2>4. \A l \in Lanes \ {m} : /\ On(stack, PumpFrame(l)) => On(Rest, PumpFrame(l))
                               /\ Reached(stack, l) => Reached(Rest, l)
    BY <2>3, FramesDiffer DEF Reached
  <2>5. \A l \in Lanes : /\ draining'[l] => On(stack', PumpFrame(l))
                         /\ CanStart(l)' => Reached(stack', l)
    BY <1>2, <2>2, <2>4 DEF AheadOn
  <2>6. QED
    BY <2>5 DEF WakeupAhead, Reached, OnStack, On
<1>6. CASE TaskPrefix
  <2>1. PICK c \in Commands : Top = TaskFrame(c) /\ Top.cmd = c
    BY <1>1, <1>6, FrameKinds DEF TaskPrefix, Running
  <2>2. \A g : On(stack, g) => On(Rest, g) \/ g = TaskFrame(c)
    BY <1>0, <2>1, PopOn
  <2>3. AheadOn(Rest)
    BY <1>2, <2>2, FramesDiffer DEF AheadOn, Reached
  <2>4. CASE Child[c] # NoCommand /\ Submit(Child[c], Rest)
    BY <1>1, <2>3, <2>4, SubmitAhead
  <2>5. CASE stack' = Rest /\ UNCHANGED laneVars
    <3>1. \A l \in Lanes : /\ draining'[l] => On(stack', PumpFrame(l))
                           /\ CanStart(l)' => Reached(stack', l)
      BY <2>3, <2>5 DEF AheadOn, CanStart, HasRoom, laneVars
    <3>2. QED
      BY <3>1 DEF WakeupAhead, Reached, OnStack, On
  <2>6. QED
    BY <1>6, <2>1, <2>4, <2>5 DEF TaskPrefix
<1>7. CASE ResetDrain
  <2>1. PICK S \in SUBSET Lanes : Top = ResetFrame(S) /\ Top.todo = S
    BY <1>1, <1>7, FrameKinds DEF ResetDrain, Running
  <2>2. UNCHANGED draining /\ \A l \in Lanes : CanStart(l)' = CanStart(l)
    BY <1>7 DEF ResetDrain, laneVars, CanStart, HasRoom
  <2>3. \A g : On(stack, g) => On(Rest, g) \/ g = ResetFrame(S)
    BY <1>0, <2>1, PopOn
  <2>4. /\ \A l \in Lanes : On(stack, PumpFrame(l)) => On(Rest, PumpFrame(l))
        /\ \A l \in Lanes : Reached(stack, l) => Reached(Rest, l) \/ l \in S
    BY <2>3, FramesDiffer DEF Reached
  <2>5. CASE S = {}
    <3>1. stack' = Rest
      BY <1>7, <2>1, <2>5 DEF ResetDrain
    <3>2. \A l \in Lanes : /\ draining'[l] => On(stack', PumpFrame(l))
                           /\ CanStart(l)' => Reached(stack', l)
      BY <1>2, <2>2, <2>4, <2>5, <3>1 DEF AheadOn
    <3>3. QED
      BY <3>2 DEF WakeupAhead, Reached, OnStack, On
  <2>6. CASE S # {}
    <3>1. PICK m \in S : stack' = Append(Append(Rest, ResetFrame(S \ {m})), DrainFrame(m))
      BY <1>7, <2>1, <2>6 DEF ResetDrain
    <3>2. ResetFrame(S \ {m}) \in Frame /\ DrainFrame(m) \in Frame
      BY <2>1, FramesAreFrames
    <3>3. Append(Rest, ResetFrame(S \ {m})) \in Seq(Frame)
      BY <1>1, <3>2
    <3>4. \A g : On(stack', g) <=> On(Rest, g) \/ g = ResetFrame(S \ {m}) \/ g = DrainFrame(m)
      BY <1>1, <3>1, <3>2, <3>3, PushOn
    <3>5. /\ \A l \in Lanes : Reached(Rest, l) => Reached(stack', l)
          /\ \A l \in S \ {m} : Reached(stack', l)
          /\ Reached(stack', m)
      BY <2>1, <3>4 DEF Reached
    <3>6. \A l \in Lanes : /\ draining'[l] => On(stack', PumpFrame(l))
                           /\ CanStart(l)' => Reached(stack', l)
      BY <1>2, <2>2, <2>4, <3>4, <3>5 DEF AheadOn
    <3>7. QED
      BY <3>6 DEF WakeupAhead, Reached, OnStack, On
  <2>7. QED
    BY <2>5, <2>6
<1>8. QED
  BY <1>3, <1>4, <1>5, <1>6, <1>7 DEF Turn

\* Between turns a lane is looked at by one call or by none.
LEMMA SingleCall ==
  ASSUME NEW f
  PROVE  On(<<f>>, f)
<1>1. 1 \in DOMAIN <<f>> /\ <<f>>[1] = f
  OBVIOUS
<1>2. QED
  BY <1>1 DEF On

LEMMA StepAhead == TypeOK /\ Slots /\ WakeupAhead /\ [Next]_vars => WakeupAhead'
<1> SUFFICES ASSUME TypeOK, Slots, WakeupAhead, [Next]_vars PROVE WakeupAhead'
  OBVIOUS
<1>0. /\ AheadOn(stack)
      /\ NewTurn => \A l \in Lanes : ~draining[l] /\ ~CanStart(l)
  BY AheadOnStack, EmptyReaches DEF NewTurn, AheadOn, Reached
<1>1. CASE Turn
  BY <1>1, TurnAhead
<1>2. CASE NewTurn /\ UNCHANGED <<draining, stack>> /\ \A l \in Lanes : CanStart(l)' => CanStart(l)
  BY <1>0, <1>2 DEF WakeupAhead
<1>3. CASE NewTurn /\ UNCHANGED draining
           /\ \E m \in Lanes : /\ stack' \in {<<DrainFrame(m)>>, <<PumpFrame(m)>>}
                               /\ \A l \in Lanes \ {m} : CanStart(l)' => CanStart(l)
  <2>1. PICK m \in Lanes : /\ stack' \in {<<DrainFrame(m)>>, <<PumpFrame(m)>>}
                           /\ \A l \in Lanes \ {m} : CanStart(l)' => CanStart(l)
    BY <1>3
  <2>2. Reached(stack', m)
    BY <2>1, SingleCall DEF Reached
  <2>3. \A l \in Lanes : /\ draining'[l] => On(stack', PumpFrame(l))
                         /\ CanStart(l)' => Reached(stack', l)
    BY <1>0, <1>3, <2>1, <2>2
  <2>4. QED
    BY <2>3 DEF WakeupAhead, Reached, OnStack, On
<1>4. ASSUME NEW c \in Commands, Enqueue(c) PROVE WakeupAhead'
  <2>1. AheadOn(<<>>) /\ <<>> \in Seq(Frame)
    BY <1>0, <1>4, EmptySeq DEF Enqueue, NewTurn
  <2>2. QED
    BY <1>4, <2>1, SubmitAhead DEF Enqueue
<1>5. ASSUME NEW c \in Commands, CompleteTask(c, Settled) PROVE WakeupAhead'
  <2>1. LaneOf[c] \in Lanes
    OBVIOUS
  <2>2. CASE task[c].gen = generation[LaneOf[c]]
    <3>1. stack' = <<PumpFrame(LaneOf[c])>> /\ NewTurn /\ UNCHANGED draining
      BY <1>5, <2>2 DEF CompleteTask, PumpAgain
    <3>2. \A l \in Lanes \ {LaneOf[c]} : CanStart(l)' => CanStart(l)
      BY <1>5, <2>1, <2>2 DEF CompleteTask, PumpAgain, CanStart, HasRoom, TypeOK
    <3>3. QED
      BY <1>3, <2>1, <3>1, <3>2
  <2>3. CASE task[c].gen # generation[LaneOf[c]]
    BY <1>2, <1>5, <2>3 DEF CompleteTask, PumpAgain, CanStart, HasRoom
  <2>4. QED
    BY <2>2, <2>3
<1>6. ASSUME NEW m \in Lanes, ClearCommandLane(m) PROVE WakeupAhead'
  <2>1. \A l \in Lanes : CanStart(l)' => CanStart(l)
    BY <1>6 DEF ClearCommandLane, CanStart, HasRoom, TypeOK
  <2>2. QED
    BY <1>2, <1>6, <2>1 DEF ClearCommandLane
<1>7. ASSUME NEW m \in Lanes, NEW n \in 0..MaxLimit, SetCommandLaneConcurrency(m, n)
      PROVE  WakeupAhead'
  <2>1. \A l \in Lanes \ {m} : CanStart(l)' => CanStart(l)
    BY <1>7 DEF SetCommandLaneConcurrency, SlotCount, CanStart, HasRoom, TypeOK
  <2>2. QED
    BY <1>3, <1>7, <2>1 DEF SetCommandLaneConcurrency, SlotCount
<1>8. CASE MarkGatewayDraining \/ WaitForActiveTasks \/ WaitCheck
  BY <1>2, <1>8 DEF MarkGatewayDraining, WaitForActiveTasks, WaitCheck, AllEnded, laneVars,
                    CanStart, HasRoom
<1>9. CASE ResetAllLanes
  <2> DEFINE S == {l \in Lanes : queue[l] # <<>>}
  <2>1. stack' = <<ResetFrame(S)>> /\ UNCHANGED queue /\ \A l \in Lanes : ~draining'[l]
    BY <1>9 DEF ResetAllLanes
  <2>2. On(stack', ResetFrame(S)) /\ S \in SUBSET Lanes
    BY <2>1, SingleCall
  <2>3. \A l \in S : Reached(stack', l)
    BY <2>2 DEF Reached
  <2>4. \A l \in Lanes : CanStart(l)' => l \in S
    BY <2>1 DEF CanStart
  <2>5. \A l \in Lanes : /\ draining'[l] => On(stack', PumpFrame(l))
                         /\ CanStart(l)' => Reached(stack', l)
    BY <2>1, <2>3, <2>4
  <2>6. QED
    BY <2>5 DEF WakeupAhead, Reached, OnStack, On
<1>10. CASE UNCHANGED vars
  <2>1. \A l \in Lanes : CanStart(l)' = CanStart(l)
    BY <1>10 DEF vars, laneVars, CanStart, HasRoom
  <2>2. QED
    BY <1>10, <2>1 DEF WakeupAhead, OnStack, vars, laneVars
<1>11. QED
  BY <1>1, <1>4, <1>5, <1>6, <1>7, <1>8, <1>9, <1>10, CompletionCovers DEF Next

\* The inductive invariant: everything the theorems below rest on.
THEOREM Invariance == Spec => [](TypeOK /\ Inductive)
<1>1. Init => TypeOK /\ Slots /\ WakeupAhead
  <2>1. Init => WakeupAhead
    BY EmptySeq DEF Init, WakeupAhead, CanStart
  <2>2. QED
    BY <2>1, InitType, InitSlots
<1>2. TypeOK /\ Slots /\ WakeupAhead /\ [Next]_vars => (TypeOK /\ Slots /\ WakeupAhead)'
  BY StepType, StepSlots, StepAhead
<1>3. TypeOK /\ Slots /\ WakeupAhead => TypeOK /\ Inductive
  BY DEF Slots, Inductive
<1>4. QED
  BY <1>1, <1>2, <1>3, PTL DEF Spec

\* No lost wake-up: between turns every lane is empty or full and no drain
\* flag is up.
THEOREM NoLostWakeup == Spec => []Quiescent
<1>1. TypeOK /\ Inductive => Quiescent
  BY EmptySeq, LenProperties DEF Inductive, WakeupAhead, Quiescent, NewTurn, OnStack
<1>2. QED
  BY <1>1, Invariance, PTL

\* The slots taken in a lane are those of its tasks in flight: completions,
\* late completions and restarts never leak a slot or free another's.
THEOREM SlotsAreAccounted == Spec => []SlotAccounting
<1>1. TypeOK /\ Inductive => SlotAccounting
  BY DEF Inductive
<1>2. QED
  BY <1>1, Invariance, PTL

\* When waitForActiveTasks answers `drained', no task it found active is
\* still in flight.
THEOREM DrainIsSound == Spec => []DrainedIsTrue
<1>1. TypeOK /\ Inductive => DrainedIsTrue
  BY DEF Inductive
<1>2. QED
  BY <1>1, Invariance, PTL
=============================================================================
