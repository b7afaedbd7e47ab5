------------------------- MODULE EmbeddedRunsProofs -------------------------
(* Theorems about the nesting of agent runs, for every set of runs, every   *)
(* sharing of sessions and every choice of lanes.  They rest on the command *)
(* queue's own invariant, which holds for the runs because each of their    *)
(* steps is one of the queue's.                                             *)
EXTENDS EmbeddedRuns, CommandQueueRefinement

USE LaneAssumption, ChildAssumption, BoundAssumption

-----------------------------------------------------------------------------
(* Who is nested in whom, and in which lanes.                               *)

LEMMA LaneFacts ==
  /\ ConfiguredLanes \subseteq Lanes
  /\ \A r \in Runs : SessionLane(r) \in Lanes /\ SessionLane(r) \notin ConfiguredLanes
  BY NestingAssumption
  DEF ConfiguredLanes, RunLanes, SessionLane, ResolveSessionLane, SharedLane

\* A command is a cron task, a session task or a body.
LEMMA CommandKinds ==
  /\ \A c \in Commands : \/ \E r \in ViaCron : c = CronTask(r)
                         \/ \E r \in Runs : c = SessionTask(r)
                         \/ \E r \in Runs : c = Body(r)
  /\ \A r \in Runs : SessionTask(r) \in Commands /\ Body(r) \in Commands
  /\ \A r \in ViaCron : r \in Runs /\ CronTask(r) \in Commands
  BY NestingAssumption DEF RunCommands, ViaCron

LEMMA TasksDiffer ==
  /\ \A r, s : /\ SessionTask(r) # Body(s) /\ SessionTask(r) # CronTask(s)
               /\ Body(r) # CronTask(s)
  /\ \A r, s : SessionTask(r) = SessionTask(s) => r = s
  /\ \A r, s : Body(r) = Body(s) => r = s
  /\ \A r, s : CronTask(r) = CronTask(s) => r = s
  BY DEF SessionTask, Body, CronTask

LEMMA NestedTasks ==
  /\ \A r \in Runs : /\ LaneOf[SessionTask(r)] = SessionLane(r)
                     /\ Child[SessionTask(r)] = Body(r)
                     /\ LaneOf[Body(r)] = BodyLane(r)
                     /\ Child[Body(r)] = NoCommand
  /\ \A r \in ViaCron : /\ LaneOf[CronTask(r)] = SharedLane("cron")
                        /\ Child[CronTask(r)] = SessionTask(r)
<1>1. \A r \in Runs : SessionTask(r) \in RunCommands /\ Body(r) \in RunCommands
  BY DEF RunCommands
<1>2. \A r \in ViaCron : CronTask(r) \in RunCommands
  BY DEF RunCommands
<1>3. \A r \in Runs : /\ RunLaneOf[SessionTask(r)] = SessionLane(r)
                      /\ RunChild[SessionTask(r)] = Body(r)
  BY <1>1 DEF RunLaneOf, RunChild, SessionTask
<1>4. \A r \in Runs : RunLaneOf[Body(r)] = BodyLane(r) /\ RunChild[Body(r)] = NoRun
  BY <1>1 DEF RunLaneOf, RunChild, Body
<1>5. \A r \in ViaCron : /\ RunLaneOf[CronTask(r)] = SharedLane("cron")
                         /\ RunChild[CronTask(r)] = SessionTask(r)
  BY <1>2 DEF RunLaneOf, RunChild, CronTask
<1>6. QED
  BY <1>3, <1>4, <1>5, NestingAssumption

\* Only bodies wait in the lanes of bodies, only session tasks in the lanes
\* of sessions.
LEMMA LanesAreOfOneKind ==
  /\ \A r \in Runs : \A c \in Commands :
       LaneOf[c] = BodyLane(r) => \E s \in Runs : c = Body(s)
  /\ \A r \in Runs : \A c \in Commands :
       LaneOf[c] = SessionLane(r) => \E s \in Runs : c = SessionTask(s)
<1>1. \A r, s : /\ BodyLane(r) # SharedLane("cron") /\ BodyLane(r) # SessionLane(s)
                /\ SessionLane(r) # SharedLane("cron")
  BY DEF BodyLane, SharedLane, SessionLane, ResolveSessionLane, ResolveGlobalLane,
         ResolveNestedAgentLane
<1>2. QED
  BY <1>1, CommandKinds, NestedTasks

LEMMA Parents ==
  /\ \A p, q \in Commands : Child[p] = Child[q] /\ Child[p] # NoCommand => p = q
  /\ \A p \in Commands : Child[p] # p
  /\ \A p \in SyncParents : p \in Commands /\ Child[p] \in Commands
  /\ \A r \in Runs : SessionTask(r) \in SyncParents
  /\ \A r \in ViaCron : CronTask(r) \notin SyncParents
  BY CommandKinds, TasksDiffer, NestedTasks, NestingAssumption DEF SessionTasks

-----------------------------------------------------------------------------
(* The runs take steps of the command queue.                                *)

LEMMA RunsStepTheQueue == RunsNext => Next
<1> SUFFICES ASSUME RunsNext PROVE Next
  OBVIOUS
<1>1. ASSUME NEW r \in Runs, ClearSessionQueue(r) PROVE Next
  BY <1>1, LaneFacts DEF ClearSessionQueue, Next
<1>2. CASE ApplyGatewayLaneConcurrency
  <2>1. PICK l \in ConfiguredLanes, n \in 1..MaxLimit : SetCommandLaneConcurrency(l, n)
    BY <1>2 DEF ApplyGatewayLaneConcurrency
  <2>2. l \in Lanes /\ n \in 0..MaxLimit
    BY LaneFacts
  <2>3. QED
    BY <2>1, <2>2 DEF Next
<1>3. QED
  BY <1>1, <1>2 DEF RunsNext, Next

\* What the command queue promises, it promises the runs.
THEOREM RunsUseTheQueue == RunsSpec => Spec
<1>1. [RunsNext]_vars => [Next]_vars
  BY RunsStepTheQueue
<1>2. QED
  BY <1>1, PTL DEF RunsSpec, Spec

LEMMA InitNesting == Init => Nesting
<1> SUFFICES ASSUME Init PROVE Nesting
  OBVIOUS
<1>1. SessionsAreNarrow
  BY LaneFacts DEF Init, SessionsAreNarrow, InFlight
<1>2. WaitsInLine /\ OuterOutlivesInner /\ OuterCameFirst
  BY DEF Init, WaitsInLine, OuterOutlivesInner, OuterCameFirst
<1>3. PrefixesRun
  <2>1. \A f : ~OnStack(f)
    BY EmptyReaches DEF Init, OnStack, On
  <2>2. QED
    BY <2>1 DEF Init, PrefixesRun
<1>4. SameGeneration
  BY DEF Init, SameGeneration
<1>5. QED
  BY <1>1, <1>2, <1>3, <1>4 DEF Nesting

-----------------------------------------------------------------------------
(* Each part of Nesting is kept by every step.                              *)

LEMMA StepNarrow ==
  ASSUME TypeOK, Inductive, SessionsAreNarrow, [RunsNext]_vars
  PROVE  SessionsAreNarrow'
<1> SUFFICES ASSUME NEW r \in Runs
             PROVE  /\ maxConcurrent'[SessionLane(r)] = 1
                    /\ \A c, d \in InFlight(SessionLane(r))' : c = d
  BY DEF SessionsAreNarrow
<1> DEFINE l == SessionLane(r)
<1>1. /\ l \in Lanes /\ l \notin ConfiguredLanes /\ maxConcurrent[l] = 1
      /\ \A c, d \in InFlight(l) : c = d
  BY LaneFacts DEF SessionsAreNarrow
<1> HIDE DEF l
<1>2. [Next]_vars
  BY RunsStepTheQueue
<1>3. maxConcurrent'[l] = 1
  <2>1. CASE ApplyGatewayLaneConcurrency
    <3>1. PICK m \in ConfiguredLanes, n \in 1..MaxLimit : SetCommandLaneConcurrency(m, n)
      BY <2>1 DEF ApplyGatewayLaneConcurrency
    <3>2. QED
      BY <1>1, <3>1 DEF SetCommandLaneConcurrency, SlotCount, TypeOK
  <2>2. CASE UNCHANGED maxConcurrent
    BY <1>1, <2>2
  <2>3. Turn => UNCHANGED maxConcurrent
    BY DEF Turn, DrainLane, PumpStart, PumpExit, TaskPrefix, ResetDrain, Submit, laneVars
  <2>4. ~Turn /\ ~ApplyGatewayLaneConcurrency => UNCHANGED maxConcurrent
    BY CompletionCovers DEF RunsNext, Enqueue, Submit, CompleteTask, PumpAgain, ClearSessionQueue, ClearCommandLane,
           MarkGatewayDraining, ResetAllLanes, vars, laneVars
  <2>5. QED
    BY <2>1, <2>2, <2>3, <2>4
<1>4. \A c, d \in InFlight(l)' : c = d
  <2>1. CASE Quiet
    BY <1>1, <2>1 DEF Quiet, InFlight
  <2>2. CASE PumpStart
    <3>1. PICK m \in Lanes : /\ Cardinality(InFlight(m)) < maxConcurrent[m]
                             /\ InFlight(m)' = InFlight(m) \cup {Head(queue[m])}
                             /\ \A k \in Lanes \ {m} : InFlight(k)' = InFlight(k)
      BY <2>2, StartInFlight
    <3>2. CASE l = m
      <4>1. IsFiniteSet(InFlight(l)) /\ Cardinality(InFlight(l)) \in Nat
        BY <1>1, SlotsCountTasks, FS_CardinalityType
      <4>2. InFlight(l) = {}
        BY <1>1, <3>1, <3>2, <4>1, FS_EmptySet
      <4>3. QED
        BY <3>1, <3>2, <4>2
    <3>3. QED
      BY <1>1, <3>1, <3>2
  <2>3. CASE \E c \in Commands : CompleteTask(c, Settled)
    <3>1. InFlight(l)' \subseteq InFlight(l)
      BY <2>3 DEF CompleteTask, PumpAgain, Settled, InFlight, TypeOK
    <3>2. QED
      BY <1>1, <3>1
  <2>4. CASE ResetAllLanes
    <3>1. Slots
      BY DEF Inductive, Slots
    <3>2. \A k \in Lanes : InFlight(k)' = {}
      BY <2>4, <3>1, ResetSlots
    <3>3. QED
      BY <1>1, <3>2
  <2>5. QED
    BY <1>2, <2>1, <2>2, <2>3, <2>4, OtherSteps DEF Inductive
<1>5. QED
  BY <1>3, <1>4 DEF l

\* A submission keeps the line and puts its command at the end.
LEMMA SubmitLine ==
  ASSUME TypeOK, WaitsInLine, NEW d \in Commands, NEW calls, Submit(d, calls)
  PROVE  WaitsInLine'
<1>1. CASE gatewayDraining
  BY <1>1 DEF Submit, WaitsInLine, TypeOK
<1>2. CASE ~gatewayDraining
  <2> DEFINE m == LaneOf[d]
  <2>1. m \in Lanes /\ queue[m] \in Seq(Commands)
    BY DEF TypeOK
  <2>2. /\ queue'[m] = Append(queue[m], d)
        /\ \A l \in Lanes \ {m} : queue'[l] = queue[l]
        /\ \A c \in Commands \ {d} : status'[c] = status[c]
    BY <1>2, <2>1 DEF Submit, TypeOK
  <2>3. /\ DOMAIN queue[m] = 1..Len(queue[m]) /\ Len(queue[m]) \in Nat
        /\ DOMAIN queue'[m] = 1..(Len(queue[m]) + 1)
        /\ queue'[m][Len(queue[m]) + 1] = d
        /\ \A i \in DOMAIN queue[m] : queue'[m][i] = queue[m][i]
    BY <2>1, <2>2, LenProperties
  <2> HIDE DEF m
  <2>4. \A i \in DOMAIN queue[m] : i \in DOMAIN queue'[m]
    BY <2>3
  <2>5. Len(queue[m]) + 1 \in DOMAIN queue'[m]
    BY <2>3
  <2>6. ASSUME NEW c \in Commands, status'[c] = "queued"
        PROVE  \E i \in DOMAIN queue'[LaneOf[c]] : queue'[LaneOf[c]][i] = c
    <3>1. CASE c = d
      BY <2>3, <2>5, <3>1 DEF m
    <3>2. CASE c # d /\ LaneOf[c] = m
      BY <2>2, <2>3, <2>4, <2>6, <3>2 DEF WaitsInLine
    <3>3. CASE c # d /\ LaneOf[c] # m
      BY <2>2, <2>6, <3>3 DEF WaitsInLine
    <3>4. QED
      BY <3>1, <3>2, <3>3
  <2>7. QED
    BY <2>6 DEF WaitsInLine
<1>3. QED
  BY <1>1, <1>2

LEMMA StepLine ==
  ASSUME TypeOK, QueueLists, WaitsInLine, [Next]_vars
  PROVE  WaitsInLine'
<1>1. CASE UNCHANGED <<queue, status>>
  BY <1>1 DEF WaitsInLine
<1>2. CASE PumpStart
  <2>1. PICK m \in Lanes : Top.lane = m
    BY <1>2, StackShape, FrameKinds DEF PumpStart, Running, TypeOK
  <2> DEFINE h == Head(queue[m])
  <2>2. h \in Commands /\ LaneOf[h] = m
    BY <1>2, <2>1, StartQueue
  <2>3. queue[m] \in Seq(Commands) /\ queue[m] # <<>> /\ h = queue[m][1]
    BY <1>2, <2>1 DEF PumpStart, CanStart, TypeOK
  <2>4. /\ queue'[m] = Tail(queue[m])
        /\ \A l \in Lanes \ {m} : queue'[l] = queue[l]
        /\ status'[h] = "running"
        /\ \A c \in Commands \ {h} : status'[c] = status[c]
    BY <1>2, <2>1, <2>2 DEF PumpStart, TypeOK
  <2> HIDE DEF h
  <2>5. /\ DOMAIN queue[m] = 1..Len(queue[m])
        /\ DOMAIN queue'[m] = 1..(Len(queue[m]) - 1)
        /\ Len(queue[m]) \in Nat
        /\ \A i \in 1..(Len(queue[m]) - 1) : queue'[m][i] = queue[m][i + 1]
    BY <2>3, <2>4, HeadTailProperties, LenProperties
  <2>6. \A i \in DOMAIN queue[m] \ {1} : i - 1 \in DOMAIN queue'[m] /\ queue'[m][i - 1] = queue[m][i]
    BY <2>5
  <2>7. ASSUME NEW c \in Commands, status'[c] = "queued"
        PROVE  \E i \in DOMAIN queue'[LaneOf[c]] : queue'[LaneOf[c]][i] = c
    <3>1. c # h /\ status[c] = "queued"
      BY <2>4, <2>7
    <3>2. PICK i \in DOMAIN queue[LaneOf[c]] : queue[LaneOf[c]][i] = c
      BY <3>1 DEF WaitsInLine
    <3>3. CASE LaneOf[c] = m
      BY <2>3, <2>6, <3>1, <3>2, <3>3
    <3>4. CASE LaneOf[c] # m
      BY <2>4, <3>2, <3>4
    <3>5. QED
      BY <3>3, <3>4
  <2>8. QED
    BY <2>7 DEF WaitsInLine
<1>3. CASE TaskPrefix
  <2>1. Top.cmd \in Commands
    BY <1>3, StackShape, FrameKinds DEF TaskPrefix, Running, TypeOK
  <2>2. CASE Child[Top.cmd] # NoCommand /\ Submit(Child[Top.cmd], Rest)
    <3>1. Child[Top.cmd] \in Commands
      BY <2>1, <2>2
    <3>2. QED
      BY <2>2, <3>1, SubmitLine
  <2>3. QED
    BY <1>1, <1>3, <2>2 DEF TaskPrefix, laneVars
<1>4. ASSUME NEW c \in Commands, Enqueue(c) PROVE WaitsInLine'
  BY <1>4, SubmitLine DEF Enqueue
<1>5. ASSUME NEW x \in Commands, CompleteTask(x, Settled) PROVE WaitsInLine'
  <2>1. UNCHANGED queue /\ \A c \in Commands : status'[c] = "queued" => status[c] = "queued"
    BY <1>5 DEF CompleteTask, PumpAgain, Settled, TypeOK
  <2>2. QED
    BY <2>1 DEF WaitsInLine
<1>6. ASSUME NEW m \in Lanes, ClearCommandLane(m) PROVE WaitsInLine'
  <2>1. \A l \in Lanes \ {m} : queue'[l] = queue[l]
    BY <1>6 DEF ClearCommandLane, TypeOK
  <2>2. \A c \in Commands : status'[c] = "queued" =>
          status[c] = "queued" /\ ~\E i \in DOMAIN queue[m] : queue[m][i] = c
    BY <1>6 DEF ClearCommandLane
  <2>3. \A c \in Commands : status'[c] = "queued" => LaneOf[c] # m
    BY <2>2 DEF WaitsInLine
  <2>4. QED
    BY <2>1, <2>2, <2>3 DEF WaitsInLine
<1>7. CASE DrainLane \/ PumpExit \/ ResetDrain \/ MarkGatewayDraining \/ ResetAllLanes
           \/ WaitForActiveTasks \/ WaitCheck \/ UNCHANGED vars
  BY <1>1, <1>7 DEF DrainLane, PumpExit, ResetDrain, MarkGatewayDraining, ResetAllLanes,
                    WaitForActiveTasks, WaitCheck, vars, laneVars
<1>8. ASSUME NEW l \in Lanes, NEW n \in 0..MaxLimit, SetCommandLaneConcurrency(l, n)
      PROVE  WaitsInLine'
  BY <1>1, <1>8 DEF SetCommandLaneConcurrency, SlotCount
<1>9. QED
  BY <1>2, <1>3, <1>4, <1>5, <1>6, <1>7, <1>8, CompletionCovers DEF Next, Turn

\* A turn pushes a task frame only with the task it starts, and pops only
\* the frame it worked on.
LEMMA TaskFrames ==
  ASSUME TypeOK, QueueLists, [Next]_vars
  PROVE  \A c \in Commands :
           /\ On(stack', TaskFrame(c)) => On(stack, TaskFrame(c))
                \/ (PumpStart /\ status'[c] = "running")
           /\ On(stack, TaskFrame(c)) => On(stack', TaskFrame(c))
                \/ (TaskPrefix /\ Top.cmd = c)
           /\ PumpStart /\ status'[c] = "running" /\ status[c] # "running" =>
                On(stack', TaskFrame(c))
<1>1. CASE NewTurn /\ ~Turn
  <2>1. \A f : ~On(stack, f)
    BY <1>1, EmptyReaches DEF NewTurn
  <2>2. \/ stack' = <<>>
        \/ \E f \in Frame : /\ stack' = <<f>>
                            /\ \A c \in Commands : f # TaskFrame(c)
    <3>1. CASE UNCHANGED stack
      BY <1>1, <3>1 DEF NewTurn
    <3>2. ASSUME NEW l \in Lanes, stack' \in {<<DrainFrame(l)>>, <<PumpFrame(l)>>}
          PROVE  \E f \in Frame : /\ stack' = <<f>>
                                  /\ \A c \in Commands : f # TaskFrame(c)
      BY <3>2, FramesAreFrames, FramesDiffer
    <3>3. ASSUME NEW c \in Commands, Enqueue(c)
          PROVE  \/ stack' = <<>>
                 \/ \E l \in Lanes : stack' \in {<<DrainFrame(l)>>, <<PumpFrame(l)>>}
      BY <3>3 DEF Enqueue, Submit
    <3>4. ASSUME NEW c \in Commands, CompleteTask(c, Settled)
          PROVE  \/ UNCHANGED stack
                 \/ \E l \in Lanes : stack' \in {<<DrainFrame(l)>>, <<PumpFrame(l)>>}
      BY <3>4 DEF CompleteTask, PumpAgain
    <3>5. CASE ResetAllLanes
      <4> DEFINE S == {l \in Lanes : queue[l] # <<>>}
      <4>1. stack' = <<ResetFrame(S)>> /\ S \in SUBSET Lanes
        BY <3>5 DEF ResetAllLanes
      <4> HIDE DEF S
      <4>2. ResetFrame(S) \in Frame
        BY <4>1, FramesAreFrames
      <4>3. \A c \in Commands : ResetFrame(S) # TaskFrame(c)
        BY FramesDiffer
      <4>4. QED
        BY <4>1, <4>2, <4>3
    <3>6. ASSUME NEW l \in Lanes, ClearCommandLane(l) PROVE UNCHANGED stack
      BY <3>6 DEF ClearCommandLane
    <3>7. ASSUME NEW l \in Lanes, NEW n \in 0..MaxLimit, SetCommandLaneConcurrency(l, n)
          PROVE  stack' \in {<<DrainFrame(l)>>, <<PumpFrame(l)>>}
      BY <3>7 DEF SetCommandLaneConcurrency, SlotCount
    <3>8. CASE MarkGatewayDraining \/ WaitForActiveTasks \/ WaitCheck \/ UNCHANGED vars
      BY <3>1, <3>8 DEF MarkGatewayDraining, WaitForActiveTasks, WaitCheck, vars
    <3>9. QED
      BY <1>1, <3>1, <3>2, <3>3, <3>4, <3>5, <3>6, <3>7, <3>8, CompletionCovers DEF Next
  <2>3. \A c \in Commands : ~On(stack', TaskFrame(c))
    <3>1. ASSUME NEW f \in Frame, stack' = <<f>>, NEW g, On(stack', g) PROVE g = f
      BY <3>1 DEF On
    <3>2. QED
      BY <2>2, <3>1, EmptyReaches
  <2>4. ~PumpStart
    BY <1>1 DEF Turn
  <2>5. QED
    BY <2>1, <2>3, <2>4
<1>2. CASE Turn
  <2>0. stack \in Seq(Frame) /\ stack # <<>>
    BY <1>2 DEF TypeOK, Turn, DrainLane, PumpStart, PumpExit, TaskPrefix, ResetDrain, Running
  <2>1. Top \in Frame /\ Rest \in Seq(Frame)
    BY <2>0, StackShape
  <2>2. /\ \A g : On(stack, g) => On(Rest, g) \/ g = Top
        /\ \A g : On(Rest, g) => On(stack, g)
    <3>1. \A i \in DOMAIN Rest : i \in DOMAIN stack /\ Rest[i] = stack[i]
      BY <2>0, StackShape, LenProperties
    <3>2. QED
      BY <2>0, <3>1, PopOn DEF On
  <2>3. CASE DrainLane
    <3>1. PICK l \in Lanes : Top = DrainFrame(l) /\ stack' \in {Rest, Append(Rest, PumpFrame(l))}
      BY <2>1, <2>3, FrameKinds DEF DrainLane, Running
    <3>2. \A g : On(Append(Rest, PumpFrame(l)), g) <=> On(Rest, g) \/ g = PumpFrame(l)
      BY <2>1, PushOn, FramesAreFrames
    <3>3. \A g : /\ On(stack', g) => On(Rest, g) \/ g = PumpFrame(l)
                 /\ On(Rest, g) => On(stack', g)
      BY <3>1, <3>2
    <3>4. ~PumpStart
      BY <2>3 DEF DrainLane, PumpStart, Running
    <3>5. QED
      BY <2>2, <3>1, <3>3, <3>4, FramesDiffer
  <2>4. CASE PumpStart
    <3>1. PICK m \in Lanes : Top.lane = m
      BY <2>1, <2>4, FrameKinds DEF PumpStart, Running
    <3> DEFINE h == Head(queue[m])
    <3>2. h \in Commands
      BY <2>4, <3>1, StartQueue
    <3>3. /\ stack' = Append(stack, TaskFrame(h)) /\ status'[h] = "running"
          /\ \A c \in Commands \ {h} : status'[c] = status[c]
      BY <2>4, <3>1, <3>2 DEF PumpStart, TypeOK
    <3>4. \A g : On(stack', g) <=> On(stack, g) \/ g = TaskFrame(h)
      BY <2>0, <3>2, <3>3, PushOn, FramesAreFrames
    <3>5. \A c : TaskFrame(c) = TaskFrame(h) => c = h
      BY DEF TaskFrame
    <3> HIDE DEF h
    <3>6. QED
      BY <2>4, <3>3, <3>4, <3>5
  <2>5. CASE PumpExit
    <3>1. \E l \in Lanes : Top = PumpFrame(l)
      BY <2>1, <2>5, FrameKinds DEF PumpExit, Running
    <3>2. stack' = Rest /\ ~PumpStart
      BY <2>5 DEF PumpExit, PumpStart
    <3>3. QED
      BY <2>2, <3>1, <3>2, FramesDiffer
  <2>6. CASE TaskPrefix
    <3>1. PICK d \in Commands : Top = TaskFrame(d) /\ Top.cmd = d
      BY <2>1, <2>6, FrameKinds DEF TaskPrefix, Running
    <3>2. \/ stack' = Rest
          \/ \E l \in Lanes : stack' = Append(Rest, DrainFrame(l))
      BY <2>6, <3>1 DEF TaskPrefix, Submit
    <3>3. \A l \in Lanes : \A g :
            On(Append(Rest, DrainFrame(l)), g) <=> On(Rest, g) \/ g = DrainFrame(l)
      BY <2>1, PushOn, FramesAreFrames
    <3>4. /\ \A g : On(Rest, g) => On(stack', g)
          /\ \A c \in Commands : On(stack', TaskFrame(c)) => On(Rest, TaskFrame(c))
      <4>1. CASE stack' = Rest
        BY <4>1
      <4>2. ASSUME NEW l \in Lanes, stack' = Append(Rest, DrainFrame(l))
            PROVE  \A g : On(stack', g) <=> On(Rest, g) \/ g = DrainFrame(l)
        BY <3>3, <4>2
      <4>3. QED
        BY <3>2, <4>1, <4>2, FramesDiffer
    <3>5. \A c : TaskFrame(c) = TaskFrame(d) => c = d
      BY DEF TaskFrame
    <3>6. ~PumpStart
      BY <2>6 DEF TaskPrefix, PumpStart, Running
    <3>7. QED
      BY <2>2, <2>6, <3>1, <3>4, <3>5, <3>6
  <2>7. CASE ResetDrain
    <3>1. PICK S \in SUBSET Lanes : Top = ResetFrame(S) /\ Top.todo = S
      BY <2>1, <2>7, FrameKinds DEF ResetDrain, Running
    <3>2. \/ stack' = Rest
          \/ \E l \in S : stack' = Append(Append(Rest, ResetFrame(S \ {l})), DrainFrame(l))
      BY <2>7, <3>1 DEF ResetDrain
    <3>3. /\ \A g : On(Rest, g) => On(stack', g)
          /\ \A c \in Commands : On(stack', TaskFrame(c)) => On(Rest, TaskFrame(c))
      <4>1. CASE stack' = Rest
        BY <4>1
      <4>2. ASSUME NEW l \in S, stack' = Append(Append(Rest, ResetFrame(S \ {l})), DrainFrame(l))
            PROVE  \A g : On(stack', g) <=> On(Rest, g) \/ g = ResetFrame(S \ {l}) \/ g = DrainFrame(l)
        <5>1. ResetFrame(S \ {l}) \in Frame /\ DrainFrame(l) \in Frame
          BY <3>1, FramesAreFrames
        <5>2. Append(Rest, ResetFrame(S \ {l})) \in Seq(Frame)
          BY <2>1, <5>1
        <5>3. QED
          BY <2>1, <4>2, <5>1, <5>2, PushOn
      <4>3. QED
        BY <3>2, <4>1, <4>2, FramesDiffer
    <3>4. ~PumpStart
      BY <2>7 DEF ResetDrain, PumpStart, Running
    <3>5. QED
      BY <2>2, <3>1, <3>3, <3>4, FramesDiffer
  <2>8. QED
    BY <1>2, <2>3, <2>4, <2>5, <2>6, <2>7 DEF Turn
<1>3. CASE UNCHANGED vars
  <2>1. UNCHANGED <<stack, status>>
    BY <1>3 DEF vars
  <2>2. QED
    BY <2>1
<1>4. QED
  BY <1>1, <1>2, <1>3, CompletionCovers
  DEF Next, Enqueue, CompleteTask, PumpAgain, ClearCommandLane, SetCommandLaneConcurrency, SlotCount,
      MarkGatewayDraining, ResetAllLanes, WaitForActiveTasks, WaitCheck

\* A command is new until it is submitted, and it is submitted once.
LEMMA NewOnlyOnce ==
  ASSUME TypeOK, [Next]_vars
  PROVE  \A c \in Commands : status'[c] = "new" => status[c] = "new"
<1>1. ASSUME NEW c \in Commands, NEW calls, Submit(c, calls)
      PROVE  \A d \in Commands : status'[d] = "new" => status[d] = "new"
  BY <1>1 DEF Submit, TypeOK
<1>2. CASE TaskPrefix
  <2>1. Top.cmd \in Commands
    BY <1>2, StackShape, FrameKinds DEF TaskPrefix, Running, TypeOK
  <2>2. \/ Child[Top.cmd] \in Commands /\ Submit(Child[Top.cmd], Rest)
        \/ UNCHANGED status
    BY <1>2, <2>1 DEF TaskPrefix
  <2>3. QED
    BY <1>1, <2>2
<1>3. CASE PumpStart
  BY <1>3 DEF PumpStart, TypeOK
<1>4. ASSUME NEW c \in Commands, Enqueue(c)
      PROVE  \A d \in Commands : status'[d] = "new" => status[d] = "new"
  BY <1>1, <1>4 DEF Enqueue
<1>5. ASSUME NEW c \in Commands, CompleteTask(c, Settled)
      PROVE  \A d \in Commands : status'[d] = "new" => status[d] = "new"
  BY <1>5 DEF CompleteTask, PumpAgain, Settled, TypeOK
<1>6. ASSUME NEW l \in Lanes, ClearCommandLane(l)
      PROVE  \A d \in Commands : status'[d] = "new" => status[d] = "new"
  BY <1>6 DEF ClearCommandLane
<1>7. ASSUME NEW l \in Lanes, NEW n \in 0..MaxLimit, SetCommandLaneConcurrency(l, n)
      PROVE  UNCHANGED status
  BY <1>7 DEF SetCommandLaneConcurrency, SlotCount
<1>8. CASE DrainLane \/ PumpExit \/ ResetDrain \/ MarkGatewayDraining \/ ResetAllLanes
           \/ WaitForActiveTasks \/ WaitCheck \/ UNCHANGED vars
  BY <1>8 DEF DrainLane, PumpExit, ResetDrain, MarkGatewayDraining, ResetAllLanes,
              WaitForActiveTasks, WaitCheck, vars
<1>9. QED
  BY <1>2, <1>3, <1>4, <1>5, <1>6, <1>7, <1>8, CompletionCovers DEF Next, Turn

\* What a step does to who runs.
LEMMA StartsAndEnds ==
  ASSUME TypeOK, QueueLists, [Next]_vars
  PROVE  \A c \in Commands :
           /\ status'[c] = "running" => status[c] = "running" \/ PumpStart
           /\ status[c] = "running" /\ status'[c] # "running" =>
                NewTurn /\ CompleteTask(c, Settled)
<1>1. CASE Quiet
  BY <1>1 DEF Quiet
<1>2. CASE PumpStart
  BY <1>2 DEF PumpStart, TypeOK
<1>3. ASSUME NEW d \in Commands, CompleteTask(d, Settled)
      PROVE  /\ NewTurn
             /\ \A c \in Commands : /\ status'[c] = "running" => status[c] = "running"
                                    /\ c # d => status'[c] = status[c]
  BY <1>3 DEF CompleteTask, PumpAgain, Settled, TypeOK
<1>4. CASE ResetAllLanes
  BY <1>4 DEF ResetAllLanes
<1>5. QED
  BY <1>1, <1>2, <1>3, <1>4, OtherSteps

LEMMA StepPrefixes ==
  ASSUME TypeOK, QueueLists, PrefixesRun, [Next]_vars
  PROVE  PrefixesRun'
<1>1. \A c \in Commands : On(stack', TaskFrame(c)) => status'[c] = "running"
  <2>1. ASSUME NEW c \in Commands, On(stack, TaskFrame(c)), On(stack', TaskFrame(c))
        PROVE  status'[c] = "running"
    <3>1. status[c] = "running"
      BY <2>1 DEF PrefixesRun, OnStack, On
    <3>2. ~NewTurn
      BY <2>1, EmptyReaches DEF NewTurn
    <3>3. QED
      BY <3>1, <3>2, StartsAndEnds
  <2>2. QED
    BY <2>1, TaskFrames
<1>2. ASSUME NEW c \in SyncParents, status'[c] = "running"
      PROVE  status'[Child[c]] # "new" \/ On(stack', TaskFrame(c))
  <2>1. c \in Commands /\ Child[c] \in Commands
    BY Parents
  <2>2. CASE status[c] # "running"
    BY <1>2, <2>1, <2>2, StartsAndEnds, TaskFrames
  <2>3. CASE status[c] = "running" /\ status[Child[c]] # "new"
    BY <2>1, <2>3, NewOnlyOnce
  <2>4. CASE On(stack, TaskFrame(c))
    <3>1. CASE TaskPrefix /\ Top.cmd = c
      <4>1. Child[c] # NoCommand
        BY <2>1
      <4>2. \/ status[Child[c]] # "new" /\ UNCHANGED status
            \/ Submit(Child[c], Rest)
        BY <2>1, <3>1, <4>1 DEF TaskPrefix
      <4>3. QED
        BY <2>1, <4>2 DEF Submit, TypeOK
    <3>2. QED
      BY <2>1, <2>4, <3>1, TaskFrames
  <2>5. QED
    BY <2>1, <2>2, <2>3, <2>4 DEF PrefixesRun, OnStack, On
<1>3. QED
  BY <1>1, <1>2 DEF PrefixesRun, OnStack, On

LEMMA StepGeneration ==
  ASSUME TypeOK, Inductive, SameGeneration, OuterCameFirst, [Next]_vars
  PROVE  SameGeneration'
<1>0. QueueLists
  BY DEF Inductive
<1>1. \A l, m \in Lanes : generation'[l] = generation'[m]
  <2>1. CASE UNCHANGED generation
    BY <2>1 DEF SameGeneration
  <2>2. CASE ResetAllLanes
    BY <2>2 DEF ResetAllLanes, SameGeneration
  <2>3. PumpStart \/ (\E c \in Commands : CompleteTask(c, Settled)) \/ Quiet => UNCHANGED generation
    BY DEF PumpStart, CompleteTask, PumpAgain, Quiet
  <2>4. QED
    BY <1>0, <2>1, <2>2, <2>3, OtherSteps
<1>2. ASSUME NEW p \in Commands, Child[p] # NoCommand,
             status'[p] = "running", status'[Child[p]] = "running"
      PROVE  task'[p].gen <= task'[Child[p]].gen
  <2>1. Child[p] \in Commands /\ Child[p] # p
    BY <1>2, Parents
  <2>2. CASE PumpStart
    <3>1. PICK m \in Lanes : Top.lane = m
      BY <2>2, StackShape, FrameKinds DEF PumpStart, Running, TypeOK
    <3> DEFINE h == Head(queue[m])
    <3>2. h \in Commands /\ LaneOf[h] = m /\ status[h] = "queued"
      BY <1>0, <2>2, <3>1, StartQueue
    <3>3. /\ task'[h] = [id |-> nextTaskId, gen |-> generation[m]]
          /\ \A d \in Commands \ {h} : task'[d] = task[d] /\ status'[d] = status[d]
      BY <2>2, <3>1, <3>2 DEF PumpStart, TypeOK
    <3> HIDE DEF h
    <3>4. p # h
      BY <1>2, <2>1, <3>2, <3>3 DEF OuterCameFirst
    <3>5. CASE Child[p] = h
      <4>1. task[p].gen <= generation[LaneOf[p]] /\ LaneOf[p] \in Lanes
        BY DEF Inductive, IdsAreFresh
      <4>2. generation[LaneOf[p]] = generation[m]
        BY <4>1 DEF SameGeneration
      <4>3. QED
        BY <3>3, <3>4, <3>5, <4>1, <4>2
    <3>6. CASE Child[p] # h
      BY <1>2, <2>1, <3>3, <3>4, <3>6 DEF SameGeneration
    <3>7. QED
      BY <3>5, <3>6
  <2>3. CASE ~PumpStart
    <3>1. status[p] = "running" /\ status[Child[p]] = "running"
      BY <1>0, <1>2, <2>1, <2>3, StartsAndEnds
    <3>2. UNCHANGED task
      <4>1. (\E c \in Commands : CompleteTask(c, Settled)) \/ ResetAllLanes \/ Quiet => UNCHANGED task
        BY DEF CompleteTask, PumpAgain, ResetAllLanes, Quiet
      <4>2. QED
        BY <1>0, <2>3, <4>1, OtherSteps
    <3>3. QED
      BY <1>2, <3>1, <3>2 DEF SameGeneration
  <2>4. QED
    BY <2>2, <2>3
<1>3. QED
  BY <1>1, <1>2 DEF SameGeneration

\* A submitted command's outer one is running, and no other command changes.
LEMMA SubmitOuter ==
  ASSUME TypeOK, OuterOutlivesInner, NEW d \in Commands, NEW calls, Submit(d, calls),
         \A p \in Commands : Child[p] = d => status[p] = "running"
  PROVE  OuterOutlivesInner'
<1>1. /\ status[d] = "new"
      /\ \A c \in Commands \ {d} : status'[c] = status[c]
  BY DEF Submit, TypeOK
<1>2. ASSUME NEW c \in Commands, status'[c] \in {"queued", "running"},
             NEW p \in Commands \ RacedTasks, Child[p] = c
      PROVE  status'[p] = "running"
  <2>1. status[p] = "running"
    BY <1>1, <1>2 DEF OuterOutlivesInner
  <2>2. QED
    BY <1>1, <2>1
<1>3. QED
  BY <1>2 DEF OuterOutlivesInner

LEMMA StepOuter ==
  ASSUME TypeOK, QueueLists, PrefixesRun, OuterOutlivesInner, [Next]_vars
  PROVE  OuterOutlivesInner'
<1>1. CASE UNCHANGED status
  BY <1>1 DEF OuterOutlivesInner
<1>2. CASE TaskPrefix
  <2>0. stack \in Seq(Frame) /\ stack # <<>>
    BY <1>2 DEF TaskPrefix, Running, TypeOK
  <2>1. PICK x \in Commands : Top.cmd = x /\ Top = TaskFrame(x)
    BY <1>2, <2>0, StackShape, FrameKinds DEF TaskPrefix, Running
  <2>2. status[x] = "running"
    <3>1. Len(stack) \in DOMAIN stack
      BY <2>0, StackShape, LenProperties
    <3>2. OnStack(TaskFrame(x))
      BY <2>1, <3>1 DEF OnStack, Top
    <3>3. QED
      BY <3>2 DEF PrefixesRun
  <2>3. CASE Child[x] # NoCommand /\ Submit(Child[x], Rest)
    <3>1. Child[x] \in Commands
      BY <2>3
    <3>2. \A p \in Commands : Child[p] = Child[x] => status[p] = "running"
      BY <2>2, <2>3, Parents
    <3>3. QED
      BY <2>3, <3>1, <3>2, SubmitOuter
  <2>4. QED
    BY <1>1, <1>2, <2>1, <2>3 DEF TaskPrefix
<1>3. ASSUME NEW c \in Commands, Enqueue(c) PROVE OuterOutlivesInner'
  BY <1>3, SubmitOuter DEF Enqueue, Submittable
<1>4. CASE PumpStart
  <2>1. PICK m \in Lanes : Top.lane = m
    BY <1>4, StackShape, FrameKinds DEF PumpStart, Running, TypeOK
  <2> DEFINE h == Head(queue[m])
  <2>2. h \in Commands /\ status[h] = "queued"
    BY <1>4, <2>1, StartQueue
  <2>3. status'[h] = "running" /\ \A d \in Commands \ {h} : status'[d] = status[d]
    BY <1>4, <2>1, <2>2 DEF PumpStart, TypeOK
  <2> HIDE DEF h
  <2>4. QED
    BY <2>2, <2>3 DEF OuterOutlivesInner
<1>5. ASSUME NEW x \in Commands, Finish(x) \/ Abandon(x) PROVE OuterOutlivesInner'
  <2>1. /\ \A d \in Commands \ {x} : status'[d] = status[d]
        /\ status'[x] \in Settled
    BY <1>5, CompletionCovers DEF CompleteTask, PumpAgain, Settled, TypeOK
  <2>2. Child[x] # NoCommand /\ x \notin RacedTasks => status[Child[x]] \in Settled
    BY <1>5 DEF Finish, Abandon, CompleteTask, Endings
  <2>3. ASSUME NEW c \in Commands, status'[c] \in {"queued", "running"},
               NEW p \in Commands \ RacedTasks, Child[p] = c
        PROVE  status'[p] = "running"
    <3>1. c # x
      BY <2>1, <2>3 DEF Settled
    <3>2. p # x
      BY <2>1, <2>2, <2>3, <3>1 DEF Settled
    <3>3. QED
      BY <2>1, <2>3, <3>1, <3>2 DEF OuterOutlivesInner
  <2>4. QED
    BY <2>3 DEF OuterOutlivesInner
<1>6. ASSUME NEW m \in Lanes, ClearCommandLane(m) PROVE OuterOutlivesInner'
  <2>1. \A c \in Commands : (\E i \in DOMAIN queue[m] : queue[m][i] = c)
                            => status[c] = "queued"
    BY DEF QueueLists, ListsWaiting
  <2>2. \A c \in Commands : /\ status[c] = "running" => status'[c] = "running"
                            /\ status'[c] \in {"queued", "running"} => status'[c] = status[c]
    BY <1>6, <2>1 DEF ClearCommandLane
  <2>3. QED
    BY <2>2 DEF OuterOutlivesInner
<1>7. ASSUME NEW l \in Lanes, NEW n \in 0..MaxLimit, SetCommandLaneConcurrency(l, n)
      PROVE  OuterOutlivesInner'
  BY <1>1, <1>7 DEF SetCommandLaneConcurrency, SlotCount
<1>8. CASE DrainLane \/ PumpExit \/ ResetDrain \/ MarkGatewayDraining \/ ResetAllLanes
           \/ WaitForActiveTasks \/ WaitCheck \/ UNCHANGED vars
  BY <1>1, <1>8 DEF DrainLane, PumpExit, ResetDrain, MarkGatewayDraining, ResetAllLanes,
                    WaitForActiveTasks, WaitCheck, vars
<1>9. QED
  BY <1>2, <1>3, <1>4, <1>5, <1>6, <1>7, <1>8, CompletionCovers DEF Next, Turn

LEMMA StepFirst ==
  ASSUME TypeOK, QueueLists, PrefixesRun, OuterCameFirst, [Next]_vars
  PROVE  OuterCameFirst'
<1>1. ASSUME NEW d \in Commands, NEW calls, Submit(d, calls),
             \A p \in Commands : Child[p] = d => status[p] = "running"
      PROVE  OuterCameFirst'
  <2>1. /\ status[d] = "new"
        /\ \A c \in Commands \ {d} : status'[c] = status[c]
    BY <1>1 DEF Submit, TypeOK
  <2>2. ASSUME NEW p \in Commands, Child[p] # NoCommand, status'[Child[p]] # "new"
        PROVE  status'[p] \notin {"new", "queued"}
    <3>1. Child[p] \in Commands /\ Child[p] # p
      BY <2>2, Parents
    <3>2. CASE Child[p] = d
      BY <1>1, <2>1, <3>1, <3>2
    <3>3. CASE Child[p] # d
      <4>1. status[Child[p]] # "new"
        BY <2>1, <2>2, <3>1, <3>3
      <4>2. status[p] \notin {"new", "queued"}
        BY <2>2, <4>1 DEF OuterCameFirst
      <4>3. QED
        BY <2>1, <4>2
    <3>4. QED
      BY <3>2, <3>3
  <2>3. QED
    BY <2>2 DEF OuterCameFirst
<1>2. ASSUME \A c \in Commands : /\ status'[c] # "new" => status[c] # "new"
                                 /\ status[c] \notin {"new", "queued"} =>
                                      status'[c] \notin {"new", "queued"}
      PROVE  OuterCameFirst'
  <2>1. ASSUME NEW p \in Commands, Child[p] # NoCommand, status'[Child[p]] # "new"
        PROVE  status'[p] \notin {"new", "queued"}
    <3>1. Child[p] \in Commands
      BY <2>1
    <3>2. status[p] \notin {"new", "queued"}
      BY <1>2, <2>1, <3>1 DEF OuterCameFirst
    <3>3. QED
      BY <1>2, <3>2
  <2>2. QED
    BY <2>1 DEF OuterCameFirst
<1>3. CASE TaskPrefix
  <2>0. stack \in Seq(Frame) /\ stack # <<>>
    BY <1>3 DEF TaskPrefix, Running, TypeOK
  <2>1. PICK x \in Commands : Top.cmd = x /\ Top = TaskFrame(x)
    BY <1>3, <2>0, StackShape, FrameKinds DEF TaskPrefix, Running
  <2>2. status[x] = "running"
    <3>1. Len(stack) \in DOMAIN stack
      BY <2>0, StackShape, LenProperties
    <3>2. OnStack(TaskFrame(x))
      BY <2>1, <3>1 DEF OnStack, Top
    <3>3. QED
      BY <3>2 DEF PrefixesRun
  <2>3. CASE Child[x] # NoCommand /\ Submit(Child[x], Rest)
    <3>1. Child[x] \in Commands
      BY <2>3
    <3>2. \A p \in Commands : Child[p] = Child[x] => status[p] = "running"
      BY <2>2, <2>3, Parents
    <3>3. QED
      BY <1>1, <2>3, <3>1, <3>2
  <2>4. QED
    BY <1>2, <1>3, <2>1, <2>3 DEF TaskPrefix
<1>4. ASSUME NEW c \in Commands, Enqueue(c) PROVE OuterCameFirst'
  BY <1>1, <1>4 DEF Enqueue, Submittable
<1>5. CASE PumpStart
  <2>1. PICK m \in Lanes : Top.lane = m
    BY <1>5, StackShape, FrameKinds DEF PumpStart, Running, TypeOK
  <2> DEFINE h == Head(queue[m])
  <2>2. h \in Commands /\ status[h] = "queued"
    BY <1>5, <2>1, StartQueue
  <2>3. status'[h] = "running" /\ \A d \in Commands \ {h} : status'[d] = status[d]
    BY <1>5, <2>1, <2>2 DEF PumpStart, TypeOK
  <2> HIDE DEF h
  <2>4. QED
    BY <1>2, <2>2, <2>3
<1>6. ASSUME NEW x \in Commands, CompleteTask(x, Settled) PROVE OuterCameFirst'
  BY <1>2, <1>6 DEF CompleteTask, PumpAgain, Settled, TypeOK
<1>7. ASSUME NEW m \in Lanes, ClearCommandLane(m) PROVE OuterCameFirst'
  <2>1. \A c \in Commands : (\E i \in DOMAIN queue[m] : queue[m][i] = c)
                            => status[c] = "queued"
    BY DEF QueueLists, ListsWaiting
  <2>2. \A c \in Commands : status'[c] = status[c] \/ (status[c] = "queued" /\ status'[c] = "cleared")
    BY <1>7, <2>1 DEF ClearCommandLane
  <2>3. QED
    BY <1>2, <2>2
<1>8. ASSUME NEW l \in Lanes, NEW n \in 0..MaxLimit, SetCommandLaneConcurrency(l, n)
      PROVE  OuterCameFirst'
  BY <1>2, <1>8 DEF SetCommandLaneConcurrency, SlotCount
<1>9. CASE DrainLane \/ PumpExit \/ ResetDrain \/ MarkGatewayDraining \/ ResetAllLanes
           \/ WaitForActiveTasks \/ WaitCheck \/ UNCHANGED vars
  BY <1>2, <1>9 DEF DrainLane, PumpExit, ResetDrain, MarkGatewayDraining, ResetAllLanes,
                    WaitForActiveTasks, WaitCheck, vars
<1>10. QED
  BY <1>3, <1>4, <1>5, <1>6, <1>7, <1>8, <1>9, CompletionCovers DEF Next, Turn

LEMMA StepNesting == TypeOK /\ Inductive /\ Nesting /\ [RunsNext]_vars => Nesting'
<1> SUFFICES ASSUME TypeOK, Inductive, Nesting, [RunsNext]_vars PROVE Nesting'
  OBVIOUS
<1>1. [Next]_vars /\ QueueLists
  BY RunsStepTheQueue DEF Inductive
<1>2. SessionsAreNarrow'
  BY StepNarrow DEF Nesting
<1>3. WaitsInLine' /\ PrefixesRun' /\ SameGeneration'
  BY <1>1, StepLine, StepPrefixes, StepGeneration DEF Nesting
<1>4. OuterCameFirst' /\ OuterOutlivesInner'
  BY <1>1, StepFirst, StepOuter DEF Nesting
<1>5. QED
  BY <1>2, <1>3, <1>4 DEF Nesting

\* The inductive invariant of the runs: the queue's own, and what is nested
\* in what.
THEOREM NestingInvariance == RunsSpec => [](TypeOK /\ Inductive /\ Nesting)
<1>1. RunsSpec => [](TypeOK /\ Inductive)
  BY RunsUseTheQueue, Invariance, PTL
<1>2. Init => Nesting
  BY InitNesting
<1>3. TypeOK /\ Inductive /\ Nesting /\ [RunsNext]_vars => Nesting'
  BY StepNesting
<1>4. QED
  BY <1>1, <1>2, <1>3, PTL DEF RunsSpec

-----------------------------------------------------------------------------
(* What follows from it.                                                    *)

\* Two runs of a session never are in their bodies together, however many
\* sessions, shared lanes and limits there are.
THEOREM RunsOfASessionTakeTurns == RunsSpec => []OneRunPerSession
<1>1. SessionsAreNarrow => OneRunPerSession
  <2> SUFFICES ASSUME SessionsAreNarrow, NEW r \in Runs, NEW s \in Runs,
                      InBody(r), InBody(s), SessionKey[r] = SessionKey[s]
               PROVE  r = s
    BY DEF OneRunPerSession
  <2>1. SessionLane(r) = SessionLane(s)
    BY DEF SessionLane
  <2>2. /\ SessionTask(r) \in InFlight(SessionLane(r))
        /\ SessionTask(s) \in InFlight(SessionLane(r))
    BY <2>1, NestedTasks DEF InBody, Holds
  <2>3. QED
    BY <2>2, TasksDiffer DEF SessionsAreNarrow
<1>2. TypeOK /\ Inductive /\ Nesting => OneRunPerSession
  BY <1>1 DEF Nesting
<1>3. QED
  BY <1>2, NestingInvariance, PTL

\* A session task never ends before its run's body has: clears, drains,
\* restarts and a timeout of the cron task above leave no body without the
\* task that holds its session's slot.
THEOREM OuterIsKept == RunsSpec => []OuterOutlivesInner
<1>1. TypeOK /\ Inductive /\ Nesting => OuterOutlivesInner
  BY DEF Nesting
<1>2. QED
  BY <1>1, NestingInvariance, PTL

\* Between turns a lane where a command waits is full, so some command holds
\* a slot of it.
LEMMA FullLane ==
  ASSUME TypeOK, Inductive, WaitsInLine, NewTurn, NEW c \in Commands, status[c] = "queued"
  PROVE  \E d \in Commands : d \in InFlight(LaneOf[c])
<1> DEFINE l == LaneOf[c]
<1>1. l \in Lanes /\ queue[l] # <<>>
  BY EmptySeq, LenProperties DEF WaitsInLine
<1>2. ~CanStart(l)
  BY <1>1, EmptySeq, LenProperties DEF Inductive, WakeupAhead, NewTurn, OnStack
<1>3. /\ ~(Cardinality(InFlight(l)) < maxConcurrent[l])
      /\ IsFiniteSet(InFlight(l))
  BY <1>1, <1>2, SlotsCountTasks DEF CanStart, HasRoom
<1>4. maxConcurrent[l] \in Nat \ {0}
  <2>1. maxConcurrent \in [Lanes -> 1..MaxLimit]
    BY DEF TypeOK
  <2>2. QED
    BY <1>1, <2>1
<1>5. InFlight(l) # {}
  BY <1>3, <1>4, FS_EmptySet
<1>6. QED
  BY <1>5 DEF InFlight

\* An inner command that runs holds its slot if its outer one does: a restart
\* disowns both or the outer one.
LEMMA InnerHolds ==
  ASSUME TypeOK, Inductive, SameGeneration, NEW p \in Commands, Holds(p),
         Child[p] # NoCommand, status[Child[p]] = "running"
  PROVE  Holds(Child[p])
<1> DEFINE c == Child[p]
<1>1. c \in Commands /\ LaneOf[c] \in Lanes /\ LaneOf[p] \in Lanes
  OBVIOUS
<1>2. status[p] = "running" /\ task[p].gen = generation[LaneOf[p]]
  BY DEF Holds, InFlight
<1>3. task[p].gen <= task[c].gen
  BY <1>2 DEF SameGeneration
<1>4. task[c].gen <= generation[LaneOf[c]]
  BY <1>1 DEF Inductive, IdsAreFresh
<1>5. generation[LaneOf[c]] = generation[LaneOf[p]]
  BY <1>1 DEF SameGeneration
<1>6. task[c].gen \in Nat /\ generation[LaneOf[c]] \in Nat
  BY <1>1 DEF TypeOK
<1>7. task[c].gen = generation[LaneOf[c]]
  BY <1>2, <1>3, <1>4, <1>5, <1>6
<1>8. QED
  BY <1>1, <1>7 DEF Holds, InFlight

\* A task whose inner command is settled can end.
LEMMA SettledEnds ==
  ASSUME NEW p \in Commands, Child[p] = NoCommand \/ status[Child[p]] \in Settled
  PROVE  CanMove(p)
<1>1. Endings(p) # {}
  BY DEF Endings
<1>2. QED
  BY <1>1 DEF CanMove

\* The nesting cannot deadlock: a lane full of bodies has one that ends by
\* itself, a session's task waits for a body, a cron run's for its session.
THEOREM NestingNeverDeadlocks == RunsSpec => []SomeoneCanMove
<1>1. ASSUME TypeOK, Inductive, Nesting, NewTurn PROVE SomeoneCanMove
  <2> DEFINE Someone == \E c \in Commands : Holds(c) /\ CanMove(c)
  <2>0. WaitsInLine /\ SameGeneration /\ PrefixesRun
    BY <1>1 DEF Nesting
  <2>1. ASSUME NEW r \in Runs, Holds(Body(r)) PROVE Someone
    BY <2>1, CommandKinds, NestedTasks, SettledEnds
  <2>2. ASSUME NEW r \in Runs, Holds(SessionTask(r)) PROVE Someone
    <3>1. /\ SessionTask(r) \in Commands /\ Body(r) \in Commands
          /\ Child[SessionTask(r)] = Body(r) /\ SessionTask(r) \in SyncParents
      BY CommandKinds, NestedTasks, Parents
    <3>2. status[Body(r)] # "new"
      <4>1. ~OnStack(TaskFrame(SessionTask(r)))
        BY <1>1, EmptyReaches DEF NewTurn, OnStack, On
      <4>2. status[SessionTask(r)] = "running"
        BY <2>2 DEF Holds, InFlight
      <4>3. QED
        BY <2>0, <3>1, <4>1, <4>2 DEF PrefixesRun
    <3>3. CASE status[Body(r)] = "queued"
      <4>1. PICK d \in Commands : d \in InFlight(LaneOf[Body(r)])
        BY <1>1, <2>0, <3>1, <3>3, FullLane
      <4>2. LaneOf[d] = BodyLane(r) /\ Holds(d)
        BY <4>1, NestedTasks DEF Holds, InFlight
      <4>3. QED
        BY <2>1, <4>2, LanesAreOfOneKind
    <3>4. CASE status[Body(r)] = "running"
      <4>1. Body(r) # NoCommand
        BY <3>1
      <4>2. Holds(Body(r))
        BY <1>1, <2>0, <2>2, <3>1, <3>4, <4>1, InnerHolds
      <4>3. QED
        BY <2>1, <4>2
    <3>5. CASE status[Body(r)] \in Settled
      BY <2>2, <3>1, <3>5, SettledEnds
    <3>6. QED
      BY <1>1, <3>1, <3>2, <3>3, <3>4, <3>5 DEF TypeOK, Pending
  <2>3. ASSUME NEW r \in ViaCron, Holds(CronTask(r)) PROVE Someone
    <3>1. /\ CronTask(r) \in Commands /\ SessionTask(r) \in Commands /\ r \in Runs
          /\ Child[CronTask(r)] = SessionTask(r) /\ CronTask(r) \notin SyncParents
      BY CommandKinds, NestedTasks, Parents
    <3>2. CASE status[SessionTask(r)] = "new"
      <4>1. status[CronTask(r)] = "running" /\ SessionTask(r) # NoCommand
        BY <2>3, <3>1 DEF Holds, InFlight
      <4>2. Submittable(SessionTask(r))
        BY <3>1, <4>1, Parents DEF Submittable
      <4>3. QED
        BY <2>3, <3>1, <3>2, <4>1, <4>2 DEF CanMove
    <3>3. CASE status[SessionTask(r)] = "queued"
      <4>1. PICK d \in Commands : d \in InFlight(LaneOf[SessionTask(r)])
        BY <1>1, <2>0, <3>1, <3>3, FullLane
      <4>2. LaneOf[d] = SessionLane(r) /\ Holds(d)
        BY <3>1, <4>1, NestedTasks DEF Holds, InFlight
      <4>3. QED
        BY <2>2, <3>1, <4>2, LanesAreOfOneKind
    <3>4. CASE status[SessionTask(r)] = "running"
      <4>1. SessionTask(r) # NoCommand
        BY <3>1
      <4>2. Holds(SessionTask(r))
        BY <1>1, <2>0, <2>3, <3>1, <3>4, <4>1, InnerHolds
      <4>3. QED
        BY <2>2, <3>1, <4>2
    <3>5. CASE status[SessionTask(r)] \in Settled
      BY <2>3, <3>1, <3>5, SettledEnds
    <3>6. QED
      BY <1>1, <3>1, <3>2, <3>3, <3>4, <3>5 DEF TypeOK, Pending
  <2>4. ASSUME NEW c \in Commands, status[c] = "queued" PROVE Someone
    <3>1. PICK d \in Commands : d \in InFlight(LaneOf[c])
      BY <1>1, <2>0, <2>4, FullLane
    <3>2. Holds(d)
      BY <3>1 DEF Holds, InFlight
    <3>3. QED
      BY <2>1, <2>2, <2>3, <3>2, CommandKinds
  <2>5. QED
    BY <2>4 DEF SomeoneCanMove
<1>2. TypeOK /\ Inductive /\ Nesting => SomeoneCanMove
  BY <1>1 DEF SomeoneCanMove
<1>3. QED
  BY <1>2, NestingInvariance, PTL
=============================================================================
