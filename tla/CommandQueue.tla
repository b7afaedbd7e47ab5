---------------------------- MODULE CommandQueue ----------------------------
(***************************************************************************)
(* The in-process command queue of the gateway                             *)
(* (src/process/command-queue.ts): every agent run, cron run and           *)
(* compaction is a command that waits in the FIFO queue of a lane, holds   *)
(* one of the lane's maxConcurrent slots while its task runs, and settles  *)
(* the promise its submitter awaits.                                       *)
(*                                                                         *)
(* JavaScript runs one turn of the event loop at a time, but one turn may  *)
(* re-enter the queue: drainLane starts a task, whose code up to its first *)
(* await runs at once and may enqueue another command, which calls         *)
(* drainLane again.  `stack' holds the calls in progress in the current    *)
(* turn, the innermost last; a new turn starts only when it is empty.      *)
(*                                                                         *)
(* A definition marked `faulty' is not part of the model: it is the one    *)
(* after it as a plausible bug would have it, and the README says which    *)
(* property refutes it.                                                    *)
(***************************************************************************)
EXTENDS Naturals, Sequences, FiniteSets

CONSTANTS
  Lanes,          \* lane names
  Commands,       \* every command of the run, each submitted at most once
  LaneOf,         \* LaneOf[c]: the lane c is submitted to
  Child,          \* Child[c]: the command the task of c submits and awaits
  NoCommand,      \* Child[c] of a task that submits nothing
  SyncParents,    \* the tasks that submit their child before their first await
  RacedTasks,     \* the tasks that may end without their child, submitted or not
  MaxLimit,       \* bound: largest concurrency a lane is configured with
  MaxResets       \* bound: in-process restarts

ASSUME LaneAssumption == LaneOf \in [Commands -> Lanes]
ASSUME ChildAssumption ==
  /\ NoCommand \notin Commands
  /\ Child \in [Commands -> Commands \cup {NoCommand}]
  /\ SyncParents \subseteq Commands /\ RacedTasks \subseteq Commands
ASSUME BoundAssumption == MaxLimit \in Nat \ {0} /\ MaxResets \in Nat

VARIABLES
  gatewayDraining,   \* new commands are refused
  nextTaskId,        \* id of the next task to start
  queue,             \* queue[l]: commands waiting in lane l, oldest first
  activeTaskIds,     \* activeTaskIds[l]: ids that occupy a slot of lane l
  maxConcurrent,     \* maxConcurrent[l]: slots of lane l
  draining,          \* draining[l]: a drainLane of l is pumping
  generation,        \* generation[l]: bumped by resetAllLanes
  status,            \* status[c]: what became of the command's promise
  task,              \* task[c]: id and generation its task captured
  stack,             \* calls in progress in the current turn
  waiter             \* a waitForActiveTasks call: its state and snapshot

laneVars == <<gatewayDraining, nextTaskId, queue, activeTaskIds, maxConcurrent,
              draining, generation>>
vars == <<laneVars, status, task, stack, waiter>>

Pending == {"new", "queued", "running"}
Settled == {"resolved", "failed", "cleared", "refused"}

\* A call in progress: drainLane about to look at the draining flag, the
\* pump loop, a task before its first await, resetAllLanes draining lanes.
Frame == [at : {"drain", "pump"}, lane : Lanes]
           \cup [at : {"task"}, cmd : Commands]
           \cup [at : {"reset"}, todo : SUBSET Lanes]

DrainFrame(l) == [at |-> "drain", lane |-> l]
PumpFrame(l)  == [at |-> "pump", lane |-> l]
TaskFrame(c)  == [at |-> "task", cmd |-> c]
ResetFrame(S) == [at |-> "reset", todo |-> S]

Top == stack[Len(stack)]
Rest == SubSeq(stack, 1, Len(stack) - 1)
Running(kind) == stack # <<>> /\ Top.at = kind
NewTurn == stack = <<>>

TypeOK ==
  /\ gatewayDraining \in BOOLEAN
  /\ nextTaskId \in Nat
  /\ queue \in [Lanes -> Seq(Commands)]
  /\ activeTaskIds \in [Lanes -> SUBSET Nat]
  /\ maxConcurrent \in [Lanes -> 1..MaxLimit]
  /\ draining \in [Lanes -> BOOLEAN]
  /\ generation \in [Lanes -> Nat]
  /\ status \in [Commands -> Pending \cup Settled]
  /\ task \in [Commands -> [id : Nat, gen : Nat]]
  /\ stack \in Seq(Frame)
  /\ waiter \in [state : {"idle", "polling", "drained", "timeout"},
                 snapshot : SUBSET Nat]

-----------------------------------------------------------------------------
Init ==
  /\ gatewayDraining = FALSE
  /\ nextTaskId = 1
  /\ queue = [l \in Lanes |-> <<>>]
  /\ activeTaskIds = [l \in Lanes |-> {}]
  /\ maxConcurrent = [l \in Lanes |-> 1]
  /\ draining = [l \in Lanes |-> FALSE]
  /\ generation = [l \in Lanes |-> 0]
  /\ status = [c \in Commands |-> "new"]
  /\ task = [c \in Commands |-> [id |-> 0, gen |-> 0]]
  /\ stack = <<>>
  /\ waiter = [state |-> "idle", snapshot |-> {}]

HasRoom(l) == Cardinality(activeTaskIds[l]) < maxConcurrent[l]
CanStart(l) == HasRoom(l) /\ queue[l] # <<>>

\* enqueueCommandInLane called with `calls' left of the turn's stack.
Submit(c, calls) ==
  /\ status[c] = "new"
  /\ IF gatewayDraining
     THEN /\ status' = [status EXCEPT ![c] = "refused"]
          /\ stack' = calls
          /\ UNCHANGED queue
     ELSE /\ status' = [status EXCEPT ![c] = "queued"]
          /\ queue' = [queue EXCEPT ![LaneOf[c]] = Append(@, c)]
          /\ stack' = Append(calls, DrainFrame(LaneOf[c]))
  /\ UNCHANGED <<gatewayDraining, nextTaskId, activeTaskIds, maxConcurrent,
                 draining, generation, task, waiter>>

\* A command that no other task submits, or one whose parent's task is past
\* its first await.
Submittable(c) ==
  \A p \in Commands : Child[p] = c => p \notin SyncParents /\ status[p] = "running"

Enqueue(c) == NewTurn /\ Submittable(c) /\ Submit(c, <<>>)

-----------------------------------------------------------------------------
(* Calls within a turn.                                                    *)

\* drainLane: nothing to do when the lane is already being pumped.
DrainLane ==
  /\ Running("drain")
  /\ LET l == Top.lane IN
       IF draining[l]
       THEN stack' = Rest /\ UNCHANGED draining
       ELSE /\ draining' = [draining EXCEPT ![l] = TRUE]
            /\ stack' = Append(Rest, PumpFrame(l))
  /\ UNCHANGED <<gatewayDraining, nextTaskId, queue, activeTaskIds,
                 maxConcurrent, generation, status, task, waiter>>

\* One round of pump's while loop: the oldest entry gets a slot and its task
\* runs up to its first await.
PumpStart ==
  /\ Running("pump")
  /\ CanStart(Top.lane)
  /\ LET l == Top.lane
         c == Head(queue[l])
     IN  /\ queue' = [queue EXCEPT ![l] = Tail(@)]
         /\ activeTaskIds' = [activeTaskIds EXCEPT ![l] = @ \cup {nextTaskId}]
         /\ task' = [task EXCEPT ![c] = [id |-> nextTaskId, gen |-> generation[l]]]
         /\ status' = [status EXCEPT ![c] = "running"]
         /\ stack' = Append(stack, TaskFrame(c))
  /\ nextTaskId' = nextTaskId + 1
  /\ UNCHANGED <<gatewayDraining, maxConcurrent, draining, generation, waiter>>

PumpExitFlagLeftUp ==                                                      \* faulty
  /\ Running("pump")
  /\ ~CanStart(Top.lane)
  /\ stack' = Rest
  /\ UNCHANGED <<laneVars, status, task, waiter>>

\* The loop ends; its `finally' lowers the draining flag.
PumpExit ==
  /\ Running("pump")
  /\ ~CanStart(Top.lane)
  /\ draining' = [draining EXCEPT ![Top.lane] = FALSE]
  /\ stack' = Rest
  /\ UNCHANGED <<gatewayDraining, nextTaskId, queue, activeTaskIds,
                 maxConcurrent, generation, status, task, waiter>>

\* The synchronous part of a task: runEmbeddedPiAgent's session task submits
\* the global command before it awaits anything.
TaskPrefix ==
  /\ Running("task")
  /\ LET c == Top.cmd IN
       IF c \in SyncParents /\ Child[c] # NoCommand /\ status[Child[c]] = "new"
       THEN Submit(Child[c], Rest)
       ELSE stack' = Rest /\ UNCHANGED <<laneVars, status, task, waiter>>

\* The loop over lanesToDrain, in whatever order the lanes were created.
ResetDrain ==
  /\ Running("reset")
  /\ IF Top.todo = {}
     THEN stack' = Rest
     ELSE \E l \in Top.todo :
            stack' = Append(Append(Rest, ResetFrame(Top.todo \ {l})), DrainFrame(l))
  /\ UNCHANGED <<laneVars, status, task, waiter>>

Turn == DrainLane \/ PumpStart \/ PumpExit \/ TaskPrefix \/ ResetDrain

-----------------------------------------------------------------------------
(* New turns.                                                              *)

\* How a task ends: as its own code decides, or as its child ended, whose
\* promise the parent returns.
EndingsNotAwaited(c) == {"resolved", "failed"}                             \* faulty
Endings(c) ==
  IF Child[c] = NoCommand THEN {"resolved", "failed"}
  ELSE {status[Child[c]]} \cap Settled

\* A slot was given back: pump looks for a waiting command.
NoPump(l) == <<>>                                                          \* faulty
PumpAgain(l) == <<PumpFrame(l)>>

\* completeTask, then pump, then the command's promise settles.  A task of an
\* earlier generation only settles its promise.
CompleteTask(c, outcomes) ==
  /\ NewTurn
  /\ status[c] = "running"
  /\ \E outcome \in outcomes : status' = [status EXCEPT ![c] = outcome]
  /\ LET l == LaneOf[c] IN
       IF task[c].gen = generation[l]
       THEN /\ activeTaskIds' = [activeTaskIds EXCEPT ![l] = @ \ {task[c].id}]
            /\ stack' = PumpAgain(l)
       ELSE UNCHANGED <<activeTaskIds, stack>>
  /\ UNCHANGED <<gatewayDraining, nextTaskId, queue, maxConcurrent, draining,
                 generation, task, waiter>>

Finish(c) == CompleteTask(c, Endings(c))

\* A cron task races its job against the job's timeout, and may find nothing to
\* do or fail before it submits anything; a child already submitted goes on.
Abandon(c) == c \in RacedTasks /\ CompleteTask(c, {"resolved", "failed"})

SlotCountUnclamped(n) == n                                                 \* faulty
SlotCount(n) == IF n < 1 THEN 1 ELSE n

\* setCommandLaneConcurrency, from the configuration.
SetCommandLaneConcurrency(l, n) ==
  /\ NewTurn
  /\ maxConcurrent' = [maxConcurrent EXCEPT ![l] = SlotCount(n)]
  /\ stack' = <<DrainFrame(l)>>
  /\ UNCHANGED <<gatewayDraining, nextTaskId, queue, activeTaskIds, draining,
                 generation, status, task, waiter>>

ClearCommandLaneSilently(l) ==                                             \* faulty
  /\ NewTurn
  /\ queue' = [queue EXCEPT ![l] = <<>>]
  /\ UNCHANGED <<gatewayDraining, nextTaskId, activeTaskIds, maxConcurrent,
                 draining, generation, status, task, stack, waiter>>

\* clearCommandLane rejects the waiting commands and leaves the running ones.
ClearCommandLane(l) ==
  /\ NewTurn
  /\ status' = [c \in Commands |->
                  IF \E i \in DOMAIN queue[l] : queue[l][i] = c
                  THEN "cleared" ELSE status[c]]
  /\ queue' = [queue EXCEPT ![l] = <<>>]
  /\ UNCHANGED <<gatewayDraining, nextTaskId, activeTaskIds, maxConcurrent,
                 draining, generation, task, stack, waiter>>

MarkGatewayDraining ==
  /\ NewTurn
  /\ gatewayDraining' = TRUE
  /\ UNCHANGED <<nextTaskId, queue, activeTaskIds, maxConcurrent, draining,
                 generation, status, task, stack, waiter>>

ResetSameGeneration ==                                                     \* faulty
  /\ NewTurn
  /\ gatewayDraining' = FALSE
  /\ activeTaskIds' = [l \in Lanes |-> {}]
  /\ draining' = [l \in Lanes |-> FALSE]
  /\ stack' = <<ResetFrame({l \in Lanes : queue[l] # <<>>})>>
  /\ UNCHANGED <<nextTaskId, queue, maxConcurrent, generation, status, task, waiter>>

ResetAllLanes ==
  /\ NewTurn
  /\ \A l \in Lanes : generation[l] < MaxResets
  /\ gatewayDraining' = FALSE
  /\ generation' = [l \in Lanes |-> generation[l] + 1]
  /\ activeTaskIds' = [l \in Lanes |-> {}]
  /\ draining' = [l \in Lanes |-> FALSE]
  /\ stack' = <<ResetFrame({l \in Lanes : queue[l] # <<>>})>>
  /\ UNCHANGED <<nextTaskId, queue, maxConcurrent, status, task, waiter>>

ActiveTasks == UNION {activeTaskIds[l] : l \in Lanes}

\* waitForActiveTasks remembers the tasks active now and polls: the first
\* look is immediate, later ones are timer turns.
WaitForActiveTasks ==
  /\ NewTurn
  /\ waiter.state # "polling"
  /\ waiter' = [state |-> IF ActiveTasks = {} THEN "drained" ELSE "polling",
                snapshot |-> ActiveTasks]
  /\ UNCHANGED <<laneVars, status, task, stack>>

SomeEnded == ~(waiter.snapshot \subseteq ActiveTasks)                      \* faulty
AllEnded == waiter.snapshot \cap ActiveTasks = {}

\* One look of the poll; the deadline counts only while a task is pending.
WaitCheck ==
  /\ NewTurn
  /\ waiter.state = "polling"
  /\ waiter' = [waiter EXCEPT !.state =
                  IF AllEnded THEN "drained" ELSE "timeout"]
  /\ UNCHANGED <<laneVars, status, task, stack>>

Next ==
  \/ Turn
  \/ \E c \in Commands : Enqueue(c) \/ Finish(c) \/ Abandon(c)
  \/ \E l \in Lanes : ClearCommandLane(l)
  \/ \E l \in Lanes, n \in 0..MaxLimit : SetCommandLaneConcurrency(l, n)
  \/ MarkGatewayDraining \/ ResetAllLanes
  \/ WaitForActiveTasks \/ WaitCheck

\* A turn in progress runs to its end.  The event loop gives every callback
\* that stays ready its turn, however many others come before it (strong
\* fairness, because a callback must wait while another turn runs): a task of
\* the current generation ends (agent runs carry a timeout; one from before a
\* restart may never) and a running task submits its child; that a timeout cuts
\* a task short is not counted on.  Commands are finitely many and each ends once, so fairness to some command is fairness
\* to each.
Fairness ==
  /\ WF_vars(Turn)
  /\ SF_vars(\E c \in Commands : Finish(c) /\ task[c].gen = generation[LaneOf[c]])
  /\ SF_vars(\E p \in Commands : Child[p] # NoCommand /\ Enqueue(Child[p]))

Spec == Init /\ [][Next]_vars /\ Fairness

-----------------------------------------------------------------------------
\* The commands that run in lane l and that no restart has disowned.
InFlight(l) ==
  {c \in Commands : LaneOf[c] = l /\ status[c] = "running" /\ task[c].gen = generation[l]}

(* The slots taken in a lane are exactly those of its tasks in flight: no   *)
(* slot leaks when a task ends or a restart disowns it, and no late         *)
(* completion gives back a slot of another task.                            *)
SlotAccounting ==
  \A l \in Lanes : activeTaskIds[l] = {task[c].id : c \in InFlight(l)}

(* No lost wake-up: whenever control returns to the event loop, no drain    *)
(* flag is left up and every lane is empty or full, whatever re-entered     *)
(* drainLane within the turn.                                               *)
Quiescent == NewTurn => \A l \in Lanes : ~draining[l] /\ ~CanStart(l)

(* A command gets in flight only within the lane's limit of that moment,    *)
(* although the limit may be lowered below what is already in flight and a  *)
(* restart hands every slot out again.                                      *)
StartsWithinLimit ==
  [][\A l \in Lanes : InFlight(l)' \subseteq InFlight(l)
                         \/ Cardinality(InFlight(l)') <= maxConcurrent'[l]]_vars

(* waitForActiveTasks answers `drained' only when every task it found       *)
(* active has ended or was disowned by a restart since.                     *)
DrainedIsTrue ==
  waiter.state = "drained" =>
    \A l \in Lanes : \A c \in InFlight(l) : task[c].id \notin waiter.snapshot

(* A command that waits does not wait for ever: it starts or is cleared,    *)
(* even if a task from before a restart never ends.                         *)
NoneStarves == \A c \in Commands : status[c] = "queued" ~> status[c] # "queued"

(* Why these hold: the inductive invariant.  A lane's queue lists each      *)
(* waiting command of the lane once; ids are not reused; and work a lane    *)
(* could start is always ahead of some call on the stack.                   *)
ListsWaiting(l) ==
  /\ \A i \in DOMAIN queue[l] : LaneOf[queue[l][i]] = l /\ status[queue[l][i]] = "queued"
  /\ \A i, j \in DOMAIN queue[l] : queue[l][i] = queue[l][j] => i = j
QueueLists == \A l \in Lanes : ListsWaiting(l)

IdsAreFresh ==
  /\ \A c \in Commands : task[c].id < nextTaskId
  /\ \A c \in Commands : status[c] = "running" => task[c].id # 0
  /\ \A c, d \in Commands : task[c].id = task[d].id /\ task[c].id # 0 => c = d
  /\ \A l \in Lanes : \A c \in Commands : LaneOf[c] = l => task[c].gen <= generation[l]
  /\ \A id \in waiter.snapshot : id < nextTaskId

OnStack(f) == \E i \in DOMAIN stack : stack[i] = f

WakeupAhead ==
  \A l \in Lanes :
    /\ draining[l] => OnStack(PumpFrame(l))
    /\ CanStart(l) => \/ OnStack(DrainFrame(l)) \/ OnStack(PumpFrame(l))
                      \/ \E S \in SUBSET Lanes : l \in S /\ OnStack(ResetFrame(S))

Inductive == QueueLists /\ IdsAreFresh /\ SlotAccounting /\ WakeupAhead /\ DrainedIsTrue

(* The queue keeps the contract of LaneContract: ids, generations, drain    *)
(* flags and the re-entrant calls are hidden.                               *)
Contract == INSTANCE LaneContract WITH
  line <- queue, holders <- [l \in Lanes |-> InFlight(l)], limit <- maxConcurrent,
  open <- ~gatewayDraining, fate <- status

KeepsContract == Contract!Spec
StartsAsPromised == Contract!Safety
=============================================================================
