---------------------------- MODULE EmbeddedRuns ----------------------------
(***************************************************************************)
(* How agent runs use the command queue.  runEmbeddedPiAgent queues in the *)
(* lane of the run's session and, from inside that task, in a lane shared  *)
(* by all sessions; the body of the run holds both slots.  A cron run      *)
(* requested by hand first waits in the cron lane and starts its agent run *)
(* from there, so it holds three.  Which shared lane a run takes decides   *)
(* whether the nesting can deadlock.  (A definition marked `faulty' is the *)
(* next one with a plausible bug; the README says what refutes it.)        *)
(***************************************************************************)
EXTENDS CommandQueue

CONSTANTS
  Runs,           \* agent runs
  SessionKey,     \* SessionKey[r]: the session of run r
  RequestedLane   \* RequestedLane[r]: the lane its caller asks for

ASSUME RequestAssumption ==
  RequestedLane \in [Runs -> {"main", "subagent", "nested", "cron"}]

-----------------------------------------------------------------------------
(* Lanes.                                                                  *)

ResolveSessionLane(key) == <<"session", key>>
SharedLane(name) == <<"shared", name>>

\* The cron runner never asks for the cron lane it holds already.
ResolveNestedAgentLane(name) == IF name = "cron" THEN "nested" ELSE name

\* And an agent run that is asked for the cron lane does not take it.
ResolveGlobalLane(name) == IF name = "cron" THEN "nested" ELSE name

BodyLaneAsRequested(r) == SharedLane(RequestedLane[r])                     \* faulty
BodyLane(r) ==
  SharedLane(ResolveGlobalLane(ResolveNestedAgentLane(RequestedLane[r])))

SessionLane(r) == ResolveSessionLane(SessionKey[r])
RunLanes == {SessionLane(r) : r \in Runs}
              \cup {SharedLane(n) : n \in {"main", "subagent", "nested", "cron"}}

\* The lanes whose concurrency the gateway configures; the others keep one slot.
EveryLaneConfigured == RunLanes                                            \* faulty
ConfiguredLanes == {SharedLane(n) : n \in {"main", "subagent", "cron"}}

-----------------------------------------------------------------------------
(* The commands of a run: its cron task, session task and body, the outer  *)
(* one submitting the next.                                                *)

CronTask(r)    == <<r, "cron">>
SessionTask(r) == <<r, "session">>
Body(r)        == <<r, "body">>

ViaCron == {r \in Runs : RequestedLane[r] = "cron"}
RunCommands == {CronTask(r) : r \in ViaCron}
                 \cup {SessionTask(r) : r \in Runs} \cup {Body(r) : r \in Runs}

RunLaneOf ==
  [c \in RunCommands |-> CASE c[2] = "cron"    -> SharedLane("cron")
                           [] c[2] = "session" -> SessionLane(c[1])
                           [] c[2] = "body"    -> BodyLane(c[1])]

NoRun == <<"none", "none">>
RunChild ==
  [c \in RunCommands |-> CASE c[2] = "cron"    -> SessionTask(c[1])
                           [] c[2] = "session" -> Body(c[1])
                           [] c[2] = "body"    -> NoRun]

\* A session task submits its body at once and returns its promise; a cron task
\* first prepares its job, across several awaits, and ends at the job's timeout
\* if the agent run, queued or running, has not ended by then.
SessionTasks == {SessionTask(r) : r \in Runs}
CronTasks == {CronTask(r) : r \in ViaCron}

\* The command queue is given these lanes and commands.
ASSUME NestingAssumption ==
  /\ Lanes = RunLanes /\ Commands = RunCommands /\ LaneOf = RunLaneOf
  /\ Child = RunChild /\ NoCommand = NoRun /\ SyncParents = SessionTasks
  /\ RacedTasks = CronTasks

\* Session lanes are cleared by an interrupting or aborting user; the shared
\* ones are configured at start and at every configuration reload.
ClearSessionQueue(r) == ClearCommandLane(SessionLane(r))

ApplyGatewayLaneConcurrency ==
  \E l \in ConfiguredLanes, n \in 1..MaxLimit :
    /\ maxConcurrent[l] # n
    /\ SetCommandLaneConcurrency(l, n)

RunsNext ==
  \/ Turn
  \/ \E c \in Commands : Enqueue(c) \/ Finish(c) \/ Abandon(c)
  \/ \E r \in Runs : ClearSessionQueue(r)
  \/ ApplyGatewayLaneConcurrency
  \/ MarkGatewayDraining \/ ResetAllLanes

RunsSpec == Init /\ [][RunsNext]_vars /\ Fairness

-----------------------------------------------------------------------------
Holds(c) == c \in InFlight(LaneOf[c])
InBody(r) == Holds(SessionTask(r)) /\ Holds(Body(r))
Interrupted(c) == status[c] = "running" /\ ~Holds(c)

(* Runs of one session never overlap, whichever shared lanes their bodies   *)
(* take, as long as no restart takes the session's slot from a run whose    *)
(* body still waits in a shared lane (see the README).                      *)
OneRunPerSession ==
  \A r, s \in Runs : InBody(r) /\ InBody(s) /\ SessionKey[r] = SessionKey[s] => r = s

(* The body of a run, waiting or running, never outlives the session task   *)
(* it came from, through clears, drains, restarts and a cron task that      *)
(* timed out above them: as long as there is work of a run its session's    *)
(* slot is taken, unless a restart disowned it.  A cron task is the         *)
(* exception: at its timeout its run goes on without it.                    *)
OuterOutlivesInner ==
  \A c \in Commands :
    status[c] \in {"queued", "running"} =>
      \A p \in Commands \ RacedTasks : Child[p] = c => status[p] = "running"

(* Nobody waits for everybody: whenever a command waits, some command that  *)
(* holds a slot can end or submit its child without another command's help, *)
(* whatever the limits are and whichever slots the runs hold meanwhile; no  *)
(* task that a restart disowned is counted on, and no timeout.              *)
CanMove(c) ==
  \/ Endings(c) # {}
  \/ Child[c] # NoCommand /\ status[Child[c]] = "new" /\ Submittable(Child[c])

SomeoneCanMove ==
  NewTurn /\ (\E c \in Commands : status[c] = "queued") =>
    \E c \in Commands : Holds(c) /\ CanMove(c)

(* The nesting of lanes cannot deadlock: a command of a run that got into   *)
(* its queue ends or is interrupted by a restart, whatever other runs hold; *)
(* the agent run of a cron task that gave up on it included.                *)
EveryRunEnds ==
  \A c \in Commands : status[c] = "queued" ~> status[c] \in Settled \/ Interrupted(c)

-----------------------------------------------------------------------------
(* Why the safety properties hold: what is nested in what, beside the       *)
(* command queue's own invariant.                                           *)

\* A session lane keeps its one slot.
SessionsAreNarrow ==
  \A r \in Runs :
    /\ maxConcurrent[SessionLane(r)] = 1
    /\ \A c, d \in InFlight(SessionLane(r)) : c = d

\* A command whose promise is unsettled is in its lane's queue, or started.
WaitsInLine ==
  \A c \in Commands : status[c] = "queued" =>
    \E i \in DOMAIN queue[LaneOf[c]] : queue[LaneOf[c]][i] = c

\* A task before its first await runs; a session task past it has submitted
\* its body.
PrefixesRun ==
  /\ \A c \in Commands : OnStack(TaskFrame(c)) => status[c] = "running"
  /\ \A c \in SyncParents : status[c] = "running" =>
       status[Child[c]] # "new" \/ OnStack(TaskFrame(c))

\* An inner command is submitted by its outer one when that has started.
OuterCameFirst ==
  \A p \in Commands : Child[p] # NoCommand /\ status[Child[p]] # "new" =>
    status[p] \notin {"new", "queued"}

\* An inner command is of no earlier generation than its outer one, and a
\* restart reaches all lanes at once.
SameGeneration ==
  /\ \A l, m \in Lanes : generation[l] = generation[m]
  /\ \A p \in Commands : Child[p] # NoCommand
       /\ status[p] = "running" /\ status[Child[p]] = "running" =>
         task[p].gen <= task[Child[p]].gen

Nesting ==
  /\ SessionsAreNarrow /\ WaitsInLine /\ PrefixesRun /\ SameGeneration
  /\ OuterCameFirst /\ OuterOutlivesInner
=============================================================================
