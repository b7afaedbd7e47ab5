--------------------------- MODULE GatewayRestart ---------------------------
(***************************************************************************)
(* The life of the gateway process: the loop that starts the server and    *)
(* waits for the next in-process restart (src/cli/gateway-cli/run-loop.ts),*)
(* the shutdown that a signal begins beside it, and the scheduler that     *)
(* turns requests into restart signals (src/infra/restart.ts).             *)
(*                                                                         *)
(* The loop and the shutdown are two asynchronous functions that share     *)
(* server, lock and shuttingDown; each action below runs from one await to *)
(* the next.  Abstracted: clocks (a timer fires when it may; the cooldown  *)
(* is on or off), the work a drain waits for (it ends, or its 90 s pass),  *)
(* and the cycle tokens of restart.ts: in the gateway a signal is emitted  *)
(* and consumed within one call, so they never hold back a request.        *)
(*                                                                         *)
(* A definition marked `faulty' is the next one with a plausible bug; the  *)
(* README says which property refutes it.                                  *)
(***************************************************************************)
EXTENDS Naturals

CONSTANTS
  MaxPolls,        \* bound: deferred restarts waiting for idleness
  Addresses        \* how many addresses the configuration may tell servers to
                   \* listen at; two servers never listen at the same one

ASSUME PollAssumption == MaxPolls \in Nat
ASSUME AddressAssumption == Addresses \in Nat

VARIABLES
  loop,             \* the main loop: starting the server, releasing the lock
                    \* after a failed start, waiting for a restart, or ended
  isFirstStart,     \* no server has started yet
  server,           \* the loop's server is set
  open,             \* servers that listen, those nobody refers to included
  lock,             \* this process holds the gateway lock
  resolver,         \* the loop awaits the resolver's promise
  shuttingDown,     \* a shutdown is in progress
  request,          \* the shutdown: what it is for, where it is
  gatewayDraining,  \* the command queue refuses new commands
  exitCode,         \* how the process ended
  timer,            \* a scheduled restart waits for its timer
  polls,            \* deferred restarts that poll for idleness
  cooling,          \* the last restart was emitted less than 30 s ago
  asked,            \* history: a restart was requested of the waiting gateway
  overlapped,       \* history: a restart began while the server was starting
  unclosed          \* history: servers whose close() failed: they still listen

loopVars   == <<loop, isFirstStart, open, resolver>>
signalVars == <<timer, polls, cooling>>
history    == <<asked, overlapped, unclosed>>
vars == <<loopVars, server, lock, shuttingDown, request, gatewayDraining,
          exitCode, signalVars, history>>

Alive == loop # "ended"
NoRequest == [action |-> "none", at |-> "none"]

Flags ==
  /\ isFirstStart \in BOOLEAN /\ server \in BOOLEAN /\ lock \in BOOLEAN
  /\ resolver \in BOOLEAN /\ shuttingDown \in BOOLEAN /\ gatewayDraining \in BOOLEAN
  /\ timer \in BOOLEAN /\ cooling \in BOOLEAN
  /\ asked \in BOOLEAN /\ overlapped \in BOOLEAN

Requests ==
  [action : {"stop", "restart"},
   at : {"draining", "closing", "releasing", "unlocked", "reacquiring"}] \cup {NoRequest}

TypeOK ==
  /\ loop \in {"starting", "releasing", "waiting", "throwing", "ended"}
  /\ open \in 0..Addresses /\ unclosed \in Nat /\ polls \in 0..MaxPolls
  /\ request \in Requests
  /\ exitCode \in {"none", "planned", "failed"}
  /\ Flags

Init ==
  /\ loop = "starting"
  /\ isFirstStart = TRUE
  /\ server = FALSE /\ open = 0
  /\ lock = TRUE
  /\ resolver = FALSE
  /\ shuttingDown = FALSE /\ request = NoRequest
  /\ gatewayDraining = FALSE
  /\ exitCode = "none"
  /\ timer = FALSE /\ polls = 0 /\ cooling = FALSE
  /\ asked = FALSE /\ overlapped = FALSE /\ unclosed = 0

-----------------------------------------------------------------------------
(* The main loop.                                                          *)

Wait == loop' = "waiting" /\ resolver' = TRUE

\* A close() that failed leaves its server listening, and nothing closes it
\* again.
LeavesServer(openAfter) == open' = openAfter /\ unclosed' = unclosed + 1

\* params.start() resolved: it could listen.  Another server of this process
\* that still does hinders it only at its own address.
StartSucceeds ==
  /\ loop = "starting"
  /\ open < Addresses
  /\ server' = TRUE /\ open' = open + 1
  /\ isFirstStart' = FALSE
  /\ Wait
  /\ UNCHANGED <<lock, shuttingDown, request, gatewayDraining, exitCode, signalVars, history>>

\* It was rejected: the first time this ends the process, later the process
\* stays, without the lock.  A start that fails late closes what it started,
\* unless that close fails too.
StartFails ==
  /\ loop = "starting"
  /\ \/ UNCHANGED <<open, unclosed>>
     \/ open < Addresses /\ LeavesServer(open + 1)
  /\ IF isFirstStart
     THEN loop' = "throwing" /\ UNCHANGED <<server, resolver>>
     ELSE /\ server' = FALSE
          /\ IF lock THEN loop' = "releasing" /\ UNCHANGED resolver ELSE Wait
  /\ UNCHANGED <<isFirstStart, lock, shuttingDown, request, gatewayDraining, exitCode,
                 signalVars, asked, overlapped>>

ReleaseAfterFailure ==
  /\ loop = "releasing"
  /\ lock' = FALSE
  /\ Wait
  /\ UNCHANGED <<isFirstStart, server, open, shuttingDown, request, gatewayDraining,
                 exitCode, signalVars, history>>

\* process.exit: nothing runs after it.
Exit(code) ==
  /\ loop' = "ended" /\ exitCode' = code
  /\ server' = FALSE /\ open' = 0 /\ unclosed' = 0
  /\ request' = NoRequest
  /\ UNCHANGED <<isFirstStart, resolver, shuttingDown, gatewayDraining, signalVars,
                 asked, overlapped>>

Throw == loop = "throwing" /\ lock' = FALSE /\ Exit("failed")

-----------------------------------------------------------------------------
(* The shutdown.                                                           *)

\* Where it awaits next: steps with nothing to do are not waited for.
ReleaseSkipped == "unlocked"                                               \* faulty
Release == IF lock THEN "releasing" ELSE "unlocked"
Close == IF server THEN "closing" ELSE Release

\* request: ignored during a shutdown.  A restart closes the queue and drains
\* it if work is active.
Request(action) ==
  IF shuttingDown
  THEN UNCHANGED <<shuttingDown, request, gatewayDraining, overlapped>>
  ELSE /\ shuttingDown' = TRUE
       /\ gatewayDraining' = (gatewayDraining \/ (action = "restart"))
       /\ overlapped' = (overlapped \/ (action = "restart" /\ loop # "waiting"))
       /\ \E at \in {Close} \cup (IF action = "restart" THEN {"draining"} ELSE {}) :
            request' = [action |-> action, at |-> at]

\* The active work ended or its time is up.
DrainEnds ==
  /\ request.at = "draining"
  /\ request' = [request EXCEPT !.at = Close]
  /\ UNCHANGED <<loopVars, server, lock, shuttingDown, gatewayDraining, exitCode,
                 signalVars, history>>

CloseEndsServerKept ==                                                     \* faulty
  /\ request.at = "closing"
  /\ open' = open - 1
  /\ request' = [request EXCEPT !.at = Release]
  /\ UNCHANGED <<loop, isFirstStart, server, resolver, lock, shuttingDown,
                 gatewayDraining, exitCode, signalVars, history>>

\* server.close() came back, or was rejected half way: an error in it is logged
\* and the server forgotten all the same.
CloseReturns ==
  /\ request.at = "closing"
  /\ server' = FALSE
  /\ request' = [request EXCEPT !.at = Release]
  /\ UNCHANGED <<loop, isFirstStart, resolver, lock, shuttingDown, gatewayDraining,
                 exitCode, signalVars, asked, overlapped>>

CloseEnds == CloseReturns /\ open' = open - 1 /\ UNCHANGED unclosed
CloseFails == CloseReturns /\ LeavesServer(open)

\* It did not: the forced exit.
ForceExitOnRestart ==                                                      \* faulty
  request.at = "closing" /\ request.action = "restart" /\ Exit("failed") /\ UNCHANGED lock
ForceExit == request.at = "closing" /\ Exit("failed") /\ UNCHANGED lock

\* The end of an in-process restart.  The resolver starts the next iteration
\* of the loop, which resets the lanes of the command queue first; it does
\* nothing while the loop is elsewhere.
ResumeLanesKept ==                                                         \* faulty
  /\ shuttingDown' = FALSE
  /\ request' = NoRequest
  /\ IF resolver THEN loop' = "starting" /\ resolver' = FALSE /\ asked' = FALSE
                 ELSE UNCHANGED <<loop, resolver, asked>>
  /\ UNCHANGED <<isFirstStart, server, open, gatewayDraining, exitCode, signalVars,
                 overlapped, unclosed>>

ResumeUnresolved ==                                                        \* faulty
  /\ shuttingDown' = FALSE
  /\ request' = NoRequest
  /\ UNCHANGED <<loopVars, server, gatewayDraining, exitCode, signalVars, history>>

Resume ==
  /\ shuttingDown' = FALSE
  /\ request' = NoRequest
  /\ IF resolver
     THEN /\ loop' = "starting" /\ resolver' = FALSE
          /\ gatewayDraining' = FALSE
          /\ asked' = FALSE
     ELSE UNCHANGED <<loop, resolver, gatewayDraining, asked>>
  /\ UNCHANGED <<isFirstStart, server, open, exitCode, signalVars, overlapped, unclosed>>

\* The lock is free: the process ends, or, when no other process could be
\* started in its place, takes the lock it had again.
AfterRelease(hadLock) ==
  \/ Exit("planned")
  \/ /\ request.action = "restart"
     /\ IF hadLock
        THEN /\ request' = [request EXCEPT !.at = "reacquiring"]
             /\ UNCHANGED <<loopVars, server, shuttingDown, gatewayDraining, exitCode,
                            signalVars, history>>
        ELSE Resume

ReleaseEnds == request.at = "releasing" /\ lock' = FALSE /\ AfterRelease(TRUE)
NothingReleased == request.at = "unlocked" /\ UNCHANGED lock /\ AfterRelease(FALSE)

Reacquired == request.at = "reacquiring" /\ lock' = TRUE /\ Resume
ReacquireFails == request.at = "reacquiring" /\ UNCHANGED lock /\ Exit("failed")

-----------------------------------------------------------------------------
(* Signals and the restart scheduler.                                      *)

\* SIGTERM or SIGINT.
Stop ==
  /\ Alive
  /\ Request("stop")
  /\ UNCHANGED <<loopVars, server, lock, exitCode, signalVars, asked,
                 unclosed>>

\* scheduleGatewaySigusr1Restart, also for a SIGUSR1 from outside that the
\* configuration allows: one timer at most, others coalesce with it.
Schedule ==
  /\ Alive
  /\ timer' = TRUE
  /\ asked' = (asked \/ (loop = "waiting" /\ ~shuttingDown))
  /\ UNCHANGED <<loopVars, server, lock, shuttingDown, request, gatewayDraining,
                 exitCode, polls, cooling, overlapped, unclosed>>

EmitUnlessCooling ==                                                       \* faulty
  /\ timer' = FALSE
  /\ IF cooling
     THEN UNCHANGED <<cooling, shuttingDown, request, gatewayDraining, overlapped>>
     ELSE cooling' = TRUE /\ Request("restart")
  /\ UNCHANGED <<loopVars, server, lock, exitCode, asked, unclosed>>

\* emitGatewayRestart, and onSigusr1, which it calls: an authorised restart.
EmitGatewayRestart ==
  /\ timer' = FALSE
  /\ cooling' = TRUE
  /\ Request("restart")
  /\ UNCHANGED <<loopVars, server, lock, exitCode, asked, unclosed>>

\* deferGatewayRestartUntilIdle: at once when nothing is pending, or a poll.
Defer(timerAfter) ==
  \/ EmitGatewayRestart /\ UNCHANGED polls
  \/ /\ polls < MaxPolls
     /\ polls' = polls + 1
     /\ timer' = timerAfter
     /\ UNCHANGED <<loopVars, server, lock, shuttingDown, request, gatewayDraining,
                    exitCode, cooling, history>>

\* The timer was set to end no earlier than the cooldown.
TimerFires == Alive /\ timer /\ ~cooling /\ Defer(FALSE)

\* The work ended, or the poll waited long enough.
PollEnds ==
  /\ Alive /\ polls > 0
  /\ polls' = polls - 1
  /\ EmitGatewayRestart

\* The configuration watcher asks for a restart without the scheduler.
RequestGatewayRestart == Alive /\ server /\ Defer(timer)

CooldownEnds ==
  /\ Alive /\ cooling
  /\ cooling' = FALSE
  /\ UNCHANGED <<loopVars, server, lock, shuttingDown, request, gatewayDraining,
                 exitCode, timer, polls, history>>

Loop == StartSucceeds \/ StartFails \/ ReleaseAfterFailure \/ Throw
ShutdownTimed ==
  \/ DrainEnds \/ ForceExit
  \/ ReleaseEnds \/ NothingReleased \/ Reacquired \/ ReacquireFails

Next ==
  \/ Loop \/ CloseEnds \/ CloseFails \/ ShutdownTimed
  \/ Stop \/ Schedule \/ TimerFires \/ PollEnds \/ RequestGatewayRestart \/ CooldownEnds

\* Starting the server and file operations come back or fail; a drain and a
\* close are timed, so that close() itself may never return; the timer, the
\* polls and the cooldown are timers.
Spec ==
  /\ Init /\ [][Next]_vars
  /\ WF_vars(Loop) /\ WF_vars(ShutdownTimed)
  /\ WF_vars(TimerFires) /\ WF_vars(PollEnds) /\ WF_vars(CooldownEnds)

-----------------------------------------------------------------------------
Serving == loop = "waiting" /\ server /\ ~shuttingDown

(* A restart that a waiting gateway is asked for is carried out: a new      *)
(* iteration starts or the process makes way for another, through           *)
(* coalescing, cooldown, deferral, other restarts and stops.                *)
RestartIsServed == asked ~> (~asked \/ ~Alive)

(* And until then something is always under way that carries it out: its    *)
(* timer, a poll, or a shutdown that found the loop waiting; timers that    *)
(* coalesce, polls that overtake each other and emissions that are ignored  *)
(* during a shutdown drop none.                                             *)
RequestIsAhead ==
  asked /\ Alive => /\ loop = "waiting" /\ resolver
                    /\ timer \/ polls > 0 \/ shuttingDown

(* A stop that is accepted ends the process, even if close() never returns. *)
StopEnds == request.action = "stop" ~> ~Alive

(* A process that ends as planned has given the lock back before: the one   *)
(* that replaces it can take it.                                            *)
PlannedExitFreesLock == exitCode = "planned" => ~lock

(* As long as no restart begins while the server is still starting, a       *)
(* gateway that serves accepts commands, and every server it ever started   *)
(* is closed before the next one starts, but for those whose own close()    *)
(* failed: these, and no others, listen beside the one that serves.         *)
OneCleanServer ==
  ~overlapped => /\ Serving => ~gatewayDraining /\ open = unclosed + 1
                 /\ loop = "starting" => open = unclosed

(* Why these two hold: the inductive invariant.                             *)
InOrder ==
  /\ ~Alive => request = NoRequest
  /\ exitCode # "none" => ~Alive
  /\ request.at = "unlocked" => ~lock
  /\ request.at = "reacquiring" => request.action = "restart"
  /\ unclosed <= open
  /\ server \/ request.at = "closing" => unclosed < open
  /\ PlannedExitFreesLock

InStep ==
  /\ open = unclosed + IF server THEN 1 ELSE 0
  /\ server => loop = "waiting"
  /\ resolver <=> loop = "waiting"
  /\ shuttingDown <=> request # NoRequest
  /\ gatewayDraining => request.action = "restart"
  /\ request.action = "restart" => loop = "waiting"
  /\ request.at = "closing" => server
  /\ request.action = "restart" /\ request.at \notin {"draining", "closing"} => ~server

Inductive == InOrder /\ (~overlapped /\ Alive => InStep)

(* What the code says, and does not do.  Commands are rejected during the   *)
(* drain window of a restart, so a gateway that serves accepts them.        *)
AcceptsWhenServing == Serving => ~gatewayDraining
=============================================================================
