------------------------ MODULE GatewayRestartProofs ------------------------
(***************************************************************************)
(* Proofs about the gateway's life, for any number of deferred restarts.   *)
(***************************************************************************)
EXTENDS GatewayRestart, TLAPS

LEMMA InitHolds == Init => TypeOK /\ Inductive
<1> SUFFICES ASSUME Init PROVE TypeOK /\ Inductive
  OBVIOUS
<1>1. Flags
  BY DEF Init, Flags
<1>2. request \in Requests
  BY DEF Init, Requests
<1>3. TypeOK
  BY <1>1, <1>2, PollAssumption, AddressAssumption DEF Init, TypeOK
<1>4. InOrder
  BY DEF Init, InOrder, PlannedExitFreesLock, NoRequest, Alive
<1>5. InStep
  BY DEF Init, InStep, NoRequest
<1> QED
  BY <1>3, <1>4, <1>5 DEF Inductive

\* The three steps that may fire from a signal, a timer or a caller.
LEMMA EmitKeeps ==
  ASSUME TypeOK, Inductive, Alive, EmitGatewayRestart, polls' \in 0..MaxPolls
  PROVE  TypeOK' /\ Inductive'
<1> USE DEF EmitGatewayRestart, Request, Close, Release, loopVars, signalVars, history
<1>0. PICK at \in {"closing", "releasing", "unlocked", "draining"} :
        \/ shuttingDown /\ UNCHANGED <<shuttingDown, request, gatewayDraining, overlapped>>
        \/ /\ ~shuttingDown
           /\ request' = [action |-> "restart", at |-> at]
           /\ at \in {Close, "draining"}
           /\ shuttingDown' = TRUE
           /\ gatewayDraining' = TRUE
           /\ overlapped' = (overlapped \/ loop # "waiting")
  BY DEF TypeOK, Flags
<1>1. request' \in Requests
  BY <1>0 DEF TypeOK, Requests
<1>2. Flags'
  BY <1>0 DEF TypeOK, Flags
<1>3. TypeOK'
  BY <1>1, <1>2 DEF TypeOK
<1>4. InOrder'
  BY <1>0 DEF TypeOK, Inductive, InOrder, PlannedExitFreesLock, NoRequest, Alive
<1>5. ~overlapped' => InStep'
  BY <1>0 DEF TypeOK, Flags, Inductive, InStep, NoRequest, Alive
<1> QED
  BY <1>3, <1>4, <1>5 DEF Inductive

\* The main loop.
LEMMA LoopKeeps == ASSUME TypeOK, Inductive, Loop PROVE TypeOK' /\ Inductive'
<1> USE AddressAssumption DEF loopVars, signalVars, history, Wait, Exit, LeavesServer
<1>1. CASE StartSucceeds
  <2>1. Flags'
    BY <1>1 DEF StartSucceeds, TypeOK, Flags
  <2>2. TypeOK'
    BY <1>1, <2>1 DEF StartSucceeds, TypeOK
  <2>3. InOrder'
    BY <1>1 DEF StartSucceeds, TypeOK, Inductive, InOrder, PlannedExitFreesLock, Alive
  <2>4. ~overlapped' => InStep'
    BY <1>1 DEF StartSucceeds, TypeOK, Flags, Inductive, InStep, Alive
  <2> QED
    BY <2>2, <2>3, <2>4 DEF Inductive
<1>2. CASE StartFails
  <2>1. Flags'
    BY <1>2 DEF StartFails, TypeOK, Flags
  <2>2. TypeOK'
    BY <1>2, <2>1 DEF StartFails, TypeOK
  <2>3. InOrder'
    BY <1>2 DEF StartFails, TypeOK, Inductive, InOrder, PlannedExitFreesLock, Alive
  <2>4. ~overlapped' => InStep'
    BY <1>2 DEF StartFails, TypeOK, Flags, Inductive, InStep, Alive
  <2> QED
    BY <2>2, <2>3, <2>4 DEF Inductive
<1>3. CASE ReleaseAfterFailure
  <2>1. Flags'
    BY <1>3 DEF ReleaseAfterFailure, TypeOK, Flags
  <2>2. TypeOK'
    BY <1>3, <2>1 DEF ReleaseAfterFailure, TypeOK
  <2>3. InOrder'
    BY <1>3 DEF ReleaseAfterFailure, TypeOK, Inductive, InOrder, PlannedExitFreesLock, Alive
  <2>4. ~overlapped' => InStep'
    BY <1>3 DEF ReleaseAfterFailure, TypeOK, Flags, Inductive, InStep, Alive
  <2> QED
    BY <2>2, <2>3, <2>4 DEF Inductive
<1>4. CASE Throw
  <2>1. Flags' /\ request' \in Requests
    BY <1>4 DEF Throw, TypeOK, Flags, Requests
  <2>2. TypeOK'
    BY <1>4, <2>1 DEF Throw, TypeOK
  <2>3. InOrder' /\ ~Alive'
    BY <1>4 DEF Throw, TypeOK, InOrder, PlannedExitFreesLock, Alive, NoRequest
  <2> QED
    BY <2>2, <2>3 DEF Inductive
<1> QED
  BY <1>1, <1>2, <1>3, <1>4 DEF Loop

\* The ends of the process the shutdown may choose.
LEMMA ExitKeeps ==
  ASSUME TypeOK, Inductive, NEW code \in {"planned", "failed"}, Exit(code),
         lock' \in BOOLEAN, code = "planned" => ~lock'
  PROVE  TypeOK' /\ Inductive'
<1>1. Flags' /\ request' \in Requests
  BY DEF Exit, TypeOK, Flags, Requests, signalVars, history
<1>2. TypeOK'
  BY <1>1, AddressAssumption DEF Exit, TypeOK, signalVars
<1>3. InOrder' /\ ~Alive'
  BY DEF Exit, InOrder, PlannedExitFreesLock, Alive, NoRequest
<1> QED
  BY <1>2, <1>3 DEF Inductive

\* The end of an in-process restart, whose lock was taken again or never held.
LEMMA ResumeKeeps ==
  ASSUME TypeOK, Inductive, Alive, Resume, lock' \in BOOLEAN,
         request.action = "restart", request.at \in {"unlocked", "reacquiring"}
  PROVE  TypeOK' /\ Inductive'
<1> USE DEF signalVars
<1>1. Flags'
  BY DEF Resume, TypeOK, Flags
<1>2. request' \in Requests
  BY DEF Resume, Requests
<1>3. TypeOK'
  BY <1>1, <1>2 DEF Resume, TypeOK
<1>4. InOrder'
  BY DEF Resume, TypeOK, Inductive, InOrder, PlannedExitFreesLock, NoRequest, Alive
<1>5. ~overlapped' => InStep'
  BY DEF Resume, TypeOK, Flags, Inductive, InStep, NoRequest, Alive
<1> QED
  BY <1>3, <1>4, <1>5 DEF Inductive
\* The steps of a shutdown.
LEMMA ShutdownKeeps ==
  ASSUME TypeOK, Inductive, CloseEnds \/ CloseFails \/ ShutdownTimed
  PROVE  TypeOK' /\ Inductive'
<1>1. ASSUME request.at # "none" PROVE request # NoRequest /\ Alive
  BY <1>1 DEF Inductive, InOrder, NoRequest
<1>2. CASE DrainEnds
  <2> USE DEF loopVars, signalVars, history, Close, Release
  <2>1. Flags' /\ request' \in Requests
    BY <1>1, <1>2 DEF DrainEnds, TypeOK, Flags, Requests, NoRequest
  <2>2. TypeOK'
    BY <1>2, <2>1 DEF DrainEnds, TypeOK
  <2>3. InOrder'
    BY <1>1, <1>2 DEF DrainEnds, TypeOK, Flags, Requests, Inductive, InOrder,
      PlannedExitFreesLock, NoRequest, Alive
  <2>4. ~overlapped' => InStep'
    BY <1>1, <1>2 DEF DrainEnds, TypeOK, Flags, Requests, Inductive, InStep, NoRequest, Alive
  <2> QED
    BY <2>2, <2>3, <2>4 DEF Inductive
<1>3. CASE CloseEnds \/ CloseFails
  <2> USE DEF signalVars, Release, CloseReturns
  <2>1. Flags' /\ request' \in Requests
    BY <1>1, <1>3 DEF CloseEnds, CloseFails, TypeOK, Flags, Requests, NoRequest
  <2>2. unclosed < open
    BY <1>3 DEF CloseEnds, CloseFails, Inductive, InOrder
  <2>3. /\ open' \in 0..Addresses /\ unclosed' \in Nat
        /\ unclosed' <= open' /\ open' + unclosed + 1 = open + unclosed'
    BY <1>3, <2>2, AddressAssumption DEF CloseEnds, CloseFails, LeavesServer, TypeOK
  <2>4. CloseReturns
    BY <1>3 DEF CloseEnds, CloseFails
  <2>5. TypeOK'
    BY <2>1, <2>3, <2>4 DEF TypeOK
  <2>6. InOrder'
    BY <1>1, <2>3, <2>4 DEF TypeOK, Flags, Requests, Inductive, InOrder,
      PlannedExitFreesLock, NoRequest, Alive
  <2>7. ~overlapped' => InStep'
    <3> HAVE ~overlapped'
    <3>1. InStep /\ server
      BY <1>1, <2>4 DEF Inductive, InStep
    <3>2. open = unclosed + 1
      BY <3>1 DEF InStep
    <3>3. open' = unclosed' + IF server' THEN 1 ELSE 0
      BY <2>3, <2>4, <3>2, AddressAssumption DEF TypeOK
    <3> QED
      BY <1>1, <2>1, <2>4, <3>1, <3>3 DEF TypeOK, Flags, Requests, InStep, NoRequest, Alive
  <2> QED
    BY <2>5, <2>6, <2>7 DEF Inductive
<1>4. CASE ForceExit
  BY <1>4, ExitKeeps DEF ForceExit, TypeOK, Flags
<1>5. ASSUME NEW hadLock \in BOOLEAN, AfterRelease(hadLock), lock' = FALSE,
             request.at = IF hadLock THEN "releasing" ELSE "unlocked"
      PROVE  TypeOK' /\ Inductive'
  <2>1. CASE Exit("planned")
    BY <1>5, <2>1, ExitKeeps
  <2>2. CASE request.action = "restart" /\ ~hadLock /\ Resume
    BY <1>1, <1>5, <2>2, ResumeKeeps
  <2>3. CASE /\ request.action = "restart"
             /\ hadLock
             /\ request' = [request EXCEPT !.at = "reacquiring"]
             /\ UNCHANGED <<loopVars, server, shuttingDown, gatewayDraining, exitCode,
                            signalVars, history>>
    <3> USE DEF loopVars, signalVars, history
    <3>1. Flags' /\ request' \in Requests
      BY <1>1, <1>5, <2>3 DEF TypeOK, Flags, Requests, NoRequest
    <3>2. TypeOK'
      BY <2>3, <3>1 DEF TypeOK
    <3>3. InOrder'
      BY <1>1, <1>5, <2>3 DEF TypeOK, Flags, Requests, Inductive, InOrder,
        PlannedExitFreesLock, NoRequest, Alive
    <3>4. ~overlapped' => InStep'
      BY <1>1, <1>5, <2>3 DEF TypeOK, Flags, Requests, Inductive, InStep, NoRequest, Alive
    <3> QED
      BY <3>2, <3>3, <3>4 DEF Inductive
  <2> QED
    BY <1>5, <2>1, <2>2, <2>3 DEF AfterRelease
<1>6. CASE ReleaseEnds
  BY <1>5, <1>6 DEF ReleaseEnds
<1>7. CASE NothingReleased
  <2>1. lock' = FALSE
    BY <1>7 DEF NothingReleased, TypeOK, Flags, Inductive, InOrder
  <2> QED
    BY <1>5, <1>7, <2>1 DEF NothingReleased
<1>8. CASE Reacquired
  <2>1. request.action = "restart"
    BY <1>8 DEF Reacquired, Inductive, InOrder
  <2> QED
    BY <1>1, <1>8, <2>1, ResumeKeeps DEF Reacquired
<1>9. CASE ReacquireFails
  BY <1>9, ExitKeeps DEF ReacquireFails, TypeOK, Flags
<1> QED
  BY <1>2, <1>3, <1>4, <1>6, <1>7, <1>8, <1>9 DEF ShutdownTimed

\* Signals, callers and timers.
LEMMA SignalsKeep ==
  ASSUME TypeOK, Inductive,
         Stop \/ Schedule \/ TimerFires \/ PollEnds \/ RequestGatewayRestart \/ CooldownEnds
  PROVE  TypeOK' /\ Inductive'
<1>1. CASE Stop
  <2> USE DEF Request, Close, Release, loopVars, signalVars
  <2>1. PICK at \in {"closing", "releasing", "unlocked"} :
          \/ shuttingDown /\ UNCHANGED <<shuttingDown, request, gatewayDraining, overlapped>>
          \/ /\ ~shuttingDown
             /\ request' = [action |-> "stop", at |-> at]
             /\ at = Close
             /\ shuttingDown' = TRUE
             /\ UNCHANGED <<gatewayDraining, overlapped>>
    BY <1>1 DEF Stop, TypeOK, Flags
  <2>2. Flags'
    BY <1>1, <2>1 DEF Stop, TypeOK, Flags
  <2>3. request' \in Requests
    BY <2>1 DEF TypeOK, Requests
  <2>4. TypeOK'
    BY <1>1, <2>2, <2>3 DEF Stop, TypeOK
  <2>5. InOrder'
    BY <1>1, <2>1 DEF Stop, TypeOK, Inductive, InOrder, PlannedExitFreesLock, NoRequest, Alive
  <2>6. ~overlapped' => InStep'
    BY <1>1, <2>1 DEF Stop, TypeOK, Flags, Inductive, InStep, NoRequest, Alive
  <2> QED
    BY <2>4, <2>5, <2>6 DEF Inductive
<1>2. ASSUME UNCHANGED <<loopVars, server, lock, shuttingDown, request, gatewayDraining,
                         exitCode, overlapped, unclosed>>,
             Flags', polls' \in 0..MaxPolls
      PROVE  TypeOK' /\ Inductive'
  <2>1. TypeOK'
    BY <1>2 DEF TypeOK, loopVars
  <2>2. Inductive'
    BY <1>2 DEF Inductive, InOrder, PlannedExitFreesLock, InStep, Alive, loopVars
  <2> QED
    BY <2>1, <2>2
<1>3. CASE Schedule
  <2>1. Flags'
    BY <1>3 DEF Schedule, TypeOK, Flags, loopVars
  <2> QED
    BY <1>2, <1>3, <2>1 DEF Schedule, TypeOK
<1>4. CASE CooldownEnds
  <2>1. Flags'
    BY <1>4 DEF CooldownEnds, TypeOK, Flags, loopVars, history
  <2> QED
    BY <1>2, <1>4, <2>1 DEF CooldownEnds, TypeOK, history
<1>5. ASSUME NEW t \in BOOLEAN, Alive, Defer(t) PROVE TypeOK' /\ Inductive'
  <2>1. CASE EmitGatewayRestart /\ UNCHANGED polls
    BY <1>5, <2>1, EmitKeeps DEF TypeOK
  <2>2. CASE /\ polls < MaxPolls
             /\ polls' = polls + 1
             /\ timer' = t
             /\ UNCHANGED <<loopVars, server, lock, shuttingDown, request, gatewayDraining,
                            exitCode, cooling, history>>
    <3>1. Flags'
      BY <1>5, <2>2 DEF TypeOK, Flags, loopVars, history
    <3>2. polls' \in 0..MaxPolls
      BY <2>2, PollAssumption DEF TypeOK
    <3> QED
      BY <1>2, <2>2, <3>1, <3>2 DEF history
  <2> QED
    BY <1>5, <2>1, <2>2 DEF Defer
<1>6. CASE TimerFires
  BY <1>5, <1>6 DEF TimerFires
<1>7. CASE PollEnds
  <2>1. polls' \in 0..MaxPolls
    BY <1>7, PollAssumption DEF PollEnds, TypeOK
  <2> QED
    BY <1>7, <2>1, EmitKeeps DEF PollEnds
<1>8. CASE RequestGatewayRestart
  BY <1>5, <1>8 DEF RequestGatewayRestart, TypeOK, Flags
<1> QED
  BY <1>1, <1>3, <1>4, <1>6, <1>7, <1>8

\* The inductive invariant holds in every state of the gateway's life.
THEOREM GatewayInvariance == Spec => [](TypeOK /\ Inductive)
<1>1. TypeOK /\ Inductive /\ [Next]_vars => TypeOK' /\ Inductive'
  <2> SUFFICES ASSUME TypeOK, Inductive, [Next]_vars PROVE TypeOK' /\ Inductive'
    OBVIOUS
  <2>1. CASE Next
    BY <2>1, LoopKeeps, ShutdownKeeps, SignalsKeep DEF Next
  <2>2. CASE UNCHANGED vars
    BY <2>2 DEF vars, loopVars, signalVars, history, TypeOK, Flags, Inductive, InOrder,
      PlannedExitFreesLock, InStep, Alive
  <2> QED
    BY <2>1, <2>2
<1> QED
  BY InitHolds, <1>1, PTL DEF Spec

\* The variables of the run loop and of the scheduler keep their types.
THEOREM GatewayTypes == Spec => []TypeOK
  BY GatewayInvariance, PTL

\* A process that ends as planned has given back the gateway lock.
THEOREM LockIsFreed == Spec => []PlannedExitFreesLock
<1>1. Inductive => PlannedExitFreesLock
  BY DEF Inductive, InOrder
<1> QED
  BY GatewayInvariance, <1>1, PTL

\* Unless a restart began while the server was starting, a serving gateway
\* accepts commands, and beside its server listen only those whose own close()
\* failed; when it starts one, only these do.
THEOREM ServesCleanly == Spec => []OneCleanServer
<1>1. TypeOK /\ Inductive => OneCleanServer
  <2> SUFFICES ASSUME TypeOK, Inductive, ~overlapped, loop \in {"waiting", "starting"}
               PROVE  /\ Serving => ~gatewayDraining /\ open = unclosed + 1
                      /\ loop = "starting" => open = unclosed
    BY DEF OneCleanServer, Serving
  <2>1. InStep
    BY DEF Inductive, Alive
  <2> QED
    BY <2>1 DEF InStep, Serving, NoRequest, TypeOK, Flags
<1> QED
  BY GatewayInvariance, <1>1, PTL

-----------------------------------------------------------------------------
(* The safety parts of what must eventually happen.                         *)

\* A loop that waits has something to wait for.
HasResolver == loop = "waiting" => resolver

LEMMA StepResolver ==
  ASSUME HasResolver, [Next]_vars
  PROVE  HasResolver'
<1> USE DEF loopVars, signalVars, history, HasResolver
<1>1. CASE Loop
  BY <1>1 DEF Loop, StartSucceeds, StartFails, ReleaseAfterFailure, Throw, Exit, Wait
<1>2. CASE DrainEnds \/ CloseEnds \/ CloseFails \/ ForceExit \/ ReacquireFails
  BY <1>2 DEF DrainEnds, CloseEnds, CloseFails, CloseReturns, ForceExit, ReacquireFails, Exit
<1>3. CASE ReleaseEnds \/ NothingReleased \/ Reacquired
  BY <1>3 DEF ReleaseEnds, NothingReleased, Reacquired, AfterRelease, Resume, Exit
<1>4. CASE Stop \/ Schedule \/ CooldownEnds \/ UNCHANGED vars
  BY <1>4 DEF Stop, Schedule, CooldownEnds, vars
<1>5. CASE TimerFires \/ PollEnds \/ RequestGatewayRestart
  BY <1>5 DEF TimerFires, PollEnds, RequestGatewayRestart, Defer, EmitGatewayRestart
<1>6. QED
  BY <1>1, <1>2, <1>3, <1>4, <1>5 DEF Next, ShutdownTimed

\* An exit, a step that leaves the request's own state alone, or the resolver.
LEMMA AheadKept ==
  ASSUME RequestIsAhead,
         \/ loop' = "ended"
         \/ asked' = FALSE
         \/ /\ UNCHANGED <<loop, resolver, asked>>
            /\ shuttingDown \/ timer \/ polls > 0 => shuttingDown' \/ timer' \/ polls' > 0
  PROVE  RequestIsAhead'
  BY DEF RequestIsAhead, Alive

LEMMA EmitShutsDown ==
  ASSUME TypeOK, EmitGatewayRestart
  PROVE  shuttingDown' = TRUE /\ UNCHANGED <<loop, resolver, asked>>
  BY DEF EmitGatewayRestart, Request, loopVars, TypeOK, Flags

LEMMA StepAhead ==
  ASSUME TypeOK, HasResolver, RequestIsAhead, [Next]_vars
  PROVE  RequestIsAhead'
<1> USE DEF loopVars, signalVars, history
<1>1. CASE Loop
  <2>1. loop # "waiting"
    BY <1>1 DEF Loop, StartSucceeds, StartFails, ReleaseAfterFailure, Throw
  <2>2. UNCHANGED asked
    BY <1>1 DEF Loop, StartSucceeds, StartFails, ReleaseAfterFailure, Throw, Exit
  <2>3. asked => ~Alive
    BY <2>1 DEF RequestIsAhead
  <2>4. Alive
    BY <1>1 DEF Loop, StartSucceeds, StartFails, ReleaseAfterFailure, Throw, Alive
  <2>5. QED
    BY <2>2, <2>3, <2>4 DEF RequestIsAhead
<1>2. CASE DrainEnds \/ CloseEnds \/ CloseFails
  <2>1. UNCHANGED <<loop, resolver, asked, shuttingDown, timer, polls>>
    BY <1>2 DEF DrainEnds, CloseEnds, CloseFails, CloseReturns
  <2>2. QED
    BY <2>1, AheadKept
<1>3. ASSUME NEW code, Exit(code) PROVE RequestIsAhead'
  BY <1>3, AheadKept DEF Exit
<1>4. CASE Resume
  <2>1. CASE resolver
    BY <1>4, <2>1, AheadKept DEF Resume
  <2>2. CASE ~resolver
    BY <1>4, <2>2 DEF Resume, RequestIsAhead, Alive
  <2>3. QED
    BY <2>1, <2>2
<1>5. ASSUME NEW hadLock \in BOOLEAN, AfterRelease(hadLock) PROVE RequestIsAhead'
  <2>1. CASE UNCHANGED <<loopVars, shuttingDown, signalVars, history>>
    BY <2>1, AheadKept
  <2>2. QED
    BY <1>3, <1>4, <1>5, <2>1 DEF AfterRelease
<1>6. CASE ShutdownTimed
  BY <1>2, <1>3, <1>4, <1>5, <1>6
  DEF ShutdownTimed, ForceExit, ReleaseEnds, NothingReleased, Reacquired, ReacquireFails
<1>7. CASE Stop
  BY <1>7, AheadKept DEF Stop, Request, TypeOK, Flags
<1>8. CASE Schedule
  BY <1>8 DEF Schedule, HasResolver, RequestIsAhead, Alive
<1>9. CASE CooldownEnds
  BY <1>9, AheadKept DEF CooldownEnds
<1>10. CASE EmitGatewayRestart
  BY <1>10, EmitShutsDown, AheadKept
<1>11. ASSUME NEW t \in BOOLEAN, Defer(t) PROVE RequestIsAhead'
  <2>1. CASE polls' = polls + 1 /\ UNCHANGED <<loopVars, shuttingDown, history>>
    <3>1. polls' > 0
      BY <2>1, PollAssumption DEF TypeOK
    <3>2. QED
      BY <2>1, <3>1, AheadKept
  <2>2. QED
    BY <1>10, <1>11, <2>1 DEF Defer
<1>12. CASE TimerFires \/ PollEnds \/ RequestGatewayRestart
  BY <1>10, <1>11, <1>12 DEF TimerFires, PollEnds, RequestGatewayRestart, TypeOK, Flags
<1>13. CASE UNCHANGED vars
  BY <1>13, AheadKept DEF vars
<1>14. QED
  BY <1>1, <1>2, <1>6, <1>7, <1>8, <1>9, <1>12, <1>13 DEF Next

\* A restart asked of a waiting gateway is never dropped: until it is carried
\* out, its timer, a poll or a shutdown is there to do so.
THEOREM RequestIsKept == Spec => []RequestIsAhead
<1>1. Init => HasResolver /\ RequestIsAhead
  BY DEF Init, HasResolver, RequestIsAhead
<1>2. TypeOK /\ HasResolver /\ RequestIsAhead /\ [Next]_vars => (HasResolver /\ RequestIsAhead)'
  BY StepResolver, StepAhead
<1>3. QED
  BY <1>1, <1>2, GatewayTypes, PTL DEF Spec

\* While the process lives, the flag that makes the loop ignore signals is up
\* exactly while there is a request: also when a restart began too early.
OneAtATime == Alive => (shuttingDown <=> request # NoRequest)

StopKept == request.action = "stop" => request'.action = "stop" \/ ~Alive'

LEMMA StepOneAtATime ==
  ASSUME TypeOK, Inductive, OneAtATime, [Next]_vars
  PROVE  OneAtATime' /\ StopKept
<1> USE DEF loopVars, signalVars, history
<1>0. request.action = "stop" => Alive /\ request # NoRequest
  BY DEF Inductive, InOrder, NoRequest
<1>1. ASSUME UNCHANGED <<shuttingDown, request>>, Alive' => Alive PROVE OneAtATime' /\ StopKept
  BY <1>1 DEF OneAtATime, StopKept
<1>2. ASSUME NEW code, Exit(code) PROVE OneAtATime' /\ StopKept
  BY <1>2 DEF Exit, OneAtATime, StopKept, Alive
<1>3. ASSUME request.at # "none", UNCHANGED <<shuttingDown, loop>>,
             \E at \in {"closing", "releasing", "unlocked", "reacquiring"} :
               request' = [request EXCEPT !.at = at]
      PROVE  OneAtATime' /\ StopKept
  <2>1. Alive /\ shuttingDown
    BY <1>3 DEF Inductive, InOrder, OneAtATime, NoRequest
  <2>2. request'.action = request.action /\ request' # NoRequest
    BY <1>3 DEF TypeOK, Requests, NoRequest
  <2>3. QED
    BY <1>3, <2>1, <2>2 DEF OneAtATime, StopKept
<1>4. ASSUME Resume, request.action # "stop" PROVE OneAtATime' /\ StopKept
  BY <1>4 DEF Resume, OneAtATime, StopKept
<1>5. CASE Loop
  <2>1. ~Throw => UNCHANGED <<shuttingDown, request>> /\ Alive
    BY <1>5 DEF Loop, StartSucceeds, StartFails, ReleaseAfterFailure, Alive
  <2>2. QED
    BY <1>1, <1>2, <2>1 DEF Throw
<1>6. CASE DrainEnds \/ CloseEnds \/ CloseFails
  BY <1>3, <1>6 DEF DrainEnds, CloseEnds, CloseFails, CloseReturns, Close, Release
<1>7. ASSUME NEW hadLock \in BOOLEAN, request.at # "none", AfterRelease(hadLock)
      PROVE  OneAtATime' /\ StopKept
  <2>1. CASE UNCHANGED <<loopVars, shuttingDown>> /\ request' = [request EXCEPT !.at = "reacquiring"]
    BY <1>3, <1>7, <2>1
  <2>2. QED
    BY <1>2, <1>4, <1>7, <2>1 DEF AfterRelease
<1>8. CASE ReleaseEnds \/ NothingReleased
  BY <1>7, <1>8 DEF ReleaseEnds, NothingReleased
<1>9. CASE Reacquired
  <2>1. request.action # "stop"
    BY <1>9 DEF Reacquired, Inductive, InOrder
  <2>2. QED
    BY <1>4, <1>9, <2>1 DEF Reacquired
<1>10. CASE ForceExit \/ ReacquireFails
  BY <1>2, <1>10 DEF ForceExit, ReacquireFails
<1>11. ASSUME NEW action \in {"stop", "restart"}, Alive, Request(action), UNCHANGED loop
       PROVE  OneAtATime' /\ StopKept
  <2>1. CASE shuttingDown
    BY <1>1, <1>11, <2>1 DEF Request, Alive
  <2>2. CASE ~shuttingDown
    <3>1. /\ shuttingDown' = TRUE
          /\ \E at \in {"closing", "releasing", "unlocked", "draining"} :
               request' = [action |-> action, at |-> at]
      BY <1>11, <2>2 DEF Request, Close, Release
    <3>2. request' # NoRequest
      BY <3>1 DEF NoRequest
    <3>3. request.action # "stop"
      BY <1>0, <2>2 DEF OneAtATime
    <3>4. QED
      BY <3>1, <3>2, <3>3 DEF OneAtATime, StopKept
  <2>3. QED
    BY <2>1, <2>2
<1>12. CASE Stop
  BY <1>11, <1>12 DEF Stop
<1>13. CASE EmitGatewayRestart /\ Alive
  BY <1>11, <1>13 DEF EmitGatewayRestart
<1>14. CASE Schedule \/ CooldownEnds
  BY <1>1, <1>14 DEF Schedule, CooldownEnds, Alive
<1>15. ASSUME NEW t \in BOOLEAN, Alive, Defer(t) PROVE OneAtATime' /\ StopKept
  <2>1. CASE UNCHANGED <<loopVars, shuttingDown, request>>
    BY <1>1, <2>1 DEF Alive
  <2>2. QED
    BY <1>13, <1>15, <2>1 DEF Defer
<1>16. CASE TimerFires \/ PollEnds \/ RequestGatewayRestart
  BY <1>13, <1>15, <1>16 DEF TimerFires, PollEnds, RequestGatewayRestart, TypeOK, Flags
<1>17. CASE UNCHANGED vars
  BY <1>1, <1>17 DEF vars, Alive
<1>18. QED
  BY <1>5, <1>6, <1>8, <1>9, <1>10, <1>12, <1>14, <1>16, <1>17 DEF Next, ShutdownTimed

\* A stop that is accepted is not given up for a restart, nor forgotten by
\* one: the process it is for ends, or the stop is still in progress.
THEOREM StopIsNeverGivenUp == Spec => [][StopKept]_vars
<1>1. Init => OneAtATime
  BY DEF Init, OneAtATime
<1>2. TypeOK /\ Inductive /\ OneAtATime /\ [Next]_vars => OneAtATime' /\ [StopKept]_vars
  BY StepOneAtATime
<1>3. QED
  BY <1>1, <1>2, GatewayInvariance, PTL DEF Spec
=============================================================================
