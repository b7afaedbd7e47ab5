---------------------------- MODULE ChannelManager ----------------------------
(* The lifecycle of one account of a channel (src/gateway/server-channels.ts)
   and the health monitor that restarts it.  Accounts share nothing that is
   modelled: the monitor's wait for the accounts before this one is the time
   between its snapshot and what it does about it.

   A start attempt, its AbortController and the promise that tracks its provider
   task are one object of the model, a boot.  Code between two awaits is one
   action.  What only waits for a promise that is settled goes on before any
   timer, message or provider is heard of again: these are the reactions. *)
EXTENDS Naturals, FiniteSets

CONSTANTS
    Boots,                   \* start attempts alive at a time (a bound)
    NoBoot,
    Callers,                 \* requests to start and to stop that may overlap
    Monitor,                 \* the health monitor, when it stops the account
    HasStopHook,             \* has the plugin a gateway.stopAccount?
    MaxRestartAttempts

ASSUME ChannelAssumption ==
    /\ NoBoot \notin Boots
    /\ Monitor \notin Callers
    /\ HasStopHook \in BOOLEAN
    /\ MaxRestartAttempts \in Nat

VARIABLES
    boots,            \* each start attempt
    starting, aborts, tasks,     \* the entries of the account in the store
    manuallyStopped, restartAttempts,
    running,          \* of the account's runtime status
    stops,            \* the calls of stopChannel under way
    monitor,          \* where the health monitor's sweep is
    gate,             \* the start the monitor waits for
    heldDown,         \* history: was a stop by a user the last that was asked?
    torn              \* history: did a stop delete the entries of a later start?

vars == <<boots, starting, aborts, tasks, manuallyStopped, restartAttempts, running,
          stops, monitor, gate, heldDown, torn>>

Actors == Callers \cup {Monitor}
Maybe  == Boots \cup {NoBoot}

Boot == [phase : {"free", "configure", "live", "backoff", "restart"},
         aborted : BOOLEAN, preserve : BOOLEAN, on : Maybe]
Free == [phase |-> "free", aborted |-> FALSE, preserve |-> FALSE, on |-> NoBoot]
Stop == [phase : {"no", "hook", "task"}, abort : Maybe, task : Maybe]
NoStop == [phase |-> "no", abort |-> NoBoot, task |-> NoBoot]

TypeOK ==
    /\ boots \in [Boots -> Boot]
    /\ starting \in Maybe /\ aborts \in Maybe /\ tasks \in Maybe
    /\ manuallyStopped \in BOOLEAN
    /\ restartAttempts \in 0 .. MaxRestartAttempts + 1
    /\ running \in BOOLEAN
    /\ stops \in [Actors -> Stop]
    /\ monitor \in {"idle", "seenUp", "seenDown", "stop", "restart", "start"}
    /\ gate \in Maybe
    /\ heldDown \in BOOLEAN /\ torn \in BOOLEAN

Init ==
    /\ boots = [b \in Boots |-> Free]
    /\ starting = NoBoot /\ aborts = NoBoot /\ tasks = NoBoot
    /\ manuallyStopped = FALSE
    /\ restartAttempts = 0
    /\ running = FALSE
    /\ stops = [c \in Actors |-> NoStop]
    /\ monitor = "idle"
    /\ gate = NoBoot
    /\ heldDown = FALSE /\ torn = FALSE

Pending(b) == boots[b].phase # "free"

(* Nothing refers to b any longer: another attempt may use it. *)
Unused(b) ==
    /\ ~Pending(b) /\ b \notin {starting, aborts, tasks, gate}
    /\ \A c \in Actors : b \notin {stops[c].abort, stops[c].task}
    /\ \A d \in Boots : boots[d].on # b

(* The promises that reactions wait for: a stop for the task it read, a restart
   and the monitor for the gate of a start. *)
StopMade(c)      == stops[c].phase = "task" /\ (stops[c].task # NoBoot => ~Pending(stops[c].task))
RestartMade(b)   == boots[b].phase = "restart" /\ boots[boots[b].on].phase # "configure"
MonitorStartMade == monitor = "start" /\ boots[gate].phase # "configure"

Quiet == /\ monitor # "restart" /\ ~MonitorStartMade
         /\ \A c \in Actors : ~StopMade(c)
         /\ \A b \in Boots : ~RestartMade(b)

-----------------------------------------------------------------------------
(* startChannelInternal *)

BeginUngated(b, preserve) ==                           \* faulty
    /\ tasks = NoBoot
    /\ Unused(b) /\ starting' = b /\ aborts' = b
    /\ boots' = [boots EXCEPT ![b] = [Free EXCEPT !.phase = "configure", !.preserve = preserve]]

(* The synchronous part of a start that finds neither a task nor a start. *)
Begin(b, preserve) ==
    /\ tasks = NoBoot /\ starting = NoBoot
    /\ Unused(b) /\ starting' = b /\ aborts' = b
    /\ boots' = [boots EXCEPT ![b] = [Free EXCEPT !.phase = "configure", !.preserve = preserve]]

(* startChannel; one that finds a task, or a start to wait for, changes nothing *)
StartChannel(b) ==
    /\ Quiet
    /\ Begin(b, FALSE)
    /\ heldDown' = FALSE
    /\ UNCHANGED <<tasks, manuallyStopped, restartAttempts, running, stops, monitor, gate, torn>>

(* The finally clause when no task was handed off. *)
NotHandedOff(b) ==
    /\ starting' = IF starting = b THEN NoBoot ELSE starting
    /\ aborts' = IF aborts = b THEN NoBoot ELSE aborts
    /\ boots' = [boots EXCEPT ![b] = Free]
    /\ UNCHANGED <<tasks, stops, monitor, gate, heldDown, torn>>

(* disabled, not configured, or an error before that is known *)
BootRefused(b) ==
    /\ Quiet /\ boots[b].phase = "configure"
    /\ running' \in {FALSE, running}
    /\ NotHandedOff(b)
    /\ UNCHANGED <<manuallyStopped, restartAttempts>>

StillStopped(b) == manuallyStopped /\ boots[b].preserve

BootCancelled(b) ==
    /\ Quiet /\ boots[b].phase = "configure"
    /\ boots[b].aborted \/ StillStopped(b)
    /\ manuallyStopped' = StillStopped(b)
    /\ running' = FALSE
    /\ NotHandedOff(b)
    /\ UNCHANGED restartAttempts

Goes(b) ==
    /\ Quiet /\ boots[b].phase = "configure"
    /\ ~boots[b].aborted /\ ~StillStopped(b)
    /\ manuallyStopped' = FALSE
    /\ restartAttempts' = IF boots[b].preserve THEN restartAttempts ELSE 0
    /\ running' = TRUE

(* startAccount() is called and its promise tracked *)
BootGoesLive(b) ==
    /\ Goes(b)
    /\ boots' = [boots EXCEPT ![b].phase = "live"]
    /\ tasks' = b
    /\ starting' = IF starting = b THEN NoBoot ELSE starting
    /\ UNCHANGED <<aborts, stops, monitor, gate, heldDown, torn>>

(* or throws: the account is shown as running *)
BootThrows(b) == Goes(b) /\ NotHandedOff(b)

-----------------------------------------------------------------------------
(* The tracked promise *)

SettleKeepsTask(b) ==                                     \* faulty
    /\ boots' = [boots EXCEPT ![b] = Free]
    /\ tasks' = tasks
    /\ aborts' = IF aborts = b THEN NoBoot ELSE aborts

SettleAny(b) ==                                           \* faulty
    /\ boots' = [boots EXCEPT ![b] = Free]
    /\ tasks' = IF tasks = b THEN NoBoot ELSE tasks
    /\ aborts' = NoBoot

(* Its last finally clause *)
Settle(b) ==
    /\ boots' = [boots EXCEPT ![b] = Free]
    /\ tasks' = IF tasks = b THEN NoBoot ELSE tasks
    /\ aborts' = IF aborts = b THEN NoBoot ELSE aborts

RestartsForEver(b) ==                                     \* faulty
    /\ Quiet /\ boots[b].phase = "live"
    /\ running' = FALSE
    /\ restartAttempts' = restartAttempts + 1
    /\ boots' = [boots EXCEPT ![b].phase = "backoff"]
    /\ UNCHANGED <<tasks, aborts, starting, manuallyStopped, stops, monitor, gate, heldDown, torn>>

(* The provider's task ends, by an error, by itself or because of the abort. *)
TaskEnds(b) ==
    LET attempt == restartAttempts + 1
    IN  /\ Quiet /\ boots[b].phase = "live"
        /\ running' = FALSE
        /\ IF manuallyStopped THEN Settle(b) /\ UNCHANGED restartAttempts
           ELSE /\ restartAttempts' = IF attempt > MaxRestartAttempts THEN MaxRestartAttempts + 1
                                      ELSE attempt
                /\ IF attempt > MaxRestartAttempts THEN Settle(b)
                   ELSE /\ boots' = [boots EXCEPT ![b].phase = "backoff"]
                        /\ UNCHANGED <<tasks, aborts>>
        /\ UNCHANGED <<starting, manuallyStopped, stops, monitor, gate, heldDown, torn>>

(* The backoff is over or aborted, and no restart begins. *)
BackoffEnds(b) ==
    /\ Quiet /\ boots[b].phase = "backoff"
    /\ boots[b].aborted \/ manuallyStopped \/ tasks \notin {b, NoBoot}
    /\ Settle(b)
    /\ UNCHANGED <<starting, manuallyStopped, restartAttempts, running, stops, monitor,
                   gate, heldDown, torn>>

BackoffAlwaysRestarts(b) ==                               \* faulty
    /\ Quiet /\ boots[b].phase = "backoff" /\ tasks \in {b, NoBoot} /\ starting = NoBoot
    /\ tasks' = NoBoot
    /\ \E next \in Boots :
         /\ Unused(next) /\ starting' = next /\ aborts' = next
         /\ boots' = [boots EXCEPT ![b].phase = "restart", ![b].on = next,
                         ![next] = [Free EXCEPT !.phase = "configure", !.preserve = TRUE]]
    /\ UNCHANGED <<manuallyStopped, restartAttempts, running, stops, monitor,
                   gate, heldDown, torn>>

(* The restart: the promise waits for the start it makes, or for the one it
   finds under way. *)
BackoffRestarts(b) ==
    /\ Quiet /\ boots[b].phase = "backoff" /\ ~boots[b].aborted /\ ~manuallyStopped
    /\ tasks \in {b, NoBoot}
    /\ tasks' = NoBoot
    /\ \/ /\ starting = NoBoot
          /\ \E next \in Boots :
               /\ Unused(next) /\ starting' = next /\ aborts' = next
               /\ boots' = [boots EXCEPT ![b].phase = "restart", ![b].on = next,
                               ![next] = [Free EXCEPT !.phase = "configure", !.preserve = TRUE]]
       \/ /\ starting # NoBoot
          /\ boots' = [boots EXCEPT ![b].phase = "restart", ![b].on = starting]
          /\ aborts' = IF aborts = b THEN NoBoot ELSE aborts
          /\ UNCHANGED starting
    /\ UNCHANGED <<manuallyStopped, restartAttempts, running, stops, monitor,
                   gate, heldDown, torn>>

RestartReturns(b) ==
    /\ RestartMade(b)
    /\ Settle(b)
    /\ UNCHANGED <<starting, manuallyStopped, restartAttempts, running, stops, monitor,
                   gate, heldDown, torn>>

-----------------------------------------------------------------------------
(* stopChannel *)

FindsNothing == aborts = NoBoot /\ tasks = NoBoot /\ ~HasStopHook

StopUnaborted(c) ==                                       \* faulty
    /\ stops[c].phase = "no" /\ ~FindsNothing
    /\ manuallyStopped' = TRUE
    /\ boots' = boots
    /\ stops' = [stops EXCEPT ![c] = [phase |-> IF HasStopHook THEN "hook" ELSE "task",
                                      abort |-> aborts, task |-> tasks]]
    /\ UNCHANGED <<starting, aborts, tasks, restartAttempts, running, torn>>

(* Mark, abort, call the plugin's hook; one that finds nothing returns. *)
StopAsked(c) ==
    /\ stops[c].phase = "no" /\ ~FindsNothing
    /\ manuallyStopped' = TRUE
    /\ boots' = [b \in Boots |-> IF b = aborts THEN [boots[b] EXCEPT !.aborted = TRUE] ELSE boots[b]]
    /\ stops' = [stops EXCEPT ![c] = [phase |-> IF HasStopHook THEN "hook" ELSE "task",
                                      abort |-> aborts, task |-> tasks]]
    /\ UNCHANGED <<starting, aborts, tasks, restartAttempts, running, torn>>

(* By a user: asked for while no start that forgets stops is under way, by the
   monitor or by others, it is to hold. *)
StopChannel(c) ==
    /\ Quiet /\ c \in Callers
    /\ StopAsked(c)
    /\ heldDown' = \/ heldDown
                   \/ /\ monitor \in {"idle", "seenUp", "seenDown"}
                      /\ starting # NoBoot => boots[starting].preserve
    /\ UNCHANGED <<monitor, gate>>

StopHookReturns(c) ==
    /\ Quiet /\ stops[c].phase = "hook"
    /\ stops' = [stops EXCEPT ![c].phase = "task"]
    /\ UNCHANGED <<boots, starting, aborts, tasks, manuallyStopped, restartAttempts, running,
                   monitor, gate, heldDown, torn>>

(* or rejects: the stop fails, and the monitor's restart with it; the entries stay,
   their controller aborted. *)
StopHookRejects(c) ==
    /\ Quiet /\ stops[c].phase = "hook"
    /\ stops' = [stops EXCEPT ![c] = NoStop]
    /\ monitor' = IF c = Monitor THEN "idle" ELSE monitor
    /\ UNCHANGED <<boots, starting, aborts, tasks, manuallyStopped, restartAttempts, running,
                   gate, heldDown, torn>>

(* The task it read is over: whatever the entries are now, they are deleted. *)
StopReturns(c) ==
    /\ StopMade(c)
    /\ aborts' = NoBoot /\ tasks' = NoBoot
    /\ running' = FALSE
    /\ stops' = [stops EXCEPT ![c] = NoStop]
    /\ monitor' = IF c = Monitor THEN "restart" ELSE monitor
    /\ torn' = (torn \/ aborts \notin {NoBoot, stops[c].abort} \/ tasks \notin {NoBoot, stops[c].task})
    /\ UNCHANGED <<boots, starting, manuallyStopped, restartAttempts, gate, heldDown>>

(* After a logout, which may be long after the stop that it began with. *)
MarkChannelLoggedOut ==
    /\ Quiet /\ running /\ running' = FALSE
    /\ UNCHANGED <<boots, starting, aborts, tasks, manuallyStopped, restartAttempts, stops,
                   monitor, gate, heldDown, torn>>

-----------------------------------------------------------------------------
(* The health monitor: checks do not overlap.  What is healthy, and whether a
   cooldown or the limit per hour holds a restart back, is left open; an account
   that is not running is never healthy. *)

MonitorLooks ==
    /\ Quiet /\ monitor = "idle"
    /\ monitor' = IF running THEN "seenUp" ELSE "seenDown"
    /\ UNCHANGED <<boots, starting, aborts, tasks, manuallyStopped, restartAttempts, running,
                   stops, gate, heldDown, torn>>

MonitorPasses ==
    /\ Quiet /\ monitor \in {"seenUp", "seenDown"}
    /\ monitor' = "idle"
    /\ UNCHANGED <<boots, starting, aborts, tasks, manuallyStopped, restartAttempts, running,
                   stops, gate, heldDown, torn>>

MonitorStopsAnyway ==                                     \* faulty
    /\ Quiet /\ monitor = "seenUp"
    /\ StopAsked(Monitor) /\ monitor' = "stop"
    /\ UNCHANGED <<gate, heldDown>>

MonitorStops ==
    /\ Quiet /\ monitor = "seenUp" /\ ~manuallyStopped
    /\ IF FindsNothing
       THEN monitor' = "restart"
            /\ UNCHANGED <<boots, starting, aborts, tasks, manuallyStopped, restartAttempts,
                           running, stops, torn>>
       ELSE StopAsked(Monitor) /\ monitor' = "stop"
    /\ UNCHANGED <<gate, heldDown>>

MonitorFindsDown ==
    /\ Quiet /\ monitor = "seenDown" /\ ~manuallyStopped
    /\ monitor' = "restart"
    /\ UNCHANGED <<boots, starting, aborts, tasks, manuallyStopped, restartAttempts, running,
                   stops, gate, heldDown, torn>>

(* The stops that waited for the same task as the monitor's return first. *)
MonitorRestarts ==
    /\ monitor = "restart" /\ \A c \in Actors : ~StopMade(c)
    /\ restartAttempts' = 0
    /\ \/ /\ tasks # NoBoot
          /\ monitor' = "idle"
          /\ UNCHANGED <<boots, starting, aborts, gate>>
       \/ /\ tasks = NoBoot /\ starting # NoBoot
          /\ monitor' = "start" /\ gate' = starting
          /\ UNCHANGED <<boots, starting, aborts>>
       \/ /\ monitor' = "start"
          /\ \E b \in Boots : Begin(b, FALSE) /\ gate' = b
    /\ UNCHANGED <<tasks, manuallyStopped, running, stops, heldDown, torn>>

MonitorStarted ==
    /\ MonitorStartMade
    /\ monitor' = "idle" /\ gate' = NoBoot
    /\ UNCHANGED <<boots, starting, aborts, tasks, manuallyStopped, restartAttempts, running,
                   stops, heldDown, torn>>

-----------------------------------------------------------------------------
React == \/ \E c \in Actors : StopReturns(c)
         \/ \E b \in Boots : RestartReturns(b)
         \/ MonitorRestarts \/ MonitorStarted

HookAnswers(c) == StopHookReturns(c) \/ StopHookRejects(c)
Answer(b) == BootRefused(b) \/ BootCancelled(b) \/ BootGoesLive(b) \/ BootThrows(b)
Backoff(b) == BackoffEnds(b) \/ BackoffRestarts(b)
Judge == MonitorPasses \/ MonitorStops \/ MonitorFindsDown

Act == \/ \E b \in Boots : StartChannel(b) \/ Answer(b) \/ TaskEnds(b) \/ Backoff(b)
       \/ \E c \in Callers : StopChannel(c)
       \/ \E c \in Actors : HookAnswers(c)
       \/ MonitorLooks \/ Judge \/ MarkChannelLoggedOut

Next == React \/ Act

Spec == Init /\ [][Next]_vars

(* Timers fire, isConfigured() and hooks answer, and a provider ends when its
   signal is aborted; that one ends by itself is not assumed.  What is due stays
   due while reactions run, which is all that disables it: hence SF. *)
Fairness ==
    /\ WF_vars(React) /\ SF_vars(Judge)
    /\ SF_vars(\E b \in Boots : Answer(b))
    /\ SF_vars(\E b \in Boots : Backoff(b))
    /\ SF_vars(\E b \in Boots : boots[b].aborted /\ TaskEnds(b))
    /\ \A c \in Actors : SF_vars(HookAnswers(c))
FairSpec == Spec /\ Fairness

-----------------------------------------------------------------------------
(* Properties *)

(* Two provider tasks never run for one account at a time, whatever starts,
   restarts after a crash and restarts by the monitor overlap, as long as no stop
   deleted the entries of a start later than itself. *)
OneTaskPerAccount ==
    ~torn => Cardinality({b \in Boots : boots[b].phase = "live"}) <= 1

(* An entry of the store belongs to something under way: one that is left behind
   would refuse every start to come. *)
NoEntryLeftBehind ==
    /\ starting # NoBoot => boots[starting].phase = "configure"
    /\ aborts # NoBoot => Pending(aborts)
    /\ tasks # NoBoot => boots[tasks].phase \in {"live", "backoff"}

(* A provider that runs can be stopped: the store has its task and its
   controller, unless the controller was aborted already. *)
LiveIsReachable ==
    ~torn => \A b \in Boots :
      boots[b].phase = "live" => boots[b].aborted \/ (tasks = b /\ aborts = b)

(* An account that a user stopped starts again only when a user asks for it: not
   by a backoff that ends, a restart that was on its way, or the monitor's old
   snapshot.  (A stop during a start by request, or while the monitor restarts
   the account, is not held: see the README.) *)
StoppedStaysDown ==
    [][heldDown /\ heldDown' =>
         \A b \in Boots : boots'[b].phase = "live" => boots[b].phase = "live"]_vars

(* Whatever is waited for is on its way: a stop waits for a task that was told to
   end, in its provider or in its backoff, a restart and the monitor for a start,
   and a sweep that stops an account has its stop under way. *)
NoneWaitsInVain ==
    /\ ~torn => \A c \in Actors : \A b \in Boots :
         stops[c].task = b /\ Pending(b) =>
           boots[b].aborted /\ boots[b].phase \in {"live", "backoff"}
    /\ \A b \in Boots : boots[b].phase = "restart" => boots[b].on # NoBoot
    /\ monitor = "start" => gate # NoBoot
    /\ monitor = "stop" => stops[Monitor].phase # "no"

(* Every stop returns, and so does every health check, which stops and starts
   accounts and does not overlap with the next; unless a stop deleted the entries
   of a later start: then the next one waits for a task whose controller it did
   not find. *)
NothingHangs ==
    /\ \A c \in Actors : stops[c].phase # "no" ~> stops[c].phase = "no" \/ torn
    /\ monitor # "idle" ~> monitor = "idle" \/ torn
=============================================================================
