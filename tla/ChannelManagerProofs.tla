-------------------------- MODULE ChannelManagerProofs --------------------------
(* Theorems about ChannelManager, for any number of start attempts and callers.

   The account has at most one start that is not answered, the one `starting'
   names, and no task beside it.  As long as no stop tore the entries of a later
   start away, `tasks' is the provider that runs, and `aborts' its controller
   unless that was aborted already.  An account that a user stopped is marked,
   the monitor is not about to restart it, and the start that is under way, if
   there is one, respects the mark.  A task that a stop has read was told to end,
   because the store has its controller for as long as it has the task. *)
EXTENDS ChannelManager, FiniteSetTheorems, TLAPS

(* The start that is not answered is the one `starting' names, and the account
   has no task meanwhile. *)
StartsAlone ==
    /\ \A b \in Boots : boots[b].phase = "configure" => starting = b
    /\ starting # NoBoot => tasks = NoBoot

(* A controller that a stop has read is aborted. *)
StopsAbort ==
    \A c \in Actors : \A b \in Boots : stops[c].abort = b /\ Pending(b) => boots[b].aborted

TaskIsKnown == ~torn => \A b \in Boots : boots[b].phase = "live" => tasks = b

ControllerIsKnown ==
    ~torn => \A b \in Boots :
      boots[b].phase \in {"configure", "live"} => boots[b].aborted \/ aborts = b

MonitorWaits == stops[Monitor].phase # "no" => monitor = "stop"

HoldIsMarked ==
    heldDown => /\ manuallyStopped
                /\ monitor \in {"idle", "seenUp", "seenDown"}
                /\ starting # NoBoot => boots[starting].preserve

Inductive == /\ NoEntryLeftBehind /\ StartsAlone /\ StopsAbort
             /\ TaskIsKnown /\ ControllerIsKnown /\ MonitorWaits /\ HoldIsMarked

-----------------------------------------------------------------------------
(* How a start attempt and the count of restarts change. *)
LEMMA BootChanges ==
  ASSUME TypeOK, NEW b \in Boots
  PROVE  /\ [boots EXCEPT ![b].phase = "live"] \in [Boots -> Boot]
         /\ [boots EXCEPT ![b].phase = "backoff"] \in [Boots -> Boot]
         /\ [boots EXCEPT ![b] = Free] \in [Boots -> Boot]
         /\ \A next \in Boots : [boots EXCEPT ![b].phase = "restart", ![b].on = next] \in [Boots -> Boot]
         /\ \A p \in BOOLEAN :
              [boots EXCEPT ![b] = [Free EXCEPT !.phase = "configure", !.preserve = p]] \in [Boots -> Boot]
<1>1. boots \in [Boots -> Boot] /\ boots[b] \in Boot  BY DEF TypeOK
<1>2. Free \in Boot  BY DEF Free, Boot, Maybe
<1>3. \A x \in Boot : [boots EXCEPT ![b] = x] \in [Boots -> Boot]  BY <1>1
<1>4. /\ [boots[b] EXCEPT !.phase = "live"] \in Boot
      /\ [boots[b] EXCEPT !.phase = "backoff"] \in Boot
      /\ \A next \in Boots : [[boots[b] EXCEPT !.phase = "restart"] EXCEPT !.on = next] \in Boot
      /\ \A p \in BOOLEAN : [Free EXCEPT !.phase = "configure", !.preserve = p] \in Boot
  BY <1>1, <1>2 DEF Boot, Maybe
<1> HIDE DEF Free
<1> QED  BY <1>1, <1>2, <1>3, <1>4

LEMMA CountsRestarts ==
  ASSUME TypeOK
  PROVE  /\ 0 \in 0 .. MaxRestartAttempts + 1
         /\ MaxRestartAttempts + 1 \in 0 .. MaxRestartAttempts + 1
         /\ restartAttempts + 1 > MaxRestartAttempts
              \/ restartAttempts + 1 \in 0 .. MaxRestartAttempts + 1
  BY ChannelAssumption DEF ChannelAssumption, TypeOK

LEMMA InitHolds == Init => TypeOK /\ Inductive
<1> SUFFICES ASSUME Init PROVE TypeOK /\ Inductive
  OBVIOUS
<1>1. TypeOK
  <2>1. Free \in Boot /\ NoStop \in Stop  BY DEF Boot, Free, Stop, NoStop, Maybe
  <2>2. 0 \in 0 .. MaxRestartAttempts + 1  BY ChannelAssumption DEF ChannelAssumption
  <2> QED  BY <2>1, <2>2 DEF Init, TypeOK, Maybe
<1>2. Inductive
  BY ChannelAssumption
  DEF ChannelAssumption, Init, Inductive, NoEntryLeftBehind, StartsAlone, StopsAbort,
      TaskIsKnown, ControllerIsKnown, MonitorWaits, HoldIsMarked, Free, NoStop, Actors, Pending
<1> QED  BY <1>1, <1>2

(* The actions of the account's start attempts. *)
LEMMA StartType ==
  ASSUME TypeOK, NEW b \in Boots, StartChannel(b) \/ Answer(b)
  PROVE  TypeOK'
<1> USE BootChanges, CountsRestarts
<1>1. CASE StartChannel(b)
  BY <1>1 DEF StartChannel, Begin, TypeOK, Maybe
<1>2. CASE BootRefused(b)
  BY <1>2 DEF BootRefused, NotHandedOff, TypeOK, Maybe
<1>3. CASE BootCancelled(b)
  <2>1. StillStopped(b) \in BOOLEAN  BY DEF StillStopped, TypeOK, Boot
  <2> QED  BY <1>3, <2>1 DEF BootCancelled, NotHandedOff, TypeOK, Maybe
<1>4. CASE BootGoesLive(b)
  BY <1>4 DEF BootGoesLive, Goes, TypeOK, Maybe
<1>5. CASE BootThrows(b)
  BY <1>5 DEF BootThrows, Goes, NotHandedOff, TypeOK, Maybe
<1> QED  BY <1>1, <1>2, <1>3, <1>4, <1>5 DEF Answer

LEMMA TaskType ==
  ASSUME TypeOK, NEW b \in Boots, TaskEnds(b) \/ Backoff(b) \/ RestartReturns(b)
  PROVE  TypeOK'
<1> USE BootChanges, CountsRestarts
<1>1. CASE TaskEnds(b)
  <2>1. boots' \in [Boots -> Boot] /\ aborts' \in Maybe /\ tasks' \in Maybe
    BY <1>1 DEF TaskEnds, Settle, TypeOK, Maybe
  <2>2. restartAttempts' \in 0 .. MaxRestartAttempts + 1
    BY <1>1 DEF TaskEnds, TypeOK
  <2> QED  BY <1>1, <2>1, <2>2 DEF TaskEnds, TypeOK
<1>2. CASE BackoffEnds(b)
  BY <1>2 DEF BackoffEnds, Settle, TypeOK, Maybe
<1>3. CASE BackoffRestarts(b)
  <2>1. CASE starting = NoBoot
    <3>1. PICK next \in Boots :
            /\ starting' = next /\ aborts' = next
            /\ boots' = [boots EXCEPT ![b].phase = "restart", ![b].on = next,
                            ![next] = [Free EXCEPT !.phase = "configure", !.preserve = TRUE]]
      BY <1>3, <2>1 DEF BackoffRestarts
    <3>2. boots' \in [Boots -> Boot]
      <4> DEFINE half == [boots EXCEPT ![b].phase = "restart", ![b].on = next]
                 new  == [Free EXCEPT !.phase = "configure", !.preserve = TRUE]
      <4>1. half \in [Boots -> Boot]  OBVIOUS
      <4>2. new \in Boot  BY DEF Free, Boot, Maybe
      <4>3. boots' = [half EXCEPT ![next] = new]  BY <3>1
      <4> QED  BY <4>1, <4>2, <4>3
    <3> QED  BY <1>3, <3>1, <3>2 DEF BackoffRestarts, TypeOK, Maybe
  <2>2. CASE starting # NoBoot
    <3>1. starting \in Boots  BY <2>2 DEF TypeOK, Maybe
    <3>2. boots' = [boots EXCEPT ![b].phase = "restart", ![b].on = starting]
      BY <1>3, <2>2 DEF BackoffRestarts
    <3>3. boots' \in [Boots -> Boot]  BY <3>1, <3>2
    <3> QED  BY <1>3, <2>2, <3>3 DEF BackoffRestarts, TypeOK, Maybe
  <2> QED  BY <2>1, <2>2
<1>4. CASE RestartReturns(b)
  BY <1>4 DEF RestartReturns, Settle, TypeOK, Maybe
<1> QED  BY <1>1, <1>2, <1>3, <1>4 DEF Backoff

(* A stop that finds something, by a user or by the monitor. *)
LEMMA StopAskedType ==
  ASSUME TypeOK, NEW c \in Actors, StopAsked(c)
  PROVE  /\ boots' \in [Boots -> Boot] /\ stops' \in [Actors -> Stop]
         /\ manuallyStopped' \in BOOLEAN
<1>1. [phase |-> IF HasStopHook THEN "hook" ELSE "task", abort |-> aborts, task |-> tasks] \in Stop
  BY DEF TypeOK, Stop
<1>2. \A b \in Boots : [boots[b] EXCEPT !.aborted = TRUE] \in Boot /\ boots[b] \in Boot
  BY DEF TypeOK, Boot
<1> HIDE DEF Stop, Boot
<1> QED  BY <1>1, <1>2 DEF StopAsked, TypeOK

LEMMA StopType ==
  ASSUME TypeOK, NEW c \in Actors, StopChannel(c) \/ HookAnswers(c) \/ StopReturns(c)
  PROVE  TypeOK'
<1>1. CASE StopChannel(c)
  BY <1>1, StopAskedType DEF StopChannel, StopAsked, TypeOK
<1>2. CASE HookAnswers(c)
  BY <1>2 DEF HookAnswers, StopHookReturns, StopHookRejects, TypeOK, Stop, NoStop, Maybe
<1>3. CASE StopReturns(c)
  BY <1>3 DEF StopReturns, TypeOK, Stop, NoStop, Maybe
<1> QED  BY <1>1, <1>2, <1>3

LEMMA MonitorType ==
  ASSUME TypeOK,
         MonitorLooks \/ Judge \/ MonitorRestarts \/ MonitorStarted \/ MarkChannelLoggedOut
  PROVE  TypeOK'
<1>1. CASE MonitorLooks \/ MonitorPasses \/ MonitorFindsDown \/ MonitorStarted
           \/ MarkChannelLoggedOut
  BY <1>1 DEF MonitorLooks, MonitorPasses, MonitorFindsDown, MonitorStarted,
              MarkChannelLoggedOut, TypeOK, Maybe
<1>2. CASE MonitorStops
  <2>1. CASE FindsNothing  BY <1>2, <2>1 DEF MonitorStops, TypeOK, Maybe
  <2>2. CASE ~FindsNothing
    <3>1. Monitor \in Actors /\ StopAsked(Monitor)  BY <1>2, <2>2 DEF MonitorStops, Actors
    <3> QED  BY <1>2, <2>2, <3>1, StopAskedType DEF MonitorStops, StopAsked, TypeOK
  <2> QED  BY <2>1, <2>2
<1>3. CASE MonitorRestarts
  <2>1. boots' \in [Boots -> Boot] /\ starting' \in Maybe /\ aborts' \in Maybe /\ gate' \in Maybe
    <3>1. ASSUME NEW b \in Boots, Begin(b, FALSE)
          PROVE  boots' \in [Boots -> Boot] /\ starting' \in Maybe /\ aborts' \in Maybe
      BY <3>1, BootChanges DEF Begin, TypeOK, Maybe
    <3> QED  BY <1>3, <3>1 DEF MonitorRestarts, TypeOK, Maybe
  <2>2. monitor' \in {"idle", "start"} /\ restartAttempts' = 0  BY <1>3 DEF MonitorRestarts
  <2> QED  BY <1>3, <2>1, <2>2, CountsRestarts DEF MonitorRestarts, TypeOK
<1> QED  BY <1>1, <1>2, <1>3 DEF Judge

-----------------------------------------------------------------------------
(* What a start attempt does keeps the invariant. *)
LEMMA StartKeeps ==
  ASSUME TypeOK, Inductive, NEW b \in Boots, StartChannel(b) \/ Answer(b)
  PROVE  Inductive'
<1> USE ChannelAssumption DEF ChannelAssumption, TypeOK, Inductive, Maybe, Pending, Free
<1>1. CASE StartChannel(b)
  <2>1. \A d \in Boots : d # b => boots'[d] = boots[d]  BY <1>1 DEF StartChannel, Begin
  <2>2. /\ boots'[b].phase = "configure" /\ boots'[b].aborted = FALSE
        /\ starting' = b /\ aborts' = b /\ tasks' = NoBoot /\ starting = NoBoot
    BY <1>1 DEF StartChannel, Begin
  <2>3. \A c \in Actors : stops'[c].abort # b
    BY <1>1 DEF StartChannel, Begin, Unused
  <2>4. NoEntryLeftBehind' /\ StartsAlone'
    BY <1>1, <2>1, <2>2 DEF StartChannel, NoEntryLeftBehind, StartsAlone
  <2>5. StopsAbort'  BY <1>1, <2>1, <2>3 DEF StartChannel, StopsAbort
  <2>6. TaskIsKnown' /\ ControllerIsKnown' /\ MonitorWaits' /\ HoldIsMarked'
    BY <1>1, <2>1, <2>2 DEF StartChannel, Begin, StartsAlone, TaskIsKnown, ControllerIsKnown,
                            MonitorWaits, HoldIsMarked
  <2> QED  BY <2>4, <2>5, <2>6
<1>2. ASSUME NotHandedOff(b), boots[b].phase = "configure"
      PROVE  NoEntryLeftBehind' /\ StartsAlone' /\ StopsAbort' /\ TaskIsKnown' /\ ControllerIsKnown'
  <2>1. \A d \in Boots : d # b => boots'[d] = boots[d]  BY <1>2 DEF NotHandedOff
  <2>2. boots'[b].phase = "free"  BY <1>2 DEF NotHandedOff
  <2> QED
    BY <1>2, <2>1, <2>2 DEF NotHandedOff, NoEntryLeftBehind, StartsAlone, StopsAbort,
                            TaskIsKnown, ControllerIsKnown
<1>3. ASSUME NotHandedOff(b), boots[b].phase = "configure", heldDown' => manuallyStopped'
      PROVE  MonitorWaits' /\ HoldIsMarked'
  BY <1>3 DEF NotHandedOff, HoldIsMarked, MonitorWaits, StartsAlone
<1>4. CASE BootRefused(b)
  BY <1>2, <1>3, <1>4 DEF BootRefused, NotHandedOff, HoldIsMarked
<1>5. CASE BootCancelled(b)
  <2>1. heldDown' => manuallyStopped'
    BY <1>5 DEF BootCancelled, NotHandedOff, StillStopped, HoldIsMarked, StartsAlone
  <2> QED  BY <1>2, <1>3, <1>5, <2>1 DEF BootCancelled
<1>6. CASE BootGoesLive(b) \/ BootThrows(b)
  <2>1. ~heldDown  BY <1>6 DEF BootGoesLive, BootThrows, Goes, StillStopped, HoldIsMarked, StartsAlone
  <2>2. CASE BootThrows(b)
    BY <1>2, <1>3, <2>1, <2>2 DEF BootThrows, Goes, NotHandedOff
  <2>3. CASE BootGoesLive(b)
    <3>1. \A d \in Boots : d # b => boots'[d] = boots[d]  BY <2>3 DEF BootGoesLive
    <3>2. boots'[b].phase = "live" /\ boots'[b].aborted = boots[b].aborted
      BY <2>3 DEF BootGoesLive
    <3>3. /\ boots[b].phase = "configure" /\ starting = b /\ tasks = NoBoot
          /\ tasks' = b /\ starting' = NoBoot
      BY <1>6, <2>3 DEF BootGoesLive, Goes, StartsAlone
    <3>4. NoEntryLeftBehind' /\ StartsAlone' /\ StopsAbort'
      BY <2>3, <3>1, <3>2, <3>3
      DEF BootGoesLive, NoEntryLeftBehind, StartsAlone, StopsAbort
    <3>5. TaskIsKnown' /\ ControllerIsKnown' /\ MonitorWaits' /\ HoldIsMarked'
      BY <2>1, <2>3, <3>1, <3>2, <3>3
      DEF BootGoesLive, TaskIsKnown, ControllerIsKnown, MonitorWaits, HoldIsMarked
    <3> QED  BY <3>4, <3>5
  <2> QED  BY <1>6, <2>2, <2>3
<1> QED  BY <1>1, <1>4, <1>5, <1>6 DEF Answer

(* A settled task gives its own entries back, and no other. *)
LEMMA SettleKeeps ==
  ASSUME TypeOK, Inductive, NEW b \in Boots, Settle(b), boots[b].phase # "configure",
         starting' = starting, stops' = stops, torn' = torn
  PROVE  NoEntryLeftBehind' /\ StartsAlone' /\ StopsAbort' /\ TaskIsKnown' /\ ControllerIsKnown'
<1> USE DEF TypeOK, Inductive, Maybe, Pending, Free
<1>1. \A d \in Boots : d # b => boots'[d] = boots[d]  BY DEF Settle
<1>2. boots'[b].phase = "free"  BY DEF Settle
<1>3. starting # b  BY ChannelAssumption DEF ChannelAssumption, NoEntryLeftBehind
<1> QED
  BY <1>1, <1>2, <1>3 DEF Settle, NoEntryLeftBehind, StartsAlone, StopsAbort, TaskIsKnown,
                          ControllerIsKnown

(* What its provider, its backoff and its restart do keeps the invariant. *)
LEMMA TaskKeeps ==
  ASSUME TypeOK, Inductive, NEW b \in Boots, TaskEnds(b) \/ Backoff(b) \/ RestartReturns(b)
  PROVE  Inductive'
<1> USE ChannelAssumption DEF ChannelAssumption, TypeOK, Inductive, Maybe, Pending, Free
<1>1. ASSUME Settle(b), boots[b].phase # "configure", starting' = starting, stops' = stops,
             torn' = torn, heldDown' = heldDown, manuallyStopped' = manuallyStopped,
             monitor' = monitor
      PROVE  Inductive'
  <2>1. boots[b].phase # "free" => starting # b  BY <1>1 DEF NoEntryLeftBehind
  <2>2. MonitorWaits' /\ HoldIsMarked'
    BY <1>1 DEF MonitorWaits, HoldIsMarked, Settle, NoEntryLeftBehind
  <2> QED  BY <1>1, <2>2, SettleKeeps
<1>2. CASE TaskEnds(b)
  <2>1. CASE Settle(b)  BY <1>1, <1>2, <2>1 DEF TaskEnds
  <2>2. CASE ~Settle(b)
    <3>1. boots' = [boots EXCEPT ![b].phase = "backoff"] /\ UNCHANGED <<tasks, aborts>>
      BY <1>2, <2>2 DEF TaskEnds
    <3>2. \A d \in Boots : d # b => boots'[d] = boots[d]  BY <3>1
    <3>3. boots'[b].phase = "backoff" /\ boots'[b].aborted = boots[b].aborted
      BY <3>1
    <3> QED
      BY <1>2, <3>1, <3>2, <3>3
      DEF TaskEnds, NoEntryLeftBehind, StartsAlone, StopsAbort, TaskIsKnown,
          ControllerIsKnown, MonitorWaits, HoldIsMarked
  <2> QED  BY <2>1, <2>2
<1>3. CASE BackoffEnds(b)  BY <1>1, <1>3 DEF BackoffEnds
<1>4. CASE RestartReturns(b)  BY <1>1, <1>4 DEF RestartReturns, RestartMade
<1>5. CASE BackoffRestarts(b)
  <2>1. ~heldDown /\ ~boots[b].aborted /\ boots[b].phase = "backoff" /\ tasks' = NoBoot
    BY <1>5 DEF BackoffRestarts, HoldIsMarked
  <2>2. ~torn => \A d \in Boots : boots[d].phase # "live"
    BY <1>5 DEF BackoffRestarts, TaskIsKnown
  <2>3. CASE starting = NoBoot
    <3>1. PICK next \in Boots :
            /\ Unused(next) /\ starting' = next /\ aborts' = next
            /\ boots' = [boots EXCEPT ![b].phase = "restart", ![b].on = next,
                            ![next] = [Free EXCEPT !.phase = "configure", !.preserve = TRUE]]
      BY <1>5, <2>3 DEF BackoffRestarts
    <3>2. next # b  BY <2>1, <3>1 DEF Unused
    <3>3. \A d \in Boots : d \notin {b, next} => boots'[d] = boots[d]  BY <3>1
    <3>4. boots'[b].phase = "restart" /\ boots'[b].aborted = boots[b].aborted
      <4> DEFINE new == [Free EXCEPT !.phase = "configure", !.preserve = TRUE]
      <4>1. boots' = [[boots EXCEPT ![b].phase = "restart", ![b].on = next] EXCEPT ![next] = new]
        BY <3>1
      <4> HIDE DEF new
      <4>2. boots'[b] = [[boots[b] EXCEPT !.phase = "restart"] EXCEPT !.on = next]
        BY <3>2, <4>1
      <4> QED  BY <4>2 DEF Boot
    <3>5. boots'[next].phase = "configure" /\ boots'[next].aborted = FALSE  BY <3>1
    <3>6. \A c \in Actors : stops[c].abort # next  BY <3>1 DEF Unused
    <3>7. NoEntryLeftBehind' /\ StartsAlone'
      BY <1>5, <2>1, <2>3, <3>1, <3>3, <3>4, <3>5
      DEF BackoffRestarts, NoEntryLeftBehind, StartsAlone
    <3>8. StopsAbort'
      BY <1>5, <3>3, <3>4, <3>5, <3>6, <2>1 DEF BackoffRestarts, StopsAbort
    <3>9. TaskIsKnown' /\ ControllerIsKnown' /\ MonitorWaits' /\ HoldIsMarked'
      BY <1>5, <2>1, <2>2, <2>3, <3>1, <3>3, <3>4, <3>5
      DEF BackoffRestarts, StartsAlone, TaskIsKnown, ControllerIsKnown, MonitorWaits, HoldIsMarked
    <3> QED  BY <3>7, <3>8, <3>9
  <2>4. CASE starting # NoBoot
    <3>1. /\ boots' = [boots EXCEPT ![b].phase = "restart", ![b].on = starting]
          /\ aborts' = IF aborts = b THEN NoBoot ELSE aborts
          /\ starting' = starting
      BY <1>5, <2>4 DEF BackoffRestarts
    <3>2. \A d \in Boots : d # b => boots'[d] = boots[d]  BY <3>1
    <3>3. boots'[b].phase = "restart" /\ boots'[b].aborted = boots[b].aborted
      BY <3>1
    <3>4. NoEntryLeftBehind' /\ StartsAlone'
      BY <1>5, <2>1, <2>2, <3>1, <3>2, <3>3 DEF BackoffRestarts, NoEntryLeftBehind, StartsAlone
    <3>5. StopsAbort'
      BY <1>5, <2>1, <2>2, <3>1, <3>2, <3>3 DEF BackoffRestarts, StopsAbort
    <3>6. TaskIsKnown' /\ ControllerIsKnown'
      BY <1>5, <2>1, <2>2, <3>1, <3>2, <3>3
      DEF BackoffRestarts, NoEntryLeftBehind, TaskIsKnown, ControllerIsKnown
    <3>7. MonitorWaits' /\ HoldIsMarked'
      BY <1>5, <2>1, <2>2, <3>1 DEF BackoffRestarts, MonitorWaits, HoldIsMarked
    <3> QED  BY <3>4, <3>5, <3>6, <3>7
  <2> QED  BY <2>3, <2>4
<1> QED  BY <1>2, <1>3, <1>4, <1>5 DEF Backoff

(* A stop aborts the controller it finds: no entry changes. *)
LEMMA StopAskedKeeps ==
  ASSUME TypeOK, Inductive, NEW c \in Actors, StopAsked(c)
  PROVE  /\ NoEntryLeftBehind' /\ StartsAlone' /\ StopsAbort' /\ TaskIsKnown' /\ ControllerIsKnown'
         /\ \A b \in Boots : boots'[b].preserve = boots[b].preserve
<1> USE ChannelAssumption DEF ChannelAssumption, TypeOK, Inductive, Maybe, Pending
<1>1. \A b \in Boots :
        /\ boots'[b].phase = boots[b].phase
        /\ boots'[b].preserve = boots[b].preserve
        /\ boots[b].aborted => boots'[b].aborted
        /\ b = aborts => boots'[b].aborted
  BY DEF StopAsked, Boot
<1>2. stops'[c].abort = aborts /\ \A d \in Actors : d # c => stops'[d] = stops[d]
  BY DEF StopAsked
<1>3. StopsAbort'  BY <1>1, <1>2 DEF StopsAbort
<1>4. NoEntryLeftBehind' /\ StartsAlone'
  BY <1>1 DEF StopAsked, NoEntryLeftBehind, StartsAlone
<1>5. TaskIsKnown' /\ ControllerIsKnown'
  BY <1>1 DEF StopAsked, TaskIsKnown, ControllerIsKnown
<1> QED  BY <1>1, <1>3, <1>4, <1>5

LEMMA StopKeeps ==
  ASSUME TypeOK, Inductive, NEW c \in Actors,
         StopChannel(c) \/ HookAnswers(c) \/ StopReturns(c)
  PROVE  Inductive'
<1> USE ChannelAssumption DEF ChannelAssumption, TypeOK, Inductive, Maybe
<1>1. CASE StopChannel(c)
  <2>1. HoldIsMarked'
    BY <1>1, StopAskedKeeps DEF StopChannel, StopAsked, HoldIsMarked
  <2>2. MonitorWaits'
    BY <1>1 DEF StopChannel, StopAsked, MonitorWaits, Actors
  <2> QED  BY <1>1, <2>1, <2>2, StopAskedKeeps DEF StopChannel
<1>2. CASE StopHookReturns(c)
  <2>1. \A d \in Actors : stops'[d].abort = stops[d].abort
    BY <1>2 DEF StopHookReturns
  <2>2. MonitorWaits'  BY <1>2 DEF StopHookReturns, MonitorWaits, Actors
  <2> QED
    BY <1>2, <2>1, <2>2 DEF StopHookReturns, NoEntryLeftBehind, StartsAlone, StopsAbort,
                            TaskIsKnown, ControllerIsKnown, HoldIsMarked, Pending
<1>3. CASE StopHookRejects(c)
  <2>1. \A d \in Actors : stops'[d].abort \in {stops[d].abort, NoBoot}
    BY <1>3 DEF StopHookRejects, NoStop
  <2>2. MonitorWaits'  BY <1>3 DEF StopHookRejects, MonitorWaits, NoStop, Actors
  <2>3. HoldIsMarked'  BY <1>3 DEF StopHookRejects, HoldIsMarked
  <2> QED
    BY <1>3, <2>1, <2>2, <2>3 DEF StopHookRejects, NoEntryLeftBehind, StartsAlone, StopsAbort,
                                  TaskIsKnown, ControllerIsKnown, Pending
<1>4. CASE StopReturns(c)
  <2>1. \A d \in Actors : d # c => stops'[d] = stops[d]  BY <1>4 DEF StopReturns
  <2>2. stops'[c].abort = NoBoot  BY <1>4 DEF StopReturns, NoStop
  <2>3. ~torn' => ~torn /\ aborts \in {NoBoot, stops[c].abort} /\ tasks \in {NoBoot, stops[c].task}
    BY <1>4 DEF StopReturns
  <2>4. tasks = stops[c].task /\ tasks # NoBoot => ~Pending(tasks)
    BY <1>4 DEF StopReturns, StopMade
  <2>5. NoEntryLeftBehind' /\ StartsAlone'
    BY <1>4 DEF StopReturns, NoEntryLeftBehind, StartsAlone
  <2>6. StopsAbort'  BY <1>4, <2>1, <2>2 DEF StopReturns, StopsAbort, Pending
  <2>7. TaskIsKnown'
    BY <1>4, <2>3, <2>4 DEF StopReturns, TaskIsKnown, Pending
  <2>8. ControllerIsKnown'
    BY <1>4, <2>3 DEF StopReturns, ControllerIsKnown, StopsAbort, Pending
  <2>9. HoldIsMarked'
    BY <1>4 DEF StopReturns, HoldIsMarked, MonitorWaits, StopMade
  <2>10. MonitorWaits'
    BY <1>4, <2>1 DEF StopReturns, MonitorWaits, NoStop, Actors
  <2> QED  BY <2>5, <2>6, <2>7, <2>8, <2>9, <2>10
<1> QED  BY <1>1, <1>2, <1>3, <1>4 DEF HookAnswers

(* The health monitor, which restarts only what is not marked, and a logout. *)
LEMMA MonitorKeeps ==
  ASSUME TypeOK, Inductive,
         MonitorLooks \/ Judge \/ MonitorRestarts \/ MonitorStarted \/ MarkChannelLoggedOut
  PROVE  Inductive'
<1> USE ChannelAssumption DEF ChannelAssumption, TypeOK, Inductive, Maybe, Pending
<1>1. ASSUME UNCHANGED <<boots, starting, aborts, tasks, manuallyStopped, stops, heldDown, torn>>,
             monitor = "stop" <=> monitor' = "stop", 
             heldDown => monitor' \in {"idle", "seenUp", "seenDown"}
      PROVE  Inductive'
  BY <1>1 DEF NoEntryLeftBehind, StartsAlone, StopsAbort, TaskIsKnown, ControllerIsKnown,
              MonitorWaits, HoldIsMarked
<1>2. CASE MonitorLooks \/ MonitorPasses
  BY <1>1, <1>2 DEF MonitorLooks, MonitorPasses
<1>3. CASE MonitorFindsDown
  BY <1>1, <1>3 DEF MonitorFindsDown, HoldIsMarked
<1>4. CASE MonitorStarted
  BY <1>1, <1>4 DEF MonitorStarted, MonitorStartMade
<1>5. CASE MarkChannelLoggedOut
  BY <1>1, <1>5 DEF MarkChannelLoggedOut, HoldIsMarked
<1>6. CASE MonitorStops
  <2>1. ~heldDown  BY <1>6 DEF MonitorStops, HoldIsMarked
  <2>2. CASE FindsNothing  BY <1>1, <1>6, <2>1, <2>2 DEF MonitorStops
  <2>3. CASE ~FindsNothing
    <3>1. Monitor \in Actors /\ StopAsked(Monitor) /\ monitor' = "stop" /\ heldDown' = heldDown
      BY <1>6, <2>3 DEF MonitorStops, Actors
    <3> QED  BY <2>1, <3>1, StopAskedKeeps DEF MonitorWaits, HoldIsMarked
  <2> QED  BY <2>2, <2>3
<1>7. CASE MonitorRestarts
  <2>1. ~heldDown /\ heldDown' = heldDown /\ monitor = "restart" /\ monitor' # "stop"
    BY <1>7 DEF MonitorRestarts, HoldIsMarked
  <2>2. CASE UNCHANGED <<boots, starting, aborts>>
    BY <1>1, <1>7, <2>1, <2>2 DEF MonitorRestarts
  <2>3. CASE \E b \in Boots : Begin(b, FALSE)
    <3>1. PICK b \in Boots : Begin(b, FALSE)  BY <2>3
    <3>2. \A d \in Boots : d # b => boots'[d] = boots[d]  BY <3>1 DEF Begin
    <3>3. /\ boots'[b].phase = "configure" /\ boots'[b].aborted = FALSE
          /\ starting' = b /\ aborts' = b /\ tasks = NoBoot /\ starting = NoBoot
      BY <3>1 DEF Begin, Free
    <3>4. \A c \in Actors : stops[c].abort # b  BY <3>1 DEF Begin, Unused
    <3>5. NoEntryLeftBehind' /\ StartsAlone'
      BY <1>7, <3>2, <3>3 DEF MonitorRestarts, NoEntryLeftBehind, StartsAlone
    <3>6. StopsAbort'  BY <1>7, <3>2, <3>4 DEF MonitorRestarts, StopsAbort
    <3>7. TaskIsKnown' /\ HoldIsMarked'
      BY <1>7, <2>1, <3>2, <3>3 DEF MonitorRestarts, TaskIsKnown, HoldIsMarked
    <3>8. ControllerIsKnown'
      BY <1>7, <3>2, <3>3 DEF MonitorRestarts, TaskIsKnown, StartsAlone, ControllerIsKnown
    <3>9. MonitorWaits'  BY <1>7, <2>1 DEF MonitorRestarts, MonitorWaits
    <3> QED  BY <3>5, <3>6, <3>7, <3>8, <3>9
  <2> QED  BY <1>7, <2>2, <2>3 DEF MonitorRestarts
<1> QED  BY <1>2, <1>3, <1>4, <1>5, <1>6, <1>7 DEF Judge

-----------------------------------------------------------------------------
LEMMA StepKeeps ==
  ASSUME TypeOK, Inductive, [Next]_vars
  PROVE  TypeOK' /\ Inductive'
<1>1. ASSUME NEW b \in Boots,
             StartChannel(b) \/ Answer(b) \/ TaskEnds(b) \/ Backoff(b) \/ RestartReturns(b)
      PROVE  TypeOK' /\ Inductive'
  BY <1>1, StartType, TaskType, StartKeeps, TaskKeeps
<1>2. ASSUME NEW c \in Actors, StopChannel(c) \/ HookAnswers(c) \/ StopReturns(c)
      PROVE  TypeOK' /\ Inductive'
  BY <1>2, StopType, StopKeeps
<1>3. CASE MonitorLooks \/ Judge \/ MonitorRestarts \/ MonitorStarted \/ MarkChannelLoggedOut
  BY <1>3, MonitorType, MonitorKeeps
<1>4. CASE UNCHANGED vars
  BY <1>4 DEF vars, TypeOK, Inductive, NoEntryLeftBehind, StartsAlone, StopsAbort, TaskIsKnown,
              ControllerIsKnown, MonitorWaits, HoldIsMarked, Pending
<1>5. CASE React  BY <1>1, <1>2, <1>3, <1>5 DEF React
<1>6. CASE Act  BY <1>1, <1>2, <1>3, <1>6 DEF Act, Actors
<1> QED  BY <1>4, <1>5, <1>6 DEF Next

(* The type invariant and the inductive invariant hold throughout the life of an
   account (server-channels.ts, channel-health-monitor.ts). *)
THEOREM ChannelInvariance == Spec => [](TypeOK /\ Inductive)
<1>1. TypeOK /\ Inductive /\ [Next]_vars => TypeOK' /\ Inductive'
  BY StepKeeps
<1> QED  BY InitHolds, <1>1, PTL DEF Spec

(* The entries of the store, the start attempts, the stops and the monitor keep
   their types. *)
THEOREM ChannelTypes == Spec => []TypeOK
  BY ChannelInvariance, PTL

(* An entry of the store belongs to something that is under way. *)
THEOREM EntriesAreOwned == Spec => []NoEntryLeftBehind
<1>1. Inductive => NoEntryLeftBehind  BY DEF Inductive
<1> QED  BY <1>1, ChannelInvariance, PTL

(* Unless a stop deleted the entries of a later start, two provider tasks never
   run for one account at a time. *)
THEOREM TasksRunAlone == Spec => []OneTaskPerAccount
<1>1. TypeOK /\ Inductive => OneTaskPerAccount
  <2> SUFFICES ASSUME TypeOK, Inductive, ~torn
               PROVE  Cardinality({b \in Boots : boots[b].phase = "live"}) <= 1
    BY DEF OneTaskPerAccount
  <2> DEFINE Live == {b \in Boots : boots[b].phase = "live"}
  <2>1. Live = {} \/ Live = {tasks}  BY DEF Inductive, TaskIsKnown
  <2>2. Cardinality({}) = 0 /\ Cardinality({tasks}) = 1  BY FS_EmptySet, FS_Singleton
  <2>3. Cardinality(Live) \in {0, 1}  BY <2>1, <2>2
  <2> HIDE DEF Live
  <2>4. Cardinality(Live) <= 1  BY <2>3
  <2> QED  BY <2>4 DEF Live
<1> QED  BY <1>1, ChannelInvariance, PTL

(* Unless a stop did so, a provider that runs can be stopped. *)
THEOREM TasksAreReachable == Spec => []LiveIsReachable
<1>1. Inductive => LiveIsReachable
  BY DEF Inductive, TaskIsKnown, ControllerIsKnown, LiveIsReachable
<1> QED  BY <1>1, ChannelInvariance, PTL

(* An account that a user stopped starts again only when a user asks for it:
   a start that respects the mark is cancelled, every other start of the monitor
   needs an account that is not marked, and a backoff ends when it finds the
   mark. *)
THEOREM StopsHold == Spec => StoppedStaysDown
<1> DEFINE Down == heldDown /\ heldDown' =>
                     \A b \in Boots : boots'[b].phase = "live" => boots[b].phase = "live"
<1>1. TypeOK /\ Inductive /\ [Next]_vars => [Down]_vars
  <2> SUFFICES ASSUME TypeOK, Inductive, [Next]_vars, heldDown, NEW d \in Boots,
                      boots[d].phase # "live"
               PROVE  boots'[d].phase # "live"
    BY DEF Down
  <2> USE DEF TypeOK
  <2>1. \A b \in Boots : ~Goes(b)
    BY ChannelAssumption DEF ChannelAssumption, Goes, StillStopped, Inductive, HoldIsMarked,
       StartsAlone
  <2>2. ASSUME NEW b \in Boots, StartChannel(b) \/ Answer(b)
        PROVE  boots'[d].phase # "live"
    <3>1. CASE StartChannel(b)
      <4>1. boots'[b].phase = "configure"  BY <3>1 DEF StartChannel, Begin, Free
      <4>2. b # d => boots'[d] = boots[d]  BY <3>1 DEF StartChannel, Begin
      <4> QED  BY <4>1, <4>2
    <3>2. CASE NotHandedOff(b)
      <4>1. boots'[b].phase = "free"  BY <3>2 DEF NotHandedOff, Free
      <4>2. b # d => boots'[d] = boots[d]  BY <3>2 DEF NotHandedOff
      <4> QED  BY <4>1, <4>2
    <3> QED
      BY <2>1, <2>2, <3>1, <3>2 DEF Answer, BootRefused, BootCancelled, BootGoesLive, BootThrows
  <2>3. ASSUME NEW b \in Boots, TaskEnds(b) \/ BackoffEnds(b) \/ RestartReturns(b)
        PROVE  boots'[d].phase # "live"
    <3>1. Settle(b) \/ boots' = [boots EXCEPT ![b].phase = "backoff"]
      BY <2>3 DEF TaskEnds, BackoffEnds, RestartReturns
    <3>2. boots'[b] = Free \/ boots'[b] = [boots[b] EXCEPT !.phase = "backoff"]
      BY <3>1 DEF Settle
    <3>3. boots'[b].phase # "live"  BY <3>2 DEF Free, Boot
    <3>4. b # d => boots'[d] = boots[d]  BY <3>1 DEF Settle
    <3> QED  BY <3>3, <3>4
  <2>4. ASSUME NEW b \in Boots, BackoffRestarts(b) PROVE FALSE
    BY <2>4 DEF BackoffRestarts, Inductive, HoldIsMarked
  <2>5. ASSUME NEW c \in Actors, StopChannel(c) \/ HookAnswers(c) \/ StopReturns(c)
        PROVE  boots'[d].phase # "live"
    <3>1. StopAsked(c) \/ boots' = boots
      BY <2>5 DEF StopChannel, HookAnswers, StopHookReturns, StopHookRejects, StopReturns
    <3>2. boots'[d] \in {boots[d], [boots[d] EXCEPT !.aborted = TRUE]}
      BY <3>1 DEF StopAsked
    <3> QED  BY <3>2 DEF Boot
  <2>6. CASE MonitorLooks \/ Judge \/ MonitorStarted \/ MarkChannelLoggedOut
    BY <2>6 DEF MonitorLooks, Judge, MonitorPasses, MonitorStops, MonitorFindsDown,
                MonitorStarted, MarkChannelLoggedOut, Inductive, HoldIsMarked
  <2>7. ~MonitorRestarts  BY DEF MonitorRestarts, Inductive, HoldIsMarked
  <2>8. CASE UNCHANGED vars  BY <2>8 DEF vars
  <2> QED  BY <2>2, <2>3, <2>4, <2>5, <2>6, <2>7, <2>8 DEF Next, React, Act, Backoff, Actors
<1> QED  BY <1>1, ChannelInvariance, PTL DEF Spec, StoppedStaysDown

-----------------------------------------------------------------------------
(* What is waited for.  The controller of a task, in its backoff too, is the one
   the store has, so that a stop that reads the task has told it to end. *)
TaskHasController == ~torn /\ tasks # NoBoot => aborts = tasks \/ boots[tasks].aborted

StopsToldTheirTask ==
    ~torn => \A c \in Actors : \A b \in Boots :
      stops[c].task = b /\ Pending(b) =>
        boots[b].aborted /\ boots[b].phase \in {"live", "backoff"}

RestartHasItsStart == \A b \in Boots : boots[b].phase = "restart" => boots[b].on # NoBoot

MonitorHasItsCall == /\ monitor = "start" => gate # NoBoot
                     /\ monitor = "stop" => stops[Monitor].phase # "no"

Waiting == TaskHasController /\ StopsToldTheirTask /\ RestartHasItsStart /\ MonitorHasItsCall

(* A start attempt that begins is one that nobody waited for. *)
LEMMA BeginWaits ==
  ASSUME TypeOK, Inductive, Waiting, NEW b \in Boots, NEW p \in BOOLEAN, Begin(b, p),
         UNCHANGED <<stops, torn, tasks>>
  PROVE  TaskHasController' /\ StopsToldTheirTask' /\ RestartHasItsStart'
<1> USE ChannelAssumption DEF ChannelAssumption, TypeOK, Inductive, Maybe, Pending, Free, Waiting
<1>1. \A d \in Boots : d # b => boots'[d] = boots[d]  BY DEF Begin
<1>2. boots'[b].phase = "configure"  BY DEF Begin
<1>3. tasks' = NoBoot /\ \A c \in Actors : stops'[c].task # b  BY DEF Begin, Unused
<1>4. TaskHasController'  BY <1>3 DEF TaskHasController
<1>5. StopsToldTheirTask'  BY <1>1, <1>3 DEF StopsToldTheirTask
<1>6. RestartHasItsStart'  BY <1>1, <1>2 DEF RestartHasItsStart
<1> QED  BY <1>4, <1>5, <1>6

(* One that is free again is waited for no longer. *)
LEMMA FreedWaits ==
  ASSUME TypeOK, Inductive, Waiting, NEW b \in Boots, boots' = [boots EXCEPT ![b] = Free],
         UNCHANGED <<stops, torn, monitor, gate>>,
         \/ tasks' = NoBoot
         \/ tasks' = tasks /\ tasks # b /\ (aborts # b => aborts' = aborts)
  PROVE  Waiting'
<1> USE ChannelAssumption DEF ChannelAssumption, TypeOK, Inductive, Maybe, Pending, Free, Waiting
<1>1. \A d \in Boots : d # b => boots'[d] = boots[d]  OBVIOUS
<1>2. boots'[b].phase = "free"  OBVIOUS
<1>3. TaskHasController'  BY <1>1 DEF TaskHasController
<1>4. StopsToldTheirTask'  BY <1>1, <1>2 DEF StopsToldTheirTask
<1>5. RestartHasItsStart'  BY <1>1, <1>2 DEF RestartHasItsStart
<1>6. MonitorHasItsCall'  BY DEF MonitorHasItsCall
<1> QED  BY <1>3, <1>4, <1>5, <1>6

LEMMA StartWaits ==
  ASSUME TypeOK, Inductive, Waiting, NEW b \in Boots, StartChannel(b) \/ Answer(b)
  PROVE  Waiting'
<1>1. CASE StartChannel(b)
  <2>1. TaskHasController' /\ StopsToldTheirTask' /\ RestartHasItsStart'
    BY <1>1, BeginWaits DEF StartChannel
  <2>2. MonitorHasItsCall'  BY <1>1 DEF StartChannel, MonitorHasItsCall, Waiting
  <2> QED  BY <2>1, <2>2 DEF Waiting
<1>2. ASSUME NotHandedOff(b), boots[b].phase = "configure" PROVE Waiting'
  <2>1. tasks # b
    BY <1>2, ChannelAssumption DEF ChannelAssumption, Inductive, NoEntryLeftBehind
  <2> QED  BY <1>2, <2>1, FreedWaits DEF NotHandedOff
<1>3. CASE BootRefused(b)  BY <1>2, <1>3 DEF BootRefused
<1>4. CASE BootCancelled(b)  BY <1>2, <1>4 DEF BootCancelled
<1>5. CASE BootThrows(b)  BY <1>2, <1>5 DEF BootThrows, Goes
<1>6. CASE BootGoesLive(b)
  <2> USE ChannelAssumption DEF ChannelAssumption, TypeOK, Inductive, Maybe, Pending, Waiting
  <2>1. \A d \in Boots : d # b => boots'[d] = boots[d]  BY <1>6 DEF BootGoesLive
  <2>2. boots'[b].phase = "live" /\ boots'[b].aborted = boots[b].aborted
    BY <1>6 DEF BootGoesLive
  <2>3. boots[b].phase = "configure" /\ ~boots[b].aborted /\ tasks' = b
    BY <1>6 DEF BootGoesLive, Goes
  <2>4. ~torn => \A c \in Actors : stops[c].task # b
    BY <2>3 DEF StopsToldTheirTask
  <2>5. TaskHasController'
    BY <1>6, <2>3 DEF BootGoesLive, TaskHasController, ControllerIsKnown
  <2>6. StopsToldTheirTask'  BY <1>6, <2>1, <2>4 DEF BootGoesLive, StopsToldTheirTask
  <2>7. RestartHasItsStart'  BY <2>1, <2>2 DEF RestartHasItsStart
  <2>8. MonitorHasItsCall'  BY <1>6 DEF BootGoesLive, MonitorHasItsCall
  <2> QED  BY <2>5, <2>6, <2>7, <2>8
<1> QED  BY <1>1, <1>3, <1>4, <1>5, <1>6 DEF Answer

LEMMA TaskWaits ==
  ASSUME TypeOK, Inductive, Waiting, NEW b \in Boots, TaskEnds(b) \/ Backoff(b) \/ RestartReturns(b)
  PROVE  Waiting'
<1> USE ChannelAssumption DEF ChannelAssumption, TypeOK, Inductive, Maybe, Pending, Waiting
<1>1. ASSUME Settle(b), UNCHANGED <<stops, torn, monitor, gate>> PROVE Waiting'
  <2>1. \/ tasks' = NoBoot
        \/ tasks' = tasks /\ tasks # b /\ (aborts # b => aborts' = aborts)
    BY <1>1 DEF Settle
  <2> QED  BY <1>1, <2>1, FreedWaits DEF Settle
<1>2. CASE TaskEnds(b)
  <2>1. CASE Settle(b)  BY <1>1, <1>2, <2>1 DEF TaskEnds
  <2>2. CASE ~Settle(b)
    <3>1. boots' = [boots EXCEPT ![b].phase = "backoff"] /\ UNCHANGED <<tasks, aborts>>
      BY <1>2, <2>2 DEF TaskEnds
    <3>2. \A d \in Boots : d # b => boots'[d] = boots[d]  BY <3>1
    <3>3. boots'[b].phase = "backoff" /\ boots'[b].aborted = boots[b].aborted
      BY <3>1
    <3>4. boots[b].phase = "live" /\ UNCHANGED <<stops, torn, monitor, gate>>
      BY <1>2 DEF TaskEnds
    <3>5. TaskHasController'  BY <3>1, <3>2, <3>3, <3>4 DEF TaskHasController
    <3>6. StopsToldTheirTask'  BY <3>2, <3>3, <3>4 DEF StopsToldTheirTask
    <3>7. RestartHasItsStart'  BY <3>2, <3>3 DEF RestartHasItsStart
    <3>8. MonitorHasItsCall'  BY <3>4 DEF MonitorHasItsCall
    <3> QED  BY <3>5, <3>6, <3>7, <3>8
  <2> QED  BY <2>1, <2>2
<1>3. CASE BackoffEnds(b)  BY <1>1, <1>3 DEF BackoffEnds
<1>4. CASE RestartReturns(b)  BY <1>1, <1>4 DEF RestartReturns
<1>5. CASE BackoffRestarts(b)
  <2>1. /\ ~boots[b].aborted /\ boots[b].phase = "backoff" /\ tasks' = NoBoot
        /\ UNCHANGED <<stops, torn, monitor, gate>>
    BY <1>5 DEF BackoffRestarts
  <2>2. ~torn => \A c \in Actors : stops[c].task # b  BY <2>1 DEF StopsToldTheirTask
  <2>3. PICK n \in Boots :
          /\ boots'[b].phase = "restart" /\ boots'[b].on = n /\ n # b
          /\ \A d \in Boots : d \notin {b, n} => boots'[d] = boots[d]
          /\ \/ boots'[n] = boots[n]
             \/ Unused(n) /\ boots'[n].phase = "configure"
    <3>1. CASE starting = NoBoot
      <4>1. PICK next \in Boots :
              /\ Unused(next)
              /\ boots' = [boots EXCEPT ![b].phase = "restart", ![b].on = next,
                              ![next] = [Free EXCEPT !.phase = "configure", !.preserve = TRUE]]
        BY <1>5, <3>1 DEF BackoffRestarts
      <4>2. next # b  BY <2>1, <4>1 DEF Unused
      <4> DEFINE new == [Free EXCEPT !.phase = "configure", !.preserve = TRUE]
      <4>3. boots' = [[boots EXCEPT ![b].phase = "restart", ![b].on = next] EXCEPT ![next] = new]
        BY <4>1
      <4>4. new.phase = "configure"  BY DEF Free
      <4> HIDE DEF new
      <4>5. boots'[b] = [[boots[b] EXCEPT !.phase = "restart"] EXCEPT !.on = next]
        BY <4>2, <4>3
      <4>6. boots'[b].phase = "restart" /\ boots'[b].on = next  BY <4>5 DEF Boot
      <4>7. \A d \in Boots : d \notin {b, next} => boots'[d] = boots[d]  BY <4>3
      <4>8. boots'[next].phase = "configure"  BY <4>3, <4>4
      <4> QED  BY <4>1, <4>2, <4>6, <4>7, <4>8
    <3>2. CASE starting # NoBoot
      <4>1. boots' = [boots EXCEPT ![b].phase = "restart", ![b].on = starting]
        BY <1>5, <3>2 DEF BackoffRestarts
      <4>2. starting # b /\ starting \in Boots  BY <2>1, <3>2 DEF NoEntryLeftBehind
      <4>3. boots'[b] = [[boots[b] EXCEPT !.phase = "restart"] EXCEPT !.on = starting]
        BY <4>1
      <4>4. boots'[b].phase = "restart" /\ boots'[b].on = starting  BY <4>3 DEF Boot
      <4>5. \A d \in Boots : d # b => boots'[d] = boots[d]  BY <4>1
      <4> QED  BY <4>2, <4>4, <4>5
    <3> QED  BY <3>1, <3>2
  <2>4. TaskHasController'  BY <2>1 DEF TaskHasController
  <2>5. StopsToldTheirTask'
    BY <2>1, <2>2, <2>3 DEF StopsToldTheirTask, Unused
  <2>6. RestartHasItsStart'  BY <2>3 DEF RestartHasItsStart
  <2>7. MonitorHasItsCall'  BY <2>1 DEF MonitorHasItsCall
  <2> QED  BY <2>4, <2>5, <2>6, <2>7
<1> QED  BY <1>2, <1>3, <1>4, <1>5 DEF Backoff

(* A stop reads the task and aborts its controller in one go. *)
LEMMA StopAskedWaits ==
  ASSUME TypeOK, Inductive, Waiting, NEW c \in Actors, StopAsked(c)
  PROVE  /\ TaskHasController' /\ StopsToldTheirTask' /\ RestartHasItsStart'
         /\ stops'[c].phase # "no" /\ \A d \in Actors : d # c => stops'[d] = stops[d]
<1> USE ChannelAssumption DEF ChannelAssumption, TypeOK, Inductive, Maybe, Pending, Waiting
<1>1. \A b \in Boots :
        /\ boots'[b].phase = boots[b].phase /\ boots'[b].on = boots[b].on
        /\ boots[b].aborted => boots'[b].aborted
        /\ b = aborts => boots'[b].aborted
  BY DEF StopAsked, Boot
<1>2. /\ stops'[c].task = tasks /\ stops'[c].phase # "no"
      /\ \A d \in Actors : d # c => stops'[d] = stops[d]
      /\ UNCHANGED <<tasks, aborts, torn>>
  BY DEF StopAsked
<1>3. TaskHasController'  BY <1>1, <1>2 DEF TaskHasController
<1>4. RestartHasItsStart'  BY <1>1 DEF RestartHasItsStart
<1>5. StopsToldTheirTask'
  <2> SUFFICES ASSUME ~torn, NEW d \in Actors, NEW b \in Boots, stops'[d].task = b,
                      boots[b].phase # "free"
               PROVE  boots'[b].aborted /\ boots[b].phase \in {"live", "backoff"}
    BY <1>1, <1>2 DEF StopsToldTheirTask
  <2>1. CASE d # c  BY <1>1, <1>2, <2>1 DEF StopsToldTheirTask
  <2>2. CASE d = c
    <3>1. tasks = b  BY <1>2, <2>2
    <3> QED  BY <1>1, <3>1 DEF TaskHasController, NoEntryLeftBehind
  <2> QED  BY <2>1, <2>2
<1> QED  BY <1>2, <1>3, <1>4, <1>5

LEMMA StopWaits ==
  ASSUME TypeOK, Inductive, Waiting, NEW c \in Actors,
         StopChannel(c) \/ HookAnswers(c) \/ StopReturns(c)
  PROVE  Waiting'
<1> USE ChannelAssumption DEF ChannelAssumption, TypeOK, Maybe, Pending, Waiting, Actors
<1>1. CASE StopChannel(c)
  <2>1. MonitorHasItsCall'
    BY <1>1, StopAskedWaits DEF StopChannel, MonitorHasItsCall
  <2> QED  BY <1>1, <2>1, StopAskedWaits DEF StopChannel
<1>2. CASE StopHookReturns(c)
  <2>1. /\ \A d \in Actors : stops'[d].task = stops[d].task
        /\ \A d \in Actors : stops[d].phase # "no" => stops'[d].phase # "no"
        /\ UNCHANGED <<boots, tasks, aborts, torn, monitor, gate>>
    BY <1>2 DEF StopHookReturns
  <2> QED
    BY <2>1 DEF TaskHasController, StopsToldTheirTask, RestartHasItsStart, MonitorHasItsCall
<1>3. CASE StopHookRejects(c)
  <2>1. /\ \A d \in Actors : d # c => stops'[d] = stops[d]
        /\ stops'[c].task = NoBoot
        /\ UNCHANGED <<boots, tasks, aborts, torn, gate>>
        /\ monitor' = IF c = Monitor THEN "idle" ELSE monitor
    BY <1>3 DEF StopHookRejects, NoStop
  <2>2. TaskHasController' /\ RestartHasItsStart'
    BY <2>1 DEF TaskHasController, RestartHasItsStart
  <2>3. StopsToldTheirTask'  BY <2>1 DEF StopsToldTheirTask
  <2>4. MonitorHasItsCall'  BY <2>1 DEF MonitorHasItsCall
  <2> QED  BY <2>2, <2>3, <2>4
<1>4. CASE StopReturns(c)
  <2>1. /\ \A d \in Actors : d # c => stops'[d] = stops[d]
        /\ stops'[c].task = NoBoot /\ tasks' = NoBoot
        /\ UNCHANGED <<boots, gate>> /\ (~torn' => ~torn)
        /\ monitor' = IF c = Monitor THEN "restart" ELSE monitor
    BY <1>4 DEF StopReturns, NoStop
  <2>2. TaskHasController'  BY <2>1 DEF TaskHasController
  <2>3. StopsToldTheirTask'  BY <2>1 DEF StopsToldTheirTask
  <2>4. RestartHasItsStart' /\ MonitorHasItsCall'
    BY <2>1 DEF RestartHasItsStart, MonitorHasItsCall
  <2> QED  BY <2>2, <2>3, <2>4
<1> QED  BY <1>1, <1>2, <1>3, <1>4 DEF HookAnswers

LEMMA MonitorWaitsWell ==
  ASSUME TypeOK, Inductive, Waiting,
         MonitorLooks \/ Judge \/ MonitorRestarts \/ MonitorStarted \/ MarkChannelLoggedOut
  PROVE  Waiting'
<1> USE ChannelAssumption DEF ChannelAssumption, TypeOK, Maybe, Pending, Waiting, Actors
<1>1. ASSUME UNCHANGED <<boots, aborts, tasks, stops, torn>>, MonitorHasItsCall' PROVE Waiting'
  BY <1>1 DEF TaskHasController, StopsToldTheirTask, RestartHasItsStart
<1>2. CASE MonitorLooks \/ MonitorPasses \/ MonitorFindsDown \/ MonitorStarted
  BY <1>1, <1>2 DEF MonitorLooks, MonitorPasses, MonitorFindsDown, MonitorStarted, MonitorHasItsCall
<1>3. CASE MarkChannelLoggedOut
  BY <1>1, <1>3 DEF MarkChannelLoggedOut, MonitorHasItsCall
<1>4. CASE MonitorStops
  <2>1. CASE FindsNothing  BY <1>1, <1>4, <2>1 DEF MonitorStops, MonitorHasItsCall
  <2>2. CASE ~FindsNothing
    <3>1. Monitor \in Actors /\ StopAsked(Monitor) /\ monitor' = "stop"
      BY <1>4, <2>2 DEF MonitorStops
    <3> QED  BY <3>1, StopAskedWaits DEF MonitorHasItsCall
  <2> QED  BY <2>1, <2>2
<1>5. CASE MonitorRestarts
  <2>1. MonitorHasItsCall'  BY <1>5 DEF MonitorRestarts, MonitorHasItsCall
  <2>2. UNCHANGED <<stops, torn, tasks>>  BY <1>5 DEF MonitorRestarts
  <2>3. CASE UNCHANGED <<boots, starting, aborts>>  BY <1>1, <2>1, <2>2, <2>3
  <2>4. CASE \E b \in Boots : Begin(b, FALSE)
    BY <2>1, <2>2, <2>4, BeginWaits
  <2> QED  BY <1>5, <2>3, <2>4 DEF MonitorRestarts
<1> QED  BY <1>2, <1>3, <1>4, <1>5 DEF Judge

LEMMA StepWaits ==
  ASSUME TypeOK, Inductive, Waiting, [Next]_vars
  PROVE  Waiting'
<1>1. ASSUME NEW b \in Boots,
             StartChannel(b) \/ Answer(b) \/ TaskEnds(b) \/ Backoff(b) \/ RestartReturns(b)
      PROVE  Waiting'
  BY <1>1, StartWaits, TaskWaits
<1>2. ASSUME NEW c \in Actors, StopChannel(c) \/ HookAnswers(c) \/ StopReturns(c)
      PROVE  Waiting'
  BY <1>2, StopWaits
<1>3. CASE MonitorLooks \/ Judge \/ MonitorRestarts \/ MonitorStarted \/ MarkChannelLoggedOut
  BY <1>3, MonitorWaitsWell
<1>4. CASE UNCHANGED vars
  BY <1>4 DEF vars, Waiting, TaskHasController, StopsToldTheirTask, RestartHasItsStart,
              MonitorHasItsCall, Pending
<1>5. CASE React  BY <1>1, <1>2, <1>3, <1>5 DEF React
<1>6. CASE Act  BY <1>1, <1>2, <1>3, <1>6 DEF Act, Actors
<1> QED  BY <1>4, <1>5, <1>6 DEF Next

(* Nothing waits in vain: not a stop, a restart or the health monitor, until a stop
   deletes the entries of a later start. *)
THEOREM WaitsAreAnswered == Spec => []NoneWaitsInVain
<1>1. Init => Waiting
  BY ChannelAssumption
  DEF ChannelAssumption, Init, Waiting, TaskHasController, StopsToldTheirTask,
      RestartHasItsStart, MonitorHasItsCall, Free, NoStop, Pending
<1>2. TypeOK /\ Inductive /\ Waiting /\ [Next]_vars => Waiting'
  BY StepWaits
<1>3. Waiting => NoneWaitsInVain
  BY DEF Waiting, StopsToldTheirTask, RestartHasItsStart, MonitorHasItsCall, NoneWaitsInVain
<1> QED  BY <1>1, <1>2, <1>3, ChannelInvariance, PTL DEF Spec
=============================================================================
