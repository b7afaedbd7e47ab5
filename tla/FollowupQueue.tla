---------------------------- MODULE FollowupQueue ----------------------------
(* The messages of one session that wait until its agent run is over
   (src/auto-reply/reply/queue): whether a message runs at once or is queued is
   decided from a snapshot of what runs; the queue has a cap and a policy for
   what exceeds it, is drained one by one or collected into one prompt, is
   deleted when it is empty and created anew by the next message, and is cleared
   by an abort or a reset of the session, whatever its drain is doing.

   A queue object and the drain that holds it outlive their entry in the map, so
   objects are modelled, and the map holds one of them.  Code between two awaits
   is one action.  Left out: steering into a run, the text of prompts and
   summaries, the expiry of the message ids that were seen, and the remembered
   callback, which only says which closure runs a message: nothing restarts a
   drain through it. *)
EXTENDS Naturals, Sequences, FiniteSets

CONSTANTS
    Msgs,
    Dest,            \* where each message is to be answered
    Queues,          \* queue objects alive at a time (a bound)
    NoQueue,
    Cap,
    Settings,        \* the settings that messages come with
    MaxUpsets        \* a bound: runs that fail, and clears

ASSUME FollowupAssumption ==
    /\ NoQueue \notin Queues
    /\ Cap \in Nat \ {0}
    /\ Settings \subseteq [mode : {"followup", "collect"}, policy : {"old", "new", "summarize"}]
    /\ MaxUpsets \in Nat

VARIABLES
    mapped,          \* the queue FOLLOWUP_QUEUES has for the session
    queue,           \* each queue object and how far its drain has come
    at,              \* where each message is on its way
    ran,             \* how often each message was run with success
    cleared, dropped, replaced,   \* history: what was cleared, exceeded the cap,
                                  \* or gave its place to a summary
    hit,             \* history: was a drain's queue changed under it?
    agentRuns,       \* is a run of the gateway's agent method active in the session?
    behind,          \* history: what was queued at rest while nothing but that ran
    upsets           \* runs that failed, and clears

agent == <<agentRuns, behind>>
vars == <<mapped, queue, at, ran, cleared, dropped, replaced, hit, upsets, agent>>

Queue == [items : UNION {[1 .. n -> Msgs] : n \in 0 .. Cap}, count : Nat,
          mode : {"followup", "collect"}, policy : {"old", "new", "summarize"},
          drain : {"no", "debounce", "one", "batch", "summary"},
          inRun : UNION {[1 .. n -> Msgs] : n \in 0 .. Cap},
          individually : BOOLEAN, told : BOOLEAN]

TypeOK ==
    /\ mapped \in Queues \cup {NoQueue}
    /\ queue \in [Queues -> Queue]
    /\ at \in [Msgs -> {"away", "late", "prepares", "runs", "closes", "over", "queued", "refused"}]
    /\ ran \in [Msgs -> 0 .. 2]
    /\ cleared \subseteq Msgs /\ dropped \subseteq Msgs /\ replaced \subseteq Msgs
    /\ hit \in BOOLEAN
    /\ agentRuns \in BOOLEAN /\ behind \subseteq Msgs
    /\ upsets \in 0 .. MaxUpsets

Created(set) ==
    [items |-> <<>>, count |-> 0, mode |-> set.mode, policy |-> set.policy, drain |-> "no",
     inRun |-> <<>>, individually |-> FALSE, told |-> FALSE]

Init ==
    /\ mapped = NoQueue
    /\ queue = [q \in Queues |-> Created([mode |-> "followup", policy |-> "summarize"])]
    /\ at = [m \in Msgs |-> "away"]
    /\ ran = [m \in Msgs |-> 0]
    /\ cleared = {} /\ dropped = {} /\ replaced = {}
    /\ hit = FALSE
    /\ agentRuns = FALSE /\ behind = {}
    /\ upsets = 0

Items(o)   == {o.items[i] : i \in DOMAIN o.items}
Empty(o)   == o.items = <<>> /\ o.count = 0
Running(o) == o.drain \in {"one", "batch", "summary"}

(* isEmbeddedPiRunActive: a run that a message or the agent method started is active
   from its beginning to its end, that of a drain for a part of its time. *)
Active == agentRuns \/ \E m \in Msgs : at[m] = "runs"
Sees   == {TRUE : q \in {q \in Queues : Running(queue[q])}} \cup {Active}

(* A message is under way that will finalize, and with that drain the queue. *)
Ahead == \E m \in Msgs : at[m] \in {"prepares", "runs", "closes"}

-----------------------------------------------------------------------------
(* Draining *)

Mapped(o, k) == [queue |-> o, mapped |-> k]
Becomes(new) == queue' = new.queue /\ mapped' = new.mapped

(* scheduleFollowupDrain up to its first await, for queues o of which k is mapped:
   an empty one is deleted at once. *)
Scheduled(o, k) ==
    CASE k = NoQueue                            -> Mapped(o, k)
      [] k # NoQueue /\ o[k].drain # "no"       -> Mapped(o, k)
      [] k # NoQueue /\ o[k].drain = "no"       ->
           IF Empty(o[k]) THEN Mapped(o, NoQueue)
           ELSE Mapped([o EXCEPT ![k].drain = "debounce", ![k].individually = FALSE], k)

NotRescheduled(o, q) ==                                   \* faulty
    Mapped([o EXCEPT ![q].drain = "no"], IF Empty(o[q]) THEN NoQueue ELSE mapped)

FinishedDeleting(o, q) ==                                 \* faulty
    Mapped([o EXCEPT ![q].drain = "no"], NoQueue)

(* A drain ends: the entry is deleted, whichever queue it holds by then, or the
   drain of the queue it holds is scheduled. *)
Finished(o, q) ==
    LET ended == [o EXCEPT ![q].drain = "no"]
    IN  IF Empty(o[q]) THEN Mapped(ended, NoQueue) ELSE Scheduled(ended, mapped)

Mixed(o) == \E m, n \in Items(o) : Dest[m] # Dest[n]

(* The debounce is over: what runs next?  With nothing to run the drain ends. *)
DrainStep(q) ==
    LET o       == queue[q]
        singly  == o.mode = "followup" \/ o.individually \/ Mixed(o)
        summary == o.count > 0 /\ o.policy = "summarize"
        what    == IF ~singly THEN "batch"
                   ELSE IF o.mode = "followup" /\ summary THEN "summary" ELSE "one"
    IN  /\ o.drain = "debounce"
        /\ IF Empty(o) \/ (singly /\ o.items = <<>>) THEN Becomes(Finished(queue, q))
           ELSE /\ queue' = [queue EXCEPT ![q].drain = what,
                                ![q].inRun = IF singly THEN <<Head(o.items)>> ELSE o.items,
                                ![q].told = summary /\ what # "one",
                                ![q].individually = @ \/ (o.mode = "collect" /\ Mixed(o))]
                /\ UNCHANGED mapped
        /\ UNCHANGED <<at, ran, cleared, dropped, replaced, hit, upsets, agent>>

RunsOn(o, q) == IF Empty(o[q]) THEN Finished(o, q) ELSE Mapped([o EXCEPT ![q].drain = "debounce"], mapped)

Named(o) == {o.inRun[i] : i \in DOMAIN o.inRun}

RunEndsKeepingOne(q) ==                                   \* faulty
    LET o    == queue[q]
        left == [o EXCEPT !.items = SubSeq(o.items, Len(o.inRun), Len(o.items)),
                          !.count = IF o.told THEN 0 ELSE @, !.inRun = <<>>]
    IN  /\ Running(o)
        /\ ran' = [m \in Msgs |-> IF o.drain # "summary" /\ m \in Named(o) THEN ran[m] + 1 ELSE ran[m]]
        /\ replaced' = IF o.drain = "summary" THEN replaced \cup Named(o) ELSE replaced
        /\ Becomes(RunsOn([queue EXCEPT ![q] = left], q))
        /\ UNCHANGED <<at, cleared, dropped, hit, upsets, agent>>

(* A run of the drain ends well: as many as were run are taken from the front,
   whatever is there by then. *)
DrainRunEnds(q) ==
    LET o    == queue[q]
        left == [o EXCEPT !.items = SubSeq(o.items, Len(o.inRun) + 1, Len(o.items)),
                          !.count = IF o.told THEN 0 ELSE @, !.inRun = <<>>]
    IN  /\ Running(o)
        /\ ran' = [m \in Msgs |-> IF o.drain # "summary" /\ m \in Named(o) THEN ran[m] + 1 ELSE ran[m]]
        /\ replaced' = IF o.drain = "summary" THEN replaced \cup Named(o) ELSE replaced
        /\ Becomes(RunsOn([queue EXCEPT ![q] = left], q))
        /\ UNCHANGED <<at, cleared, dropped, hit, upsets, agent>>

(* or throws: the items stay, and the drain begins anew. *)
DrainRunFails(q) ==
    /\ Running(queue[q])
    /\ upsets < MaxUpsets /\ upsets' = upsets + 1
    /\ Becomes(Finished([queue EXCEPT ![q].inRun = <<>>], q))
    /\ UNCHANGED <<at, ran, cleared, dropped, replaced, hit, agent>>

-----------------------------------------------------------------------------
(* Messages *)

(* What runs is looked at well before the message is queued or runs. *)
Arrive(m) ==
    /\ at[m] \in {"away", "refused"}
    /\ \E active \in Sees : at' = [at EXCEPT ![m] = IF active THEN "late" ELSE "prepares"]
    /\ UNCHANGED <<mapped, queue, ran, cleared, dropped, replaced, hit, upsets, agent>>

(* getFollowupQueue: the queue a message finds or creates, with its settings *)
Found(q, set) ==
    IF mapped = NoQueue THEN Created(set)
    ELSE [queue[q] EXCEPT !.mode = set.mode, !.policy = set.policy]

(* It owes a summary that the new settings may never deliver. *)
Unsettles(q, set) ==
    q = mapped /\ queue[q].count > 0 /\ <<set.mode, set.policy>> # <<queue[q].mode, queue[q].policy>>

CanHold(q) == q = mapped \/ (mapped = NoQueue /\ queue[q].drain = "no")

AcceptedUncapped(o, m) ==                                 \* faulty
    [o EXCEPT !.items = Append(@, m)]

AcceptedDroppingNewest(o, m) ==                           \* faulty
    LET full == Len(o.items) >= Cap
    IN  [o EXCEPT !.items = Append(IF full THEN SubSeq(@, 1, Cap - 1) ELSE @, m),
                  !.count = IF full /\ o.policy = "summarize" THEN @ + 1 ELSE @]

(* applyQueueDropPolicy makes room at the front; what it drops may be counted *)
Accepted(o, m) ==
    LET full == Len(o.items) >= Cap
    IN  [o EXCEPT !.items = Append(IF full THEN Tail(@) ELSE @, m),
                  !.count = IF full /\ o.policy = "summarize" THEN @ + 1 ELSE @]

LeftAtRest(o) == o.drain = "no" /\ ~Ahead

EnqueueUnchecked(m) ==                                    \* faulty
    /\ at[m] = "late"
    /\ \E q \in Queues, set \in Settings :
         LET o == Found(q, set)
         IN  /\ CanHold(q) /\ Becomes(Mapped([queue EXCEPT ![q] = Accepted(o, m)], q))
             /\ behind' = IF agentRuns /\ LeftAtRest(o) THEN behind \cup {m} ELSE behind
    /\ at' = [at EXCEPT ![m] = "queued"]
    /\ UNCHANGED <<ran, cleared, dropped, replaced, hit, upsets, agentRuns>>

(* enqueueFollowupRun with its drop policy; then the agent runner looks again
   whether the run it queued the message behind is over, and drains if so. *)
Enqueue(m) ==
    /\ at[m] = "late"
    /\ \E q \in Queues, set \in Settings, active \in Sees :
         LET o       == Found(q, set)
             full    == Len(o.items) >= Cap
             refused == full /\ set.policy = "new"
             after   == [queue EXCEPT ![q] = IF refused THEN o ELSE Accepted(o, m)]
         IN  /\ CanHold(q)
             /\ Becomes(IF active THEN Mapped(after, q) ELSE Scheduled(after, q))
             /\ at' = [at EXCEPT ![m] = IF refused THEN "refused" ELSE "queued"]
             /\ dropped' = IF full /\ ~refused THEN dropped \cup {Head(o.items)} ELSE dropped
             /\ hit' = (hit \/ (full /\ ~refused /\ Running(o)) \/ Unsettles(q, set))
             /\ behind' = IF agentRuns /\ active /\ ~refused /\ LeftAtRest(o)
                          THEN behind \cup {m} ELSE behind
    /\ UNCHANGED <<ran, cleared, replaced, upsets, agentRuns>>

(* A message that was queued is delivered once more: refused by its id, after
   its settings were applied, to a queue made for it if need be. *)
Redeliver(m) ==
    /\ at[m] = "queued" /\ TRUE \in Sees
    /\ \E q \in Queues, set \in Settings, active \in Sees :
         LET after == [queue EXCEPT ![q] = Found(q, set)]
         IN  /\ CanHold(q)
             /\ Becomes(IF active THEN Mapped(after, q) ELSE Scheduled(after, q))
             /\ hit' = (hit \/ Unsettles(q, set))
    /\ UNCHANGED <<at, ran, cleared, dropped, replaced, upsets, agent>>

(* A run that a message started itself.  Its end is noticed before it finalizes,
   and only then the queue is drained. *)
RunBegins(m) ==
    /\ at[m] = "prepares" /\ ~Active
    /\ at' = [at EXCEPT ![m] = "runs"]
    /\ UNCHANGED <<mapped, queue, ran, cleared, dropped, replaced, hit, upsets, agent>>

RunEnds(m) ==
    /\ at[m] = "runs"
    /\ at' = [at EXCEPT ![m] = "closes"]
    /\ UNCHANGED <<mapped, queue, ran, cleared, dropped, replaced, hit, upsets, agent>>

FinalizeWithFollowup(m) ==
    /\ at[m] \in {"prepares", "closes"}
    /\ at' = [at EXCEPT ![m] = "over"]
    /\ Becomes(IF mapped = NoQueue THEN Mapped(queue, mapped) ELSE Scheduled(queue, mapped))
    /\ UNCHANGED <<ran, cleared, dropped, replaced, hit, upsets, agent>>

(* A run of the agent method in this session, alone in its lane like the others,
   is active like them and never finalizes. *)
AgentRunBegins ==
    /\ ~Active
    /\ agentRuns' = TRUE
    /\ UNCHANGED <<mapped, queue, at, ran, cleared, dropped, replaced, hit, upsets, behind>>

AgentRunEnds ==
    /\ agentRuns
    /\ agentRuns' = FALSE
    /\ UNCHANGED <<mapped, queue, at, ran, cleared, dropped, replaced, hit, upsets, behind>>

(* An abort, a reset or the removal of the session: clearFollowupQueue *)
ClearSessionQueues ==
    /\ mapped # NoQueue
    /\ upsets < MaxUpsets /\ upsets' = upsets + 1
    /\ cleared' = cleared \cup Items(queue[mapped])
    /\ hit' = (hit \/ queue[mapped].drain # "no")
    /\ Becomes(Mapped([queue EXCEPT ![mapped].items = <<>>, ![mapped].count = 0], NoQueue))
    /\ UNCHANGED <<at, ran, dropped, replaced, agent>>

Drain(q) == DrainStep(q) \/ DrainRunEnds(q)
Own(m)   == RunBegins(m) \/ RunEnds(m) \/ FinalizeWithFollowup(m)

Next ==
    \/ \E q \in Queues : Drain(q) \/ DrainRunFails(q)
    \/ \E m \in Msgs : Arrive(m) \/ Enqueue(m) \/ Redeliver(m) \/ Own(m)
    \/ AgentRunBegins \/ AgentRunEnds \/ ClearSessionQueues

Spec == Init /\ [][Next]_vars

(* Debounces and runs end, and not every run fails. *)
Fairness == /\ \A q \in Queues : WF_vars(Drain(q))
            /\ WF_vars(\E m \in Msgs : Own(m)) /\ WF_vars(AgentRunEnds)
FairSpec == Spec /\ Fairness

-----------------------------------------------------------------------------
(* Properties.  `hit' is what they do not survive: a queue that overflows while
   one of its runs is under way, is cleared while it is drained, or is given other
   settings while it owes a summary. *)

Held(m) == \E q \in Queues :
    m \in Items(queue[q]) /\ (q = mapped \/ queue[q].drain # "no")

(* A message that was accepted is in a queue that will be drained, or was run, or
   was given up for a reason: cleared, over the cap, or replaced by the summary. *)
NothingVanishes ==
    ~hit => \A m \in Msgs : at[m] = "queued" =>
      Held(m) \/ ran[m] > 0 \/ m \in cleared \cup dropped \cup replaced

(* No message is run twice with success, through retries, redeliveries, drains of
   two queue objects and collected batches; one that was given up is not run. *)
ServedOnce ==
    /\ \A m \in Msgs : ran[m] <= 1
    /\ ~hit => \A m \in cleared \cup dropped \cup replaced : ran[m] = 0

(* A message in a queue at rest has one ahead of it that will drain the queue: none
   slips between the end of a run and the look whether it runs.  The exception is
   what was queued at rest while only a run of the agent method was active: that
   run ends and drains nothing, and the message waits for the next one that
   finalizes. *)
NoneStranded ==
    ~hit /\ mapped # NoQueue /\ queue[mapped].drain = "no" =>
      Ahead \/ Items(queue[mapped]) \subseteq behind

(* What the session may rely on is SessionInbox: through queue objects that come
   and go, drains that begin anew, retries and changes of mode, one bounded line
   that is served from its front, in the order of acceptance. *)
Inbox == INSTANCE SessionInbox WITH
    line     <- IF mapped = NoQueue THEN <<>> ELSE queue[mapped].items,
    accepted <- {m \in Msgs : at[m] = "queued"},
    served   <- {m \in Msgs : ran[m] > 0},
    givenUp  <- cleared \cup dropped \cup replaced,
    broken   <- hit

KeepsOrder == Inbox!Spec

(* Once it is drained, or a message is ahead of it that will drain it, the queue of
   a session is deleted again: all that was queued is served or dropped, whatever it
   was queued behind, through failed runs, nothing stays behind idle, and no drain
   begins anew for ever for a summary that it cannot deliver. *)
QueueEmpties ==
    (mapped # NoQueue /\ (Ahead \/ queue[mapped].drain # "no")) ~> (mapped = NoQueue \/ hit)
=============================================================================
