# A formal model of the gateway's core

The repository is a personal-assistant *gateway*: one Node.js process that
receives chat messages from channels, runs language-model agents on them,
runs scheduled (cron) jobs, and delivers the answers.  Everything happens in one
process, on one event loop, against files in one state directory; what is hard
is not parallel hardware but the order in which callbacks, timers, signals and
file operations happen, and what survives a restart.

This directory holds TLA+ specifications of that core, TLC configurations that
check them on small instances, and proofs that TLAPS checks for every value of
the constants.  Paths below are relative to the repository's `src/`.

## 1. Inventory

| component | state it keeps | operations | what makes it correct |
|---|---|---|---|
| command queue (`process/command-queue.ts`) | lanes: FIFO, active ids, limit, draining flag, generation; `gatewayDraining` | enqueue, drain/pump, complete, clear, set concurrency, mark draining, reset, wait for active | FIFO starts within the limit, no lost wake-up, slots never leak, drained means drained |
| lane nesting (`agents/pi-embedded-runner/run.ts`, `lanes.ts`) | which lanes a run holds | run queues in its session lane, then in a shared lane; cron holds a lane outside both | runs of a session never overlap, the nesting never deadlocks |
| gateway run loop (`cli/gateway-cli/run-loop.ts`) | server, lock, `shuttingDown`, restart resolver | start, stop, restart in process or by a new process | serves only with the lock, a restart ends with an open queue, a stop always ends |
| restart scheduler (`infra/restart.ts`, `gateway/server-reload-handlers.ts`) | pending timer, polls, cooldown, cycle tokens | schedule, defer until idle, emit, consume | requests coalesce, none is lost, restarts are spaced |
| delivery queue (`infra/outbound/deliver.ts`, `delivery-queue-*.ts`) | one file per message in flight | enqueue, send, ack, fail, recover at start | no message lost, none sent twice where the code says so |
| gateway lock (`infra/gateway-lock.ts`) | lock file | acquire, break a stale lock, release | one gateway per configuration |
| cron service (`cron/service/*`) | jobs with next run and running marker, in a file and in memory; a timer; a promise-chain lock | start and catch-up, timer tick, add, update, remove, run by hand, read | a due job runs, never twice at once, no marker outlives its run, the timer is never lost |
| channel lifecycle (`gateway/server-channels.ts`, `channel-health-monitor.ts`) | per account: start gate, abort controller, task; manual stops, restart attempts, runtime status | start, stop, logout, restart after a crash with backoff, the monitor's sweep | one provider per account, each can be stopped, a stopped account stays down, nothing hangs |
| reply queue (`auto-reply/reply/queue/*`, `utils/queue-helpers.ts`) | per session: a queue object with messages, cap, policy, mode, a drain that holds it | run or enqueue, drain one by one or collected, retry, clear | what is accepted is run once or given up for a reason, a queue is drained to its end |

The rest of the system: exec approvals, subagent registry, heartbeat, session
write lock and session store, reply dispatcher, auth profiles and model
fallback, the websocket protocol, pairing, configuration reload, channel
adapters, plugins, tools, apps and user interface.  `PROJECT.json` lists each
with the reason why it is not modelled.

How they interact.  The *channel manager* keeps a provider task running for each
account.  A message from it becomes an agent run, or waits in the *reply queue* of its
session while one is active; the run is a command of the *command queue*, queued in the
lane of its session and from there in a shared lane (*lane nesting*).  Its answer goes
to the *delivery queue*, which writes a file, sends, and removes the file.  *Cron*
starts runs through the cron lane.  A configuration change restarts channels and the
cron service in place; a change that needs more, an update or a signal asks the *restart
scheduler* for a restart, which waits until the queue is idle and signals the *run
loop*.  The loop closes the command queue, waits for its active tasks, closes the
server, gives back the *gateway lock* and either makes way for another process or starts
the server again in the same process; on the way it resets the lanes of the command
queue, and the new server's start replays the delivery queue.

What is hard about it:

* **re-entrancy**: `drainLane` runs the first part of a task inside its loop, and
  that part may enqueue into the same lane;
* **two async functions on shared variables**: the shutdown that a signal begins
  runs beside the main loop;
* **restart in process**: tasks, promises, senders and recoveries of the life
  before go on in the life after;
* **snapshots across awaits**: a start, a stop, a tick or a drain acts on what it
  read before its last await: entries of a map that are another start's by then, a
  job that was edited, a queue object that was cleared;
* **files without locks**: senders and recoveries rewrite and rename the same
  files, and the process may die between any two operations;
* **a reload in place**: a new cron service works on the file of the old one, whose
  runs go on;
* **timers**: cooldown, deferral polls, drain and exit timeouts race with what
  they wait for.

## 2. Modules

| module | models | notes |
|---|---|---|
| `LaneContract` | what a caller of the command queue may rely on | the abstract specification |
| `CommandQueue` | `process/command-queue.ts` | implements `LaneContract` |
| `EmbeddedRuns` | the lanes a run takes | extends `CommandQueue` and names its constants: the code's lanes and commands (`NestingAssumption`) |
| `GatewayRestart` | `run-loop.ts`, `restart.ts`, `requestGatewayRestart` | also its own TLC model |
| `DeliveryQueue` | `infra/outbound/deliver.ts`, `delivery-queue-storage.ts`, `delivery-queue-recovery.ts`, the retry loop of `server-restart-sentinel.ts` | |
| `CronService` | `cron/service/{ops,timer,jobs,store}.ts` | |
| `ChannelManager` | `gateway/server-channels.ts`, `gateway/channel-health-monitor.ts` | one account |
| `SessionInbox` | what the reply queue promises a session | the abstract specification |
| `FollowupQueue` | `auto-reply/reply/queue/*`, `utils/queue-helpers.ts`, the choice in `agent-runner.ts` | one session; implements `SessionInbox` (`Inbox`, `KeepsOrder`) |
| `CommandQueueProofs`, `CommandQueueRefinement`, `EmbeddedRunsProofs`, `GatewayRestartProofs`, `DeliveryQueueProofs`, `CronServiceProofs`, `ChannelManagerProofs`, `FollowupQueueProofs` | theorems and proofs | |
| `MC*` | instances for TLC | |

Definitions keep the names of the code.  A definition marked `faulty` is not part
of a specification: it is the definition after it as a plausible bug would have
it (section 5).

### Command queue

One variable per field of the lane state, one function of lanes each.  `status`
is the state of each command's promise, `task` what its async closure captured
(id and generation), `waiter` a call of `waitForActiveTasks`.  The interesting
variable is `stack`: JavaScript runs a turn to its end, but within a turn the
queue's functions call each other and themselves, so the model keeps the calls in
progress: `drain` (about to look at the flag), `pump` (in the while loop), `task`
(a task before its first await), `reset` (`resetAllLanes` draining the lanes it
found occupied).  A new turn (`Enqueue`, `Finish`, `ClearCommandLane`, ...) begins
only with an empty stack.  `SyncParents` are the tasks that submit their child
before they first await, as `runEmbeddedPiAgent`'s session task does.

`LaneContract` has lines, holders and limits only.  `CommandQueue` maps its
queues to lines, the running commands of the current generation to holders, and
hides ids, generations, flags and the stack.

### Lane nesting

A chat run has two commands (session task, body), a cron run requested by hand three,
the outermost its cron task.  The session task returns its body's promise and ends when
that has settled.  A cron task (`RacedTasks`) may end at any moment after it started
(`Abandon`): `executeJobCoreWithTimeout` races the job with its timeout, and a job may
fail, or find nothing to do, before it submits anything; a session task that was
submitted goes on without it.  The lanes come from the resolve functions of the code: a
run that is asked for the cron lane takes the nested lane, because the cron lane is the
one its caller holds.  Session lanes and the nested lane are never configured and keep
one slot.

### Restart

`loop` is where the main loop is; `request` where the shutdown is; each action
runs from one await to the next.  The scheduler is a timer, a number of polls and
a cooldown flag.  `open` counts the servers that listen, those nobody refers to
any more included.  `server.close()` ends (`CloseEnds`), is rejected half way, before the
HTTP servers are closed (`CloseFails`), or never returns (`ForceExit`).  After a
rejection the server is forgotten and still listens; `unclosed` counts these.  The next
start then fails, as long as it is to listen at the same address, and succeeds at
another: `Addresses` is how many the configuration may name in turn.

### Delivery queue

`own[o]` is where owner `o` of a message is.  Owners are the message's own
delivery (`o` is the message) and every recovery.  The three file operations of
the code are split where another owner can come between: `AckRename`/`AckUnlink`,
`FailRead`/`FailOpen`/`FailWrite`/`FailRename`, `Scan`/`Read`.  A failed attempt is written
to a temporary file, of one name for all attempts of the process at an entry, and
renamed: `tmp` is what that file holds, `Torn` where a writer has emptied it or
another's longer text shows behind its own, and `late` who has it open while another
renames it.  `Crash` forgets everything but the
directory; `Restart` starts a recovery and lets everything else go on.  Three kinds of
message: plain, `BestEffort` (single payloads may fail; with `OnError` the sender
is told) and `Notices` (the restart sentinel's, which stores once, sends with
`skipQueue` and tries again itself).  The entries a recovery defers when its time
is up are counted one after the other, where the code starts all at once.

### Cron service

`file` and `mem[s]` are the jobs in the store file and in each service's memory,
`run[s, a]` what the tick (`a = "tick"`), the start (`"boot"`) or a caller has in
hand.  What the code does under `locked()` is one action, because all services of a
file share the lock and a section writes the file once, at its end: a crash within
it is a crash before it.  Jobs run between sections, which is where everything else
comes in.  There is no clock: a next run or a slot is ahead until `Elapse` or
`SlotPasses` says otherwise, and a marker may become older than two hours at any
moment (`MarkerAges`).  `held` tells whether the objects a tick took are still those
of the store: if so its maintenance sees them, if not (a reload from the file) it
does not.  `RestartCron` is the reload of the configuration: the old service's timer
is cleared, a tick under way goes on.

### Channels

A start attempt, its controller and the promise that tracks its task are one object
(`Boots`); `starting`, `aborts` and `tasks` are the account's entries.  Each action
runs from one await to the next.  `React` are the continuations of promises that are
settled: they go before anything that a timer, a request or a provider does, as
microtasks do.  A stop hook returns or rejects; if it rejects, the stop fails with it and
the account's entries stay.  The monitor's sweep is its snapshot (`MonitorLooks`) and what it
does about it later.  `heldDown` and `torn` are histories that properties speak of.

### Reply queue

A queue object outlives its entry in the map, because its drain holds it, so that
objects are modelled and `mapped` is the one the map has.  `at[m]` is where message
`m` is: `late` between the snapshot (`isActive`) and the decision, `prepares`,
`runs`, `closes`, `over` for one that runs itself, `queued` or `refused` otherwise.
`agentRuns` is a run of the gateway's `agent` method in the same session: active to
everyone who asks, and not followed by `finalizeWithFollowup`; `behind` records what was
queued at rest while nothing but such a run was ahead.
A drain debounces, then runs one item, a batch or a summary.  `hit` records that a
queue was changed under a run in one of the ways named in section 6.

`SessionInbox` has one line of messages, and the sets of those accepted, served and
given up.  A message enters at the end; the first few are served together; a message is
given up because the line is full, because a summary takes its place, or because the
line is cleared, and never served afterwards.  The line is the mapped object's items.
Objects, drains, callbacks, settings and retries are hidden.  The promise is off
(`broken`) once `hit`, and only then.

## 3. Runs

| run | instance | shows |
|---|---|---|
| `command_queue` | one lane, limit up to 2, four commands (one submits another before its first await), one reset | types, slot accounting, no lost wake-up, the drain answer |
| `command_queue_live` | two lanes, a run (session task and body) and another command | no command starves; the queue implements `LaneContract`, with its liveness |
| `embedded_runs` | a chat run and a cron run of one session, all their lanes, one restart | runs of a session do not overlap, a body never outlives its session task, whoever waits waits for one that can move, every run ends, whenever the cron task times out |
| `gateway_restart` | any number of restarts, stops and closes that fail, two polls at once, two addresses | planned exits free the lock, one clean server beside those that were not closed, a request taken is still ahead of the loop, requested restarts and stops are carried out |
| `gateway_restart_accepts` | the same | *violated*, see section 6 |
| `delivery_queue` | an answer of two payloads, its sender and two recoveries at once, failed attempts through one temporary file, an `AbortError`, a crash | types, nothing lost, what left the queue stays away |
| `delivery_queue_live` | a bestEffort reply and a notice, restarts for ever | every entry that can be read leaves the queue |
| `cron_service` | a nightly job and a one-shot reminder, one service, a caller, a request, a crash | types, no job twice at once, no marker without a run, the timer armed, due jobs kept |
| `cron_service_live` | a nightly job, a caller, a request, a reload: two services | a due job is run |
| `cron_service_reload` | a reminder, two services | *violated*, see section 6 |
| `channel_manager` | two start attempts alive at once, a caller and the monitor, a stop hook that may fail, one restart attempt | types, one task, no entry left, what runs can be stopped, stopped stays down, nobody waits for what nobody will answer, stops and sweeps return |
| `followup_queue` | three messages to two destinations, two queue objects, a cap of two, both modes, runs of the agent method, two failures or clears | types, nothing vanishes, served once, none stranded, the queue empties and implements `SessionInbox` |

Deadlock is not checked where the system may stop: all commands settled and the
bounds used up, the process ended, all messages done.

**Bounds.**  `MaxLimit = 2` is the least that tells a full lane from an occupied
one and lets a limit be lowered below what is in flight.  `MaxResets = 1`: what a
reset disturbs are tasks of the generation before, and a second one only adds
older generations, which the code treats alike.  Four commands fill a lane of two
slots and leave two waiting, one of them re-entrant.  `MaxPolls = 2`: polls
interfere by emitting twice.  `MaxRetries` is 5 in the code and 1 or 2 here: the
model distinguishes below and at.  With 1, as in `delivery_queue_live`, an entry that
was deferred is moved to `failed/` at its next turn and no backoff is waited for; with
2 the liveness graph of two messages is out of reach, and `QueueDrains` was checked for
one message at a time with two recoveries (541,513 states for the notice, 601,405
for the bestEffort reply), beside the runs.  `MaxCrashes = 1`: what a second crash
finds is again a directory with some files.  `NPayloads = 2` is the least that can be
half sent.  Two recoveries at once need two restarts within one recovery; three
owners of a file are more than any of its operations compares.  `MaxRequests = 1`:
one run by hand or one edit meets a tick, a start or a catch-up at every point of
theirs.  `MaxConcurrentRuns` and `MaxMissedJobsPerRestart` are 1, so that with two jobs one
of them waits or is put off.  `Boots` has two members: the code never lets more
than two start attempts of an account be pending but through a stop that deletes
entries, and then the older ones are aborted or out of reach.  `MaxRestartAttempts`
is 10 in the code: the model distinguishes below and at.  Three messages overfill a
queue of two, or fill it while one runs; two queue objects are the one a drain holds and the
one made after a clear.  A bound on objects delays their reuse and excludes nothing
else.  The safety theorems of section 7 hold for all bounds.

## 4. Fairness

* `CommandQueue`: a turn in progress goes on (weak fairness).  The event loop gives
  every callback that keeps being ready its turn although others come first, hence
  strong fairness of "some task of the current generation ends" (agent runs
  carry a timeout) and "some running task submits its child".  Nothing is
  assumed of tasks from before a restart, of submissions from outside, of clears or
  of configuration changes, nor of a cron task's timeout: it may come, and nobody waits
  for it to come.
* `GatewayRestart`: starting a server and file operations come back or fail; drain
  and close are guarded by timers (`forceExitTimer`, 90 s drain), so that
  `server.close()` itself is *not* assumed to return; timers fire.
* `DeliveryQueue`: a send and a file operation come back; time passes.  The queue
  only drains if the gateway is restarted again and again, which is the premise of
  `QueueDrains`, not a fairness assumption: the code retries at starts only.
* `CronService`: the lock is a chain of promises, so that every section has its
  turn; timers fire; a run comes back (each has a timeout).  Nothing is assumed
  of reads, requests, edits, reloads, of what lies ahead becoming due, or of
  markers growing old.
* `ChannelManager`: timers fire, `isConfigured` answers, stop hooks return or reject,
  and a provider ends once its signal is aborted, which is what the plugin interface
  asks of it (one that does not blocks every stop, and the monitor with it).  These are
  strong because reactions go before them and disable them for a while; the reactions
  themselves are weakly fair.  That a provider ends by itself is not assumed.
* `FollowupQueue`: a debounce and a run, one of the agent method too, come to an end,
  and a failing run is one of its ends; the failures are bounded by `MaxUpsets`, so that
  not every retry fails.

## 5. What the properties are sensitive to

Each property is checked against the model as it is and must fail on a variant of
one definition:

| property | refuted by | the bug |
|---|---|---|
| `CommandQueue!TypeOK` | `SlotCountUnclamped` | a configured concurrency of 0 is taken as it is |
| `SlotAccounting` | `ResetSameGeneration` | a reset does not bump the generation |
| `Quiescent`, `NoneStarves` | `NoPump` | a completion does not pump |
| `DrainedIsTrue` | `SomeEnded` | the drain answers when some task ended |
| `KeepsContract` | `PumpExitFlagLeftUp` | the `finally` is missing |
| `StartsAsPromised` | `ClearCommandLaneSilently` | cleared promises are not rejected |
| `OneRunPerSession` | `EveryLaneConfigured` | session lanes get a configured concurrency |
| `OuterOutlivesInner` | `EndingsNotAwaited` | the outer task does not return the inner promise |
| `SomeoneCanMove`, `EveryRunEnds` | `BodyLaneAsRequested` | a cron run takes the cron lane twice |
| `GatewayRestart!TypeOK` | `CloseEndsServerKept` | the closed server is not forgotten and closed again |
| `PlannedExitFreesLock` | `ReleaseSkipped` | the lock is not released before the exit |
| `OneCleanServer` | `ResumeLanesKept` | the next iteration does not reset the lanes |
| `RequestIsAhead` | `EmitUnlessCooling` | a signal within the cooldown is dropped, and its poll with it |
| `RestartIsServed` | `ResumeUnresolved` | the resolver is not called |
| `StopEnds` | `ForceExitOnRestart` | the exit timer is armed for restarts only |
| `DeliveryQueue!TypeOK` | `AllAndOneHandled` | one payload too many |
| `NothingLost` | `AfterErrorAcked` | an exception acknowledges |
| `GoneForGood` | `FailReadAsNew` | a failed attempt at a message whose file is gone is written as a new entry |
| `QueueDrains` | `BumpForgotten` | a failed attempt is not counted |
| `CronService!TypeOK` | `ApplyJobResultAsIs` | an outcome is applied as it is, next run not computed |
| `NotTwiceAtOnce` | `ReserveInMemory` | the marker of a run by hand is not persisted |
| `MarkerHasOwner` | `FinishUnmerged` | the result of a run by hand is lost in the reload |
| `SchedulerArmed` | `EditedUnarmed` | an edit does not arm the timer |
| `DueIsServed` | `BootDone` | a start does not arm the timer |
| `DueIsKept` | `RecomputeDueToo` | maintenance recomputes what is due as well |
| `ChannelManager!TypeOK` | `RestartsForEver` | restart attempts are not limited |
| `OneTaskPerAccount` | `BeginUngated` | a start does not look for another that is starting |
| `NoEntryLeftBehind` | `SettleKeepsTask` | a task that ends keeps its entry |
| `LiveIsReachable` | `SettleAny` | a task that ends deletes whatever controller there is |
| `StoppedStaysDown` | `MonitorStopsAnyway` | the monitor does not look at manual stops |
| `NoneWaitsInVain` | `BackoffAlwaysRestarts` | a restart after the backoff does not look whether the account was stopped meanwhile |
| `NothingHangs` | `StopUnaborted` | a stop does not abort the controller |
| `FollowupQueue!TypeOK` | `AcceptedUncapped` | the cap is not applied |
| `NothingVanishes` | `FinishedDeleting` | a drain that ends deletes the queue, empty or not |
| `ServedOnce` | `RunEndsKeepingOne` | a collected batch leaves one message behind |
| `NoneStranded` | `EnqueueUnchecked` | no second look at the run after queueing |
| `KeepsOrder` | `AcceptedDroppingNewest` | a full queue gives up the newest message instead of the oldest |
| `QueueEmpties` | `NotRescheduled` | a drain that failed is not scheduled again |

## 6. Where the code differs from what it says

Each is a run that TLC refutes; `PROJECT.json` quotes the lines.

* `AcceptsWhenServing`: a restart signal that arrives while the server is starting
  closes the queue and then does nothing else; the server comes up and refuses
  every command until the next restart.
* `OneServiceRunsAJob`: a reload of the configuration stops the timer of the old
  cron service, not what it has in hand; the new one's start takes the markers of
  those runs for leftovers, clears them and runs the jobs again.

Also seen, not stated as properties (the properties name them as exceptions where
they matter):

* **Command queue.**  A run that waits in its session's queue when a drain begins is
  started when its turn comes, and its body is then refused; only what is still
  queued at the reset is preserved.  After a reset, a run whose body still waits in a
  shared lane has lost its session slot, so another run of the session may start
  beside it.  `drained: true` says nothing of commands that started after the
  snapshot; waiting commands are pumped on while the gateway drains.  The
  generation check of `completeTask` is redundant as long as ids are never reused
  (`IdsAreFresh`), but not the pump it guards.
* **Restart.**  The cooldown delays scheduled restarts only, not deferred ones nor
  those of the configuration watcher.  A stop signal during a restart is logged and
  ignored.  After a failed start in process the lock is given back and the next
  restart does not take it again.  A close that fails (`tailscaleCleanup`, a channel's stop,
  the gmail watcher, or an HTTP server's own `close`, `gateway/server-close.ts` 52, 70, 75
  and 147-149) is logged like an error of the drain, and the loop goes on to the next life
  with the old HTTP servers listening.  If it failed before line 76 the cron service and
  the heartbeat of the old server go on too.  The next start finds the port taken
  (`gateway/server/http-listen.ts` 27-60) and fails, unless the configuration names
  another address by then.  `OneCleanServer` says that this is the only way to an extra
  server; a cron service that such a failure leaves running is not in `CronService`.
* **Delivery.**  A recovery sends what a sender is sending at the same time.  A
  bestEffort replay whose payloads fail is acknowledged.  A crash after the last
  payload and before the rename of the acknowledgement replays the whole message at
  the next start.  `failDelivery` writes back what it read: an acknowledgement or a move
  in between is undone, and the entry that comes back is replayed.  Two calls for one
  entry share the temporary file: one may rename what the other has emptied or half
  written, and the entry is torn; `loadPendingDeliveries` skips it as malformed at every
  start, so it is neither sent nor deleted (`NothingLost` counts it as kept).  Any error
  named `AbortError` acknowledges the entry (`deliver.ts` 544), and a channel's transport
  raises it when it times out (`utils/fetch-timeout.ts` 56, as
  `extensions/signal/src/client.ts` 83-92 uses it): a message that nobody called off is
  then removed unsent.  `aborted` exempts these from `NothingLost`; it is a loss all the
  same.
* **Cron.**  `add` recomputes the next run of every job, and moves a job that is due
  at that moment to its next slot (an update was changed not to, see
  `cron/service.issue-regressions.test.ts:193`).  `stop` clears the timer only: a
  tick under way sets another.  Disabling a job clears its marker while it runs, and
  so does maintenance for a job that is disabled and run by hand: it may then be
  run a second time beside the first.  A run that timed out may go on, queued in its
  session's lane or running, without the slot of the cron lane: more agent runs of cron
  jobs may be under way than that lane admits.
* **Channels.**  A start by request during a stop is lost: it finds the task that is
  about to end.  A `startAccount` that throws leaves `running` true.  A stop during the
  await of a start by request is forgotten, because the start clears the mark after
  its await; a stop by a user during the monitor's restart is undone by it.  A stop
  of an account that gave up restarting, without a stop hook, is not marked.  A stop
  with a hook deletes the entries it finds at its end, which may be those of a later
  start (`torn`): that provider runs where no stop finds it.  A hook that rejects leaves the
  entries and `running` as they were and the account marked as stopped, so that the
  monitor, whose own restart it may have broken, does not restart it.
* **Reply queue.**  What `hit` stands for: a queue that overflows while one of its runs
  is under way loses as many messages again when the run removes what it ran; a drain
  whose queue was cleared deletes the newer queue of the session; new settings while a
  summary is owed make the drain end and begin again without end.  In followup mode a
  summary replaces the first message instead of preceding it.  A message that is queued
  behind a run of the `agent` method (which subagent announcements use too) waits beyond
  its end: that run never finalizes, and the queue stays idle until a later message of
  the session does (`behind`).  The remembered callback restarts no drain, because its
  callers pass `restartIfIdle = false`.

## 7. Proofs

All theorems assume the named ASSUMEs of the specification they are about and
nothing else; TLC evaluates these in every run.

**Command queue** (`CommandQueueProofs`).  `Spec => []TypeOK`, then the inductive
invariant, then its consequences.  `Quiescent` is not inductive: within a turn a
lane may have room and waiting commands.  `WakeupAhead` says why it is still true
at the end of the turn: a raised flag means that a pump of that lane is on the
stack, and a lane that could start something has a drain, a pump or a reset of it
on the stack.  `SlotAccounting` needs that ids are fresh and that no task is of a
later generation than its lane (`IdsAreFresh`) and that a queue lists each waiting
command once (`QueueLists`).  The proof goes by action, one lemma per conjunct.

**Refinement** (`CommandQueueRefinement`).  Every step of the queue is a step or a
stutter of `LaneContract`: `Spec => StartsAsPromised`.  The hard case is
`PumpStart`: that the number of ids is the number of holders, by a bijection.
`StartsWithinLimit`, which is the part of it that speaks of limits, follows from the same
lemmas and is not checked by a run of its own.

**Lane nesting** (`EmbeddedRunsProofs`).  `EmbeddedRuns` extends the queue's module, and
`RunsUseTheQueue` shows that every behaviour of the runs is one of the queue, so that
the queue's invariants hold of the runs.  `Nesting` is what they need besides: a session
lane has one slot and one holder (`SessionsAreNarrow`); a command that waits is in its
lane's queue (`WaitsInLine`); a task before its first await runs, and a session task
past it has submitted its body (`PrefixesRun`); an inner command is submitted by an
outer one that started (`OuterCameFirst`); and it is of no earlier generation than its
outer one (`SameGeneration`).  The first part gives `OneRunPerSession`;
`OuterOutlivesInner` is a part of its own, and speaks of session tasks only: a cron
task's timeout ends it over its run.  `SameGeneration` is what a restart could break: a
task that holds a slot never waits for an inner one that the restart disowned, and which
nothing is assumed of.

`SomeoneCanMove` follows by going along the waiting: a full session lane is held by a
session task, whose body runs in its lane or waits in a shared lane; a full shared lane
is held by bodies, which wait for nobody, or, if it is the cron lane, by cron tasks,
whose session task can be submitted, runs, waits in a session lane, or has ended.  No
lane occurs twice on that way, because `BodyLane` is never the cron lane.  This is the
safety core of `EveryRunEnds`; what it leaves to TLC is that the one that can move does.

**Restart** (`GatewayRestartProofs`).  `InStep` describes how loop, server, resolver,
shutdown and drain flag move together, and it holds only while no restart
overlapped a start (`~overlapped`): that hypothesis is exactly the behaviour of
`AcceptsWhenServing`.  Its first part counts the servers that listen: the loop's own, and
those whose `close()` failed.  `InOrder` holds without it and gives
`PlannedExitFreesLock`.  `RequestIsAhead`, the safety core of `RestartIsServed`, says
that a restart that was taken has, until the loop resumes, a timer, a poll or a shutdown
to its name.  `StopIsNeverGivenUp` is about steps: once the shutdown acts for a stop, no
signal, poll or timer turns it into a restart, and only the end of the process ends it
(`StopKept`, stated in the proof module).

**Delivery** (`DeliveryQueueProofs`).  `NothingLost` is not inductive: what an owner at
`ack1` will remove must have been sent, or its message is `BestEffort` or its delivery
ended in an `AbortError`.  `Progressed` says that, for every owner, its place, its
message and the payloads it has passed agree with what was sent.  Since sent payloads,
aborted and failed messages only grow, another owner's step cannot undo it (lemma
`Safe`), so that each action's proof is about its own owner.  `GoneForGood` is about
steps and needs one fact more, that a stored message's sender is past storing it
(`Begun`): a file that is gone comes back only by a `failDelivery` that had read it
before and has not ended, which is the lost update section 6 speaks of, and a message
that nobody sends or has listed is never taken up again.

**Cron** (`CronServiceProofs`).  `Inductive` says what the file, the memory and what is
in hand have to do with each other while one service is started (`Alone`): memory and
file differ in markers only; a job with a marker has a holder; unless its marker was
cleared under it (`lost`), a holder has both markers and is the only holder
(`Markers`).  A memory that could lag behind in anything else would overwrite
edits at its next save, which is why the first part is needed for the others.
`Settled` (an enabled job has a next run, unless it is a one-shot that is done)
is what makes maintenance leave due jobs alone, hence `DueIsKept`; `Phases` says that a
tick or a start has jobs in hand in its phases only.  One lemma per action and
conjunct.

**Channels** (`ChannelManagerProofs`).  At most one start is unanswered, the one
`starting` names, and no task is pending beside it (`StartsAlone`); this is the
gate's doing, and gives `OneTaskPerAccount`.  A controller that a stop has read is
aborted (`StopsAbort`); unless `torn`, a pending task is the one in `tasks`, with its
controller in `aborts` (`TaskIsKnown`, `ControllerIsKnown`); an account held down is
marked, and the monitor is not restarting it (`HoldIsMarked`, `MonitorWaits`).
`WaitsAreAnswered` is the safety core of `NothingHangs`.  It needs that the entry in
`tasks` has its own controller beside it or is aborted already
(`TaskHasController`): otherwise a stop would wait for a task that it did not abort.

**Reply queue** (`FollowupQueueProofs`).  A message is in one queue object at most and
once in it; what a run has in hand is still ahead in the items, or gone: removing as
many items as were run therefore leaves none of them, even after an overflow, so that
`ServedOnce` holds with no exception for its first part.  `NoneStranded` holds because who is
queued without a drain saw a run that is still active: a message is under way then, or
only a run of the agent method is, and the message is in `behind`.  Unless `hit`, what is run
is exactly the head of the items and a drained queue is the mapped one, hence
`NothingVanishes`.

`QueueIsAnInbox` is the refinement of `SessionInbox`, step by step: most steps stand
still; an enqueue accepts, at the end of the line or in the place of the oldest; a run
that succeeds serves the head of the line, and the invariant says that it is what the
run took; a summary gives up the message in front; a clear gives up all.  What was given
up is never run again (`GivenUpForGood`), although a drain may still have a snapshot of
it.  Whether a step ends the promise is decided in the step: `hit` never falls.

**Only model-checked**: the liveness properties (`NoneStarves`, `EveryRunEnds`,
`RestartIsServed`, `StopEnds`, `QueueDrains`, `DueIsServed`, `NothingHangs`,
`QueueEmpties`, the fairness part of `KeepsContract`), which are outside the
prover's reach.  Every invariant and every action property that a run checks is also
a theorem.  The strengthenings are not listed as properties of the runs, because the
theorems state them for all bounds; those that a specification module names
(`Inductive`, `Nesting`) can be added to the configurations above, and TLC confirms them
there.

## 8. Plan

In this order, each with a type invariant, safety and liveness properties and,
where an invariant is worth it, a proof:

1. `GatewayLock`: several processes, the lock file (owner, age), the port probe
   and the pid check between judging and removing a file, crashes; composed with
   `GatewayRestart`'s release and reacquire.
2. Exec approvals (decision, timeout, late answer), the subagent registry
   (announcements and their retries over a restart) and the heartbeat (wake
   requests that coalesce, with a retry while the queue is busy).
3. An abstract specification of the cron service (every slot runs at most once, a
   due job runs), which `CronService` should implement while one service is started.
4. The follow-up runs of `FollowupQueue` as commands of `EmbeddedRuns`.

## 9. Not modelled, and why

Clocks (a timer fires when it may; the order of deadlines is not used except for the
cooldown); the contents of messages, prompts and summaries; channel adapters and
plugins (I/O and formatting); the wait warnings and logs; the authorisation window of
a SIGUSR1 (in the gateway a signal is emitted and consumed within one call);
respawning under launchd/systemd beyond "the process ends as planned"; disk errors
other than those named in `DeliveryQueue` (a cron store that cannot be written
included); cron requests that arrive before `start()`; staggering of cron jobs and
the delivery of their results; steering a message into a run that is active, and
interrupting it; the thresholds of the channel health policy (a sweep may find any
account unhealthy that is not marked as stopped).  Of the repository's lines most are
adapters, plugins, user interfaces, configuration schemas and generated data, where
a state machine would say little; the models cover the part that schedules,
stores and restarts.
