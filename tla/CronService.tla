----------------------------- MODULE CronService -----------------------------
(* The cron scheduler of the gateway (src/cron/service): jobs in a file and in
   the memory of a CronService, a timer tick that runs what is due, runs asked
   for by hand, edits, the catch-up after a start, and a service that replaces
   another one when the configuration is reloaded.

   A section run under locked() is one action: the lock is shared by all the
   services of a store file, and a section writes the file at most once, as the
   last thing it changes, so a crash within it is a crash before it.  Jobs run
   between sections.  There is no clock: what lies ahead may become due, and a
   running marker may become older than STUCK_RUN_MS, at any moment. *)
EXTENDS Naturals, FiniteSets

CONSTANTS
    Jobs,                    \* the jobs there are or may be added
    Kind,                    \* of each job: "at", "every" or "cron"
    KeepAfterRun,            \* the one-shot jobs with deleteAfterRun = false
    Services,                \* the CronService objects of one process
    Callers,                 \* who asks for runs by hand
    MaxConcurrentRuns,
    MaxMissedJobsPerRestart,
    MaxRequests,             \* bounds
    MaxCrashes

ASSUME CronAssumption ==
    /\ Kind \in [Jobs -> {"at", "every", "cron"}]
    /\ KeepAfterRun \subseteq Jobs
    /\ Callers \cap {"tick", "boot"} = {}
    /\ MaxConcurrentRuns \in Nat \ {0}
    /\ MaxMissedJobsPerRestart \in Nat
    /\ MaxRequests \in Nat /\ MaxCrashes \in Nat

VARIABLES
    file,      \* the jobs in the store file
    mem,       \* state.store of each service
    timer,     \* is state.timer set?
    boot,      \* how far start() has come
    tick,      \* how far the tick that holds state.running has come
    held,      \* are the objects of the tick's jobs those of state.store still?
    run,       \* what the tick, start() and each caller have in hand, by job
    cur,       \* the service the gateway uses
    lost,      \* history: jobs whose marker was cleared under a run in hand
    requests, crashes

vars == <<file, mem, timer, boot, tick, held, run, cur, lost, requests, crashes>>

Results == {"ok", "error", "final"}   \* final: skipped, a permanent error, or no retry left
InHand  == {"waiting", "running"} \cup Results
Actors  == {"tick", "boot"} \cup Callers

(* A job: enabled, its nextRunAtMs, its runningAtMs, its lastStatus, and where
   the time its schedule names lies: ahead, past since the last run, or (at)
   served by a run that ended well. *)
Job == [enabled : BOOLEAN, next : {"none", "future", "due"},
        marker : {"none", "on", "stuck"}, last : {"none", "ok", "error"},
        slot : {"ahead", "past", "served", "new", "gone"}]

NoJob(slot) == [enabled |-> FALSE, next |-> "none", marker |-> "none",
                last |-> "none", slot |-> slot]
Exists(r) == r.slot \notin {"new", "gone"}
NoStore   == [j \in Jobs |-> NoJob("gone")]
NoRuns    == [j \in Jobs |-> "no"]

TypeOK ==
    /\ file \in [Jobs -> Job]
    /\ mem \in [Services -> [Jobs -> Job]]
    /\ timer \in [Services -> BOOLEAN]
    /\ boot \in [Services -> {"off", "load", "plan", "run", "arm", "done"}]
    /\ tick \in [Services -> {"idle", "collect", "run", "end"}]
    /\ held \in [Services -> BOOLEAN]
    /\ run \in [Services \X Actors -> [Jobs -> {"no", "skip", "deferred"} \cup InHand]]
    /\ cur \in Services
    /\ lost \subseteq Jobs
    /\ requests \in 0 .. MaxRequests
    /\ crashes \in 0 .. MaxCrashes

-----------------------------------------------------------------------------
(* Schedules *)

ComputeNext(j, r) ==
    CASE ~r.enabled                               -> "none"
      [] r.enabled /\ Kind[j] # "at"              -> "future"
      [] r.enabled /\ Kind[j] = "at" /\ r.slot = "ahead" -> "future"
      [] OTHER -> IF r.slot = "served" /\ r.last = "ok" THEN "none" ELSE "due"

Normalize(r) ==
    CASE ~r.enabled                        -> [r EXCEPT !.next = "none", !.marker = "none"]
      [] r.enabled /\ r.marker = "stuck"   -> [r EXCEPT !.marker = "none"]
      [] OTHER                             -> r

Recompute(m, which) ==
    [j \in Jobs |-> LET r == Normalize(m[j]) IN
        IF r.enabled /\ r.next \in which THEN [r EXCEPT !.next = ComputeNext(j, r)] ELSE r]

RecomputeDueToo(m) == Recompute(m, {"none", "due"})     \* faulty

(* recomputeExpired changes nothing: whatever sets lastRunAtMs sets the next run
   past it, and that of a one-shot job is computed again as what it was. *)
RecomputeNextRunsForMaintenance(m) == Recompute(m, {"none"})

RecomputeNextRuns(m) == Recompute(m, {"none", "due"})

IsRunnable(r) == r.enabled /\ r.marker = "none" /\ r.next = "due"

(* What start() would run.  The times a record does not keep leave it open
   whether the backoff of a failed recurring job is over, and whether a failed
   one-shot job is due for its retry or by an edit. *)
MustCatchUp(j, r) ==
    /\ r.enabled /\ r.marker = "none"
    /\ Kind[j] = "at" => r.last = "none"
    /\ \/ r.next = "due"
       \/ Kind[j] = "cron" /\ r.slot = "past" /\ r.last = "ok"
MayCatchUp(j, r) ==
    \/ MustCatchUp(j, r)
    \/ /\ r.enabled /\ r.marker = "none" /\ r.last = "error"
       /\ \/ Kind[j] = "at" /\ r.next = "due"
          \/ Kind[j] = "cron" /\ r.slot = "past"

ApplyJobResultAsIs(j, r, result) ==                       \* faulty
    IF Exists(r) THEN [r EXCEPT !.last = result, !.marker = "none", !.next = "none"] ELSE r

(* applyJobResult, with the removal that its caller does when it says so *)
ApplyJobResult(j, r, result) ==
    LET last  == IF result = "ok" THEN "ok" ELSE "error"
        done  == Kind[j] = "at" /\ result # "error"
        slot  == CASE Kind[j] = "cron"                              -> "ahead"
                   [] Kind[j] = "at" /\ result = "ok" /\ r.slot = "past" -> "served"
                   [] OTHER                                         -> r.slot
        next  == IF Kind[j] = "at" THEN IF done THEN "none" ELSE "future"
                 ELSE IF r.enabled THEN "future" ELSE "none"
    IN  IF ~Exists(r) THEN r
        ELSE IF Kind[j] = "at" /\ result = "ok" /\ j \notin KeepAfterRun THEN NoJob("gone")
        ELSE [enabled |-> r.enabled /\ ~done, next |-> next, marker |-> "none",
              last |-> last, slot |-> slot]

ApplyAll(m, outcomes) ==
    [j \in Jobs |-> IF outcomes[j] \in Results THEN ApplyJobResult(j, m[j], outcomes[j]) ELSE m[j]]

Armed(m) == \E j \in Jobs : m[j].enabled /\ m[j].next # "none"

-----------------------------------------------------------------------------
Running(j) == {p \in Services \X Actors : run[p][j] = "running"}
Ended(p)   == \A j \in Jobs : run[p][j] \notin {"waiting", "running"}

(* A marker that maintenance, an edit or a start takes away while the job is in
   hand somewhere; kept until nobody has the job in hand. *)
Unprotect(cleared) ==
    lost' = {j \in lost \cup cleared : \E p \in Services \X Actors : run'[p][j] \in InHand}
Cleared(before, after) ==
    {j \in Jobs : before[j].marker # "none" /\ after[j].marker = "none"}

Store(s, m)   == mem' = [mem EXCEPT ![s] = m]
Persist(s, m) == Store(s, m) /\ file' = m

Init ==
    /\ file \in [Jobs -> {NoJob("new"), [NoJob("ahead") EXCEPT !.enabled = TRUE, !.next = "future"]}]
    /\ mem = [s \in Services |-> NoStore]
    /\ timer = [s \in Services |-> FALSE]
    /\ cur \in Services
    /\ boot = [s \in Services |-> IF s = cur THEN "load" ELSE "off"]
    /\ tick = [s \in Services |-> "idle"]
    /\ held = [s \in Services |-> FALSE]
    /\ run = [p \in Services \X Actors |-> NoRuns]
    /\ lost = {}
    /\ requests = 0 /\ crashes = 0

-----------------------------------------------------------------------------
(* start() *)

BootLoad(s) ==
    LET interrupted == {j \in Jobs : file[j].marker # "none"}
    IN  /\ boot[s] = "load"
        /\ Persist(s, [j \in Jobs |-> [file[j] EXCEPT !.marker = "none"]])
        /\ run' = [run EXCEPT ![<<s, "boot">>] = [j \in Jobs |-> IF j \in interrupted THEN "skip" ELSE "no"]]
        /\ boot' = [boot EXCEPT ![s] = "plan"]
        /\ Unprotect(interrupted)
        /\ UNCHANGED <<timer, tick, held, cur, requests, crashes>>

(* Of the missed jobs the earliest run now, the others wait their turn. *)
BootPlan(s) ==
    LET open    == {j \in Jobs : run[s, "boot"][j] # "skip"}
        must    == {j \in open : MustCatchUp(j, mem[s][j])}
        may     == {j \in open : MayCatchUp(j, mem[s][j])}
    IN  /\ boot[s] = "plan"
        /\ \E missed \in {must \cup extra : extra \in SUBSET (may \ must)} :
             \E now \in SUBSET missed :
               /\ \/ Cardinality(now) = MaxMissedJobsPerRestart
                  \/ now = missed /\ Cardinality(now) < MaxMissedJobsPerRestart
               /\ IF missed = {} THEN UNCHANGED <<mem, file>>
                  ELSE Persist(s, [j \in Jobs |-> IF j \in now THEN [mem[s][j] EXCEPT !.marker = "on"]
                                                  ELSE mem[s][j]])
               /\ run' = [run EXCEPT ![<<s, "boot">>] =
                             [j \in Jobs |-> IF j \in now THEN "waiting"
                                             ELSE IF j \in missed THEN "deferred" ELSE "no"]]
               /\ boot' = [boot EXCEPT ![s] = IF missed = {} THEN "arm" ELSE "run"]
        /\ Unprotect({})
        /\ UNCHANGED <<timer, tick, held, cur, requests, crashes>>

BootApply(s) ==
    LET outcomes == run[s, "boot"]
        applied  == ApplyAll(mem[s], outcomes)
        staggered == [j \in Jobs |-> IF outcomes[j] = "deferred" /\ applied[j].enabled
                                     THEN [applied[j] EXCEPT !.next = "future"] ELSE applied[j]]
        kept     == RecomputeNextRunsForMaintenance(staggered)
    IN  /\ boot[s] = "run" /\ Ended(<<s, "boot">>)
        /\ Persist(s, kept)
        /\ run' = [run EXCEPT ![<<s, "boot">>] = NoRuns]
        /\ boot' = [boot EXCEPT ![s] = "arm"]
        /\ Unprotect(Cleared(staggered, kept))
        /\ UNCHANGED <<timer, tick, held, cur, requests, crashes>>

BootDone(s) ==                                            \* faulty
    /\ boot[s] = "arm"
    /\ boot' = [boot EXCEPT ![s] = "done"]
    /\ UNCHANGED <<file, mem, timer, tick, held, run, cur, lost, requests, crashes>>

BootArm(s) ==
    LET m == RecomputeNextRuns(mem[s])
    IN  /\ boot[s] = "arm"
        /\ Store(s, m)
        /\ file' = IF m = mem[s] THEN file ELSE m
        /\ timer' = [timer EXCEPT ![s] = Armed(m)]
        /\ boot' = [boot EXCEPT ![s] = "done"]
        /\ run' = run
        /\ Unprotect(Cleared(mem[s], m))
        /\ UNCHANGED <<tick, held, cur, requests, crashes>>

-----------------------------------------------------------------------------
(* onTimer().  A timer that fires during a tick is armed again: no change. *)

TimerFires(s) ==
    /\ timer[s] /\ tick[s] = "idle"
    /\ tick' = [tick EXCEPT ![s] = "collect"]
    /\ timer' = [timer EXCEPT ![s] = TRUE]
    /\ UNCHANGED <<file, mem, boot, held, run, cur, lost, requests, crashes>>

CollectRunnableJobs(s) ==
    LET due == {j \in Jobs : IsRunnable(file[j])}
        m   == IF due = {} THEN RecomputeNextRunsForMaintenance(file)
               ELSE [j \in Jobs |-> IF j \in due THEN [file[j] EXCEPT !.marker = "on"] ELSE file[j]]
    IN  /\ tick[s] = "collect"
        /\ Persist(s, m)
        /\ run' = [run EXCEPT ![<<s, "tick">>] = [j \in Jobs |-> IF j \in due THEN "waiting" ELSE "no"]]
        /\ tick' = [tick EXCEPT ![s] = IF due = {} THEN "end" ELSE "run"]
        /\ held' = [held EXCEPT ![s] = TRUE]
        /\ Unprotect(Cleared(file, m))
        /\ UNCHANGED <<timer, boot, cur, requests, crashes>>

(* A worker takes the next job; the tick dates its marker anew, in memory, if
   the object it holds is in the store still. *)
Begin(s, a, j) ==
    LET busy  == {k \in Jobs : run[s, a][k] = "running"}
        dated == a = "tick" /\ held[s] /\ Exists(mem[s][j])
    IN  /\ a \in {"tick", "boot"} /\ run[s, a][j] = "waiting"
        /\ Cardinality(busy) < IF a = "tick" THEN MaxConcurrentRuns ELSE 1
        /\ run' = [run EXCEPT ![<<s, a>>][j] = "running"]
        /\ mem' = IF dated THEN [mem EXCEPT ![s][j].marker = "on"] ELSE mem
        /\ Unprotect({})
        /\ UNCHANGED <<file, timer, boot, tick, held, cur, requests, crashes>>

(* A run ends, or its timeout ends it.  A recurring job that is skipped goes on
   like one that ended well, and is not given up. *)
End(s, a, j) ==
    /\ run[s, a][j] = "running"
    /\ \E result \in IF Kind[j] = "at" THEN Results ELSE {"ok", "error"} :
         run' = [run EXCEPT ![<<s, a>>][j] = result]
    /\ UNCHANGED <<file, mem, timer, boot, tick, held, cur, lost, requests, crashes>>

ApplyOutcomes(s) ==
    LET applied == ApplyAll(file, run[s, "tick"])
        m       == RecomputeNextRunsForMaintenance(applied)
    IN  /\ tick[s] = "run" /\ Ended(<<s, "tick">>)
        /\ Persist(s, m)
        /\ run' = [run EXCEPT ![<<s, "tick">>] = NoRuns]
        /\ tick' = [tick EXCEPT ![s] = "end"]
        /\ held' = [held EXCEPT ![s] = FALSE]
        /\ Unprotect(Cleared(applied, m))
        /\ UNCHANGED <<timer, boot, cur, requests, crashes>>

(* The sweep of old sessions is over; whether stop() was called is not asked. *)
TickEnds(s) ==
    /\ tick[s] = "end"
    /\ tick' = [tick EXCEPT ![s] = "idle"]
    /\ timer' = [timer EXCEPT ![s] = Armed(mem[s])]
    /\ UNCHANGED <<file, mem, boot, held, run, cur, lost, requests, crashes>>

-----------------------------------------------------------------------------
(* Requests, to the service in use *)

Serving(s) == s = cur /\ boot[s] \notin {"off", "load"}

(* status, list, listPage *)
Read(s) ==
    LET m == RecomputeNextRunsForMaintenance(mem[s])
    IN  /\ Serving(s)
        /\ Store(s, m)
        /\ file' = IF m = mem[s] THEN file ELSE m
        /\ run' = run
        /\ Unprotect(Cleared(mem[s], m))
        /\ UNCHANGED <<timer, boot, tick, held, cur, requests, crashes>>

Request(s) == Serving(s) /\ requests < MaxRequests /\ requests' = requests + 1

EditedUnarmed(s, m) ==                                    \* faulty
    /\ Request(s)
    /\ Persist(s, m)
    /\ run' = run
    /\ Unprotect(Cleared(mem[s], m))
    /\ UNCHANGED <<timer, boot, tick, held, cur, crashes>>

Edited(s, m) ==
    /\ Request(s)
    /\ Persist(s, m)
    /\ timer' = [timer EXCEPT ![s] = Armed(m)]
    /\ run' = run
    /\ Unprotect(Cleared(mem[s], m))
    /\ UNCHANGED <<boot, tick, held, cur, crashes>>

Add(s, j) ==
    /\ file[j] = NoJob("new") /\ mem[s][j] = NoJob("new")
    /\ \A p \in Services \X Actors : run[p][j] = "no"
    /\ \E enabled \in BOOLEAN :
         LET r == [NoJob("ahead") EXCEPT !.enabled = enabled]
         IN  Edited(s, RecomputeNextRuns([mem[s] EXCEPT ![j] = [r EXCEPT !.next = ComputeNext(j, r)]]))

Patched(j, r, patch) ==
    LET p == CASE patch = "enable"     -> [r EXCEPT !.enabled = TRUE]
               [] patch = "disable"    -> [r EXCEPT !.enabled = FALSE]
               [] patch = "reschedule" -> [r EXCEPT !.slot = "ahead"]
               [] OTHER                -> r
    IN  IF ~p.enabled /\ patch # "other" THEN [p EXCEPT !.next = "none", !.marker = "none"]
        ELSE IF p.enabled /\ (patch # "other" \/ p.next = "none") THEN [p EXCEPT !.next = ComputeNext(j, p)]
        ELSE p

Update(s, j, patch) ==
    /\ Exists(mem[s][j])
    /\ Edited(s, [mem[s] EXCEPT ![j] = Patched(j, @, patch)])

Remove(s, j) ==
    /\ Exists(mem[s][j])
    /\ Edited(s, [mem[s] EXCEPT ![j] = NoJob("gone")])

(* The first section of a run by hand.  A forced one asks nothing but that the
   job is not running, so one that asks whether it is due adds no behaviour. *)
InspectManualRun(s, c, j) ==
    LET m == RecomputeNextRunsForMaintenance(mem[s])
    IN  /\ Request(s) /\ Exists(mem[s][j])
        /\ \A k \in Jobs : run[s, c][k] = "no"
        /\ Store(s, m)
        /\ run' = IF m[j].marker = "none" THEN [run EXCEPT ![<<s, c>>][j] = "waiting"] ELSE run
        /\ Unprotect(Cleared(mem[s], m))
        /\ UNCHANGED <<file, timer, boot, tick, held, cur, crashes>>

ReserveInMemory(s, c, j) ==                               \* faulty
    /\ c \in Callers /\ run[s, c][j] = "waiting"
    /\ Exists(mem[s][j]) /\ mem[s][j].marker = "none"
    /\ Store(s, [mem[s] EXCEPT ![j].marker = "on"])
    /\ run' = [run EXCEPT ![<<s, c>>][j] = "running"]
    /\ Unprotect({})
    /\ UNCHANGED <<file, timer, boot, tick, held, cur, requests, crashes>>

ReserveManualRun(s, c, j) ==
    /\ c \in Callers /\ run[s, c][j] = "waiting"
    /\ IF Exists(mem[s][j]) /\ mem[s][j].marker = "none"
       THEN /\ Persist(s, [mem[s] EXCEPT ![j].marker = "on"])
            /\ run' = [run EXCEPT ![<<s, c>>][j] = "running"]
       ELSE /\ UNCHANGED <<mem, file>>
            /\ run' = [run EXCEPT ![<<s, c>>][j] = "no"]
    /\ Unprotect({})
    /\ UNCHANGED <<timer, boot, tick, held, cur, requests, crashes>>

FinishUnmerged(s, c, j) ==                                \* faulty
    /\ c \in Callers /\ run[s, c][j] \in Results
    /\ run' = [run EXCEPT ![<<s, c>>][j] = "no"]
    /\ Persist(s, RecomputeNextRunsForMaintenance(file))
    /\ timer' = [timer EXCEPT ![s] = Armed(file)]
    /\ held' = [held EXCEPT ![s] = FALSE]
    /\ Unprotect({})
    /\ UNCHANGED <<boot, tick, cur, requests, crashes>>

FinishManualRun(s, c, j) ==
    LET merged == IF Exists(file[j])
                  THEN [file EXCEPT ![j] = ApplyJobResult(j, mem[s][j], run[s, c][j])] ELSE file
        m      == RecomputeNextRunsForMaintenance(merged)
    IN  /\ c \in Callers /\ run[s, c][j] \in Results
        /\ run' = [run EXCEPT ![<<s, c>>][j] = "no"]
        /\ IF Exists(mem[s][j])
           THEN /\ Persist(s, m)
                /\ timer' = [timer EXCEPT ![s] = Armed(m)]
                /\ held' = [held EXCEPT ![s] = FALSE]
                /\ Unprotect(Cleared(merged, m))
           ELSE UNCHANGED <<mem, file, timer, held>> /\ Unprotect({})
        /\ UNCHANGED <<boot, tick, cur, requests, crashes>>

-----------------------------------------------------------------------------
(* Time, reloads and crashes *)

Later(j, r) ==
    IF r.next # "future" THEN r
    ELSE [r EXCEPT !.next = "due",
                   !.slot = IF Kind[j] # "every" /\ @ = "ahead" THEN "past" ELSE @]

(* A job becomes due: in the file and in every memory that has its time. *)
Elapse(j) ==
    /\ \E r \in {file[j]} \cup {mem[s][j] : s \in Services} : r.next = "future"
    /\ file' = [file EXCEPT ![j] = Later(j, @)]
    /\ mem' = [s \in Services |-> [mem[s] EXCEPT ![j] = Later(j, @)]]
    /\ UNCHANGED <<timer, boot, tick, held, run, cur, lost, requests, crashes>>

(* A time of a cron expression goes by that is not the job's next run: during
   the last run, or during a backoff. *)
SlotPasses(j) ==
    LET Missed(r) == IF r.next = "future" /\ r.last # "none" /\ r.slot = "ahead"
                     THEN [r EXCEPT !.slot = "past"] ELSE r
    IN  /\ Kind[j] = "cron" /\ Missed(file[j]) # file[j]
        /\ file' = [file EXCEPT ![j] = Missed(@)]
        /\ mem' = [s \in Services |-> [mem[s] EXCEPT ![j] = Missed(@)]]
        /\ UNCHANGED <<timer, boot, tick, held, run, cur, lost, requests, crashes>>

(* STUCK_RUN_MS go by. *)
MarkerAges(j) ==
    LET Aged(r) == IF r.marker = "on" THEN [r EXCEPT !.marker = "stuck"] ELSE r
    IN  /\ \E r \in {file[j]} \cup {mem[s][j] : s \in Services} : r.marker = "on"
        /\ file' = [file EXCEPT ![j] = Aged(@)]
        /\ mem' = [s \in Services |-> [mem[s] EXCEPT ![j] = Aged(@)]]
        /\ UNCHANGED <<timer, boot, tick, held, run, cur, lost, requests, crashes>>

(* A reload of the configuration: stop(), which clears the timer, and the
   start() of another service; what the old one has in hand goes on. *)
RestartCron(s) ==
    /\ boot[s] = "off" /\ requests < MaxRequests /\ requests' = requests + 1
    /\ timer' = [timer EXCEPT ![cur] = FALSE]
    /\ cur' = s
    /\ boot' = [boot EXCEPT ![s] = "load"]
    /\ UNCHANGED <<file, mem, tick, held, run, lost, crashes>>

Crash ==
    /\ crashes < MaxCrashes
    /\ crashes' = crashes + 1
    /\ mem' = [s \in Services |-> NoStore]
    /\ timer' = [s \in Services |-> FALSE]
    /\ boot' = [s \in Services |-> IF s = cur THEN "load" ELSE "off"]
    /\ tick' = [s \in Services |-> "idle"]
    /\ held' = [s \in Services |-> FALSE]
    /\ run' = [p \in Services \X Actors |-> NoRuns]
    /\ lost' = {}
    /\ UNCHANGED <<file, cur, requests>>

Start(s) == BootLoad(s) \/ BootPlan(s) \/ BootApply(s) \/ BootArm(s)
Tick(s) == CollectRunnableJobs(s) \/ ApplyOutcomes(s) \/ TickEnds(s)
Manual(s, c, j) == ReserveManualRun(s, c, j) \/ FinishManualRun(s, c, j)
Time(j) == Elapse(j) \/ SlotPasses(j) \/ MarkerAges(j)

Next ==
    \/ \E s \in Services : Start(s) \/ Tick(s) \/ TimerFires(s) \/ Read(s) \/ RestartCron(s)
    \/ \E s \in Services, j \in Jobs :
         \/ Add(s, j) \/ Remove(s, j)
         \/ \E patch \in {"enable", "disable", "reschedule", "other"} : Update(s, j, patch)
         \/ \E a \in Actors : Begin(s, a, j) \/ End(s, a, j)
         \/ \E c \in Callers : InspectManualRun(s, c, j) \/ Manual(s, c, j)
    \/ \E j \in Jobs : Time(j)
    \/ Crash

Spec == Init /\ [][Next]_vars

(* The lock is handed on in order, so every section has its turn; timers fire
   and runs end. *)
Fairness ==
    /\ \A s \in Services : WF_vars(Start(s)) /\ WF_vars(Tick(s)) /\ WF_vars(TimerFires(s))
    /\ \A s \in Services, j \in Jobs :
         /\ \A a \in Actors : WF_vars(Begin(s, a, j)) /\ WF_vars(End(s, a, j))
         /\ \A c \in Callers : WF_vars(Manual(s, c, j))
FairSpec == Spec /\ Fairness

-----------------------------------------------------------------------------
(* Properties *)

Alone == \A s \in Services : boot[s] # "off" => s = cur

(* A job does not run twice at a time, tick, start and callers taken together,
   unless its marker was cleared under a run: by a disable, or by maintenance
   once it is two hours old (normalizeJobTickState). *)
NotTwiceAtOnce == Alone => \A j \in Jobs \ lost : Cardinality(Running(j)) <= 1

(* What a test promises of two services that share a store: they do not run the
   same job at a time. *)
OneServiceRunsAJob == \A j \in Jobs : \A p, q \in Running(j) : p[1] = q[1]

(* No job is blocked by a marker that nobody will take away: whatever a crash, a
   removal, a reload from the file or a merge of results did, a marker in the
   file of a started service belongs to a run in hand. *)
MarkerHasOwner ==
    Alone /\ boot[cur] # "load" =>
      \A j \in Jobs : file[j].marker # "none" => \E a \in Actors : run[cur, a][j] \in InHand

(* A scheduler at rest with something to wait for has its timer set: no path
   through edits, runs by hand, ticks and their early returns loses it. *)
SchedulerArmed ==
    boot[cur] = "done" /\ tick[cur] = "idle" /\ Armed(mem[cur]) => timer[cur]

(* Reads, ticks, runs by hand and edits of other jobs never move a recurring job
   that is due to a later time unless a run of it ended: only a start, an
   addition of some job, and an edit of the job itself do. *)
DueIsKept ==
    [][\A j \in Jobs :
         Alone /\ Kind[j] # "at" /\ file[j].next = "due" /\ file'[j].next = "future" =>
           \/ \E p \in Services \X Actors : run[p][j] \in Results /\ run'[p][j] = "no"
           \/ \E s \in Services : BootArm(s) \/ BootApply(s) \/ (\E k \in Jobs : Add(s, k))
           \/ \E s \in Services, patch \in {"enable", "reschedule"} : Update(s, j, patch)]_vars

(* The inductive invariant.  A service not started has nothing in hand, and what
   its tick and its start have in hand they have in their phases alone. *)
Unstarted == \A s \in Services : boot[s] \in {"off", "load"} =>
               tick[s] = "idle" /\ ~timer[s] /\ \A a \in Actors : run[s, a] = NoRuns
TickPhase == \A s \in Services : tick[s] # "run" => run[s, "tick"] = NoRuns
BootPhase == \A s \in Services : boot[s] \notin {"plan", "run"} => run[s, "boot"] = NoRuns
SkipPhase == \A s \in Services : boot[s] = "plan" =>
               \A j \in Jobs : run[s, "boot"][j] \in {"no", "skip"}
HandPhase == \A s \in Services, a \in Actors \ {"boot"}, j \in Jobs :
               run[s, a][j] \in {"no"} \cup InHand
Phases == Unstarted /\ TickPhase /\ BootPhase /\ SkipPhase /\ HandPhase

(* No copy of a job waits for a next run to be computed, but that of a one-shot
   job that is done. *)
Settled(m) == \A j \in Jobs :
    /\ m[j].enabled /\ m[j].next = "none" => Kind[j] = "at" /\ m[j].slot = "served" /\ m[j].last = "ok"
    /\ ~m[j].enabled => m[j].next = "none"
    /\ ~Exists(m[j]) => ~m[j].enabled /\ m[j].marker = "none"

Holders(j) == {p \in Services \X Actors :
                 run[p][j] \in InHand /\ (run[p][j] = "waiting" => p[2] \notin Callers)}

(* While there is one service its memory and the file differ in markers alone,
   a marker has a holder, and, unless it was lost, a holder has both markers and
   is the only one. *)
Markers ==
    Alone /\ boot[cur] # "load" => \A j \in Jobs :
      /\ [mem[cur][j] EXCEPT !.marker = "none"] = [file[j] EXCEPT !.marker = "none"]
      /\ file[j].marker # "none" \/ mem[cur][j].marker # "none" => Holders(j) # {}
      /\ j \notin lost => \A p, q \in Holders(j) : p = q
      /\ j \notin lost /\ Holders(j) # {} /\ Exists(file[j]) =>
           file[j].marker # "none" /\ mem[cur][j].marker # "none"

Inductive ==
    /\ TypeOK /\ boot[cur] # "off" /\ Phases
    /\ Settled(file) /\ \A s \in Services : Settled(mem[s])
    /\ Markers /\ SchedulerArmed

(* A job that is due and enabled is run, unless it is edited or put off. *)
DueIsServed ==
    \A j \in Jobs :
      (file[j].enabled /\ file[j].next = "due") ~>
        (Running(j) # {} \/ ~file[j].enabled \/ file[j].next # "due")
=============================================================================
