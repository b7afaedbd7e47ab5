-------------------------- MODULE CronServiceProofs --------------------------
(* What CronService promises, proved for any jobs, callers and services, any
   number of runs at a time, and any number of requests and crashes.

   The argument: while one service is started, what it has in memory and in the
   file differs in running markers alone; a job with a marker is in hand
   somewhere, and a job in hand has both markers and one holder, unless its
   marker was taken away under it (lost).  So whoever looks at a marker before he
   takes a job in hand finds it free only if nobody has it. *)
EXTENDS CronService, FiniteSetTheorems, TLAPS

USE DEF Results, InHand, Actors

-----------------------------------------------------------------------------
(* Jobs *)

(* A job is the record of its five parts. *)
LEMMA JobFields ==
    ASSUME NEW r \in Job
    PROVE  /\ r.enabled \in BOOLEAN /\ r.next \in {"none", "future", "due"}
           /\ r.marker \in {"none", "on", "stuck"} /\ r.last \in {"none", "ok", "error"}
           /\ r.slot \in {"ahead", "past", "served", "new", "gone"}
           /\ r = [enabled |-> r.enabled, next |-> r.next, marker |-> r.marker,
                   last |-> r.last, slot |-> r.slot]
BY DEF Job

LEMMA NoJobIsJob ==
    \A slot \in {"ahead", "past", "served", "new", "gone"} : NoJob(slot) \in Job
BY DEF NoJob, Job

LEMMA JobUpdates ==
    ASSUME NEW r \in Job
    PROVE  /\ \A k \in {"none", "on", "stuck"} : [r EXCEPT !.marker = k] \in Job
           /\ \A n \in {"none", "future", "due"} : [r EXCEPT !.next = n] \in Job
BY DEF Job

(* computeNextJobRunAtMs: a recurring job has a next run, a one-shot job that is
   served has none. *)
LEMMA ComputeNextFacts ==
    ASSUME NEW j \in Jobs, NEW r \in Job
    PROVE  /\ ComputeNext(j, r) \in {"none", "future", "due"}
           /\ ~r.enabled => ComputeNext(j, r) = "none"
           /\ r.enabled /\ ComputeNext(j, r) = "none" =>
                Kind[j] = "at" /\ r.slot = "served" /\ r.last = "ok"
           /\ r.enabled /\ Kind[j] = "at" /\ r.slot = "served" /\ r.last = "ok" =>
                ComputeNext(j, r) = "none"
BY JobFields DEF ComputeNext

(* normalizeJobTickState takes away markers, and the next run of a disabled job. *)
LEMMA NormalizeFacts ==
    ASSUME NEW r \in Job
    PROVE  /\ Normalize(r) \in Job
           /\ Normalize(r).enabled = r.enabled /\ Normalize(r).last = r.last
           /\ Normalize(r).slot = r.slot
           /\ Normalize(r).next = (IF r.enabled THEN r.next ELSE "none")
           /\ Normalize(r).marker \in {r.marker, "none"}
           /\ ~r.enabled => Normalize(r).marker = "none"
BY DEF Normalize, Job

(* A recompute changes next runs and takes away markers. *)
LEMMA RecomputeFacts ==
    ASSUME NEW m \in [Jobs -> Job], NEW which \in SUBSET {"none", "due"}
    PROVE  /\ Recompute(m, which) \in [Jobs -> Job]
           /\ \A j \in Jobs : LET r == Recompute(m, which)[j] IN
                /\ r.enabled = m[j].enabled /\ r.last = m[j].last /\ r.slot = m[j].slot
                /\ r.marker \in {m[j].marker, "none"}
                /\ ~r.enabled => r.next = "none" /\ r.marker = "none"
                /\ r.enabled /\ m[j].next \notin which => r.next = m[j].next
                /\ r.enabled /\ m[j].next \in which => r.next = ComputeNext(j, Normalize(m[j]))
<1>. DEFINE n(j) == Normalize(m[j])
            c(j) == IF n(j).enabled /\ n(j).next \in which
                    THEN [n(j) EXCEPT !.next = ComputeNext(j, n(j))] ELSE n(j)
<1>1. Recompute(m, which) = [j \in Jobs |-> c(j)]
  BY DEF Recompute
<1>2. ASSUME NEW j \in Jobs
      PROVE  /\ c(j) \in Job
             /\ c(j).enabled = m[j].enabled /\ c(j).last = m[j].last /\ c(j).slot = m[j].slot
             /\ c(j).marker \in {m[j].marker, "none"}
             /\ ~c(j).enabled => c(j).next = "none" /\ c(j).marker = "none"
             /\ c(j).enabled /\ m[j].next \notin which => c(j).next = m[j].next
             /\ c(j).enabled /\ m[j].next \in which => c(j).next = ComputeNext(j, n(j))
  <2>1. m[j] \in Job /\ n(j) \in Job
    BY NormalizeFacts
  <2>2. ComputeNext(j, n(j)) \in {"none", "future", "due"}
    BY <2>1, ComputeNextFacts
  <2>. QED
    BY <2>1, <2>2, NormalizeFacts DEF Job
<1>. HIDE DEF c, n
<1>. QED
  BY <1>1, <1>2 DEF n
(* applyJobResult takes the marker away and leaves no enabled job without a next
   run; a job that is not there stays as it is. *)
LEMMA ApplyJobResultFacts ==
    ASSUME NEW j \in Jobs, NEW r \in Job, NEW result \in Results
    PROVE  LET q == ApplyJobResult(j, r, result) IN
           /\ q \in Job
           /\ Exists(r) => q.marker = "none"
           /\ ~Exists(r) => q = r
           /\ Exists(q) => Exists(r)
           /\ Exists(r) /\ ~Exists(q) => ~q.enabled
BY JobFields DEF ApplyJobResult, Job, NoJob, Exists

LEMMA ApplyAllFacts ==
    ASSUME NEW m \in [Jobs -> Job], NEW outcomes
    PROVE  /\ ApplyAll(m, outcomes) \in [Jobs -> Job]
           /\ \A j \in Jobs : ApplyAll(m, outcomes)[j] =
                (IF outcomes[j] \in Results THEN ApplyJobResult(j, m[j], outcomes[j]) ELSE m[j])
BY ApplyJobResultFacts DEF ApplyAll

LEMMA MarkedTyped ==
    ASSUME NEW m \in [Jobs -> Job], NEW now
    PROVE  [j \in Jobs |-> IF j \in now THEN [m[j] EXCEPT !.marker = "on"] ELSE m[j]] \in [Jobs -> Job]
BY JobUpdates

LEMMA PatchedFacts ==
    ASSUME NEW j \in Jobs, NEW r \in Job, Exists(r),
           NEW patch \in {"enable", "disable", "reschedule", "other"}
    PROVE  /\ Patched(j, r, patch) \in Job
           /\ Exists(Patched(j, r, patch))
           /\ Patched(j, r, patch).marker \in {r.marker, "none"}
<1>. DEFINE p == CASE patch = "enable"     -> [r EXCEPT !.enabled = TRUE]
                   [] patch = "disable"    -> [r EXCEPT !.enabled = FALSE]
                   [] patch = "reschedule" -> [r EXCEPT !.slot = "ahead"]
                   [] OTHER                -> r
<1>1. p \in Job /\ Exists(p) /\ p.marker = r.marker
  BY DEF Job, Exists
<1>2. Patched(j, r, patch) =
        IF ~p.enabled /\ patch # "other" THEN [p EXCEPT !.next = "none", !.marker = "none"]
        ELSE IF p.enabled /\ (patch # "other" \/ p.next = "none") THEN [p EXCEPT !.next = ComputeNext(j, p)]
        ELSE p
  BY DEF Patched
<1>. HIDE DEF p
<1>3. ComputeNext(j, p) \in {"none", "future", "due"}
  BY <1>1, ComputeNextFacts
<1>4. CASE ~p.enabled /\ patch # "other"
  BY <1>1, <1>2, <1>4 DEF Job, Exists
<1>5. CASE p.enabled /\ (patch # "other" \/ p.next = "none")
  BY <1>1, <1>2, <1>3, <1>5 DEF Job, Exists
<1>6. CASE ~(~p.enabled /\ patch # "other") /\ ~(p.enabled /\ (patch # "other" \/ p.next = "none"))
  BY <1>1, <1>2, <1>6
<1>. QED
  BY <1>4, <1>5, <1>6

LEMMA TimeFacts ==
    ASSUME NEW j \in Jobs, NEW r \in Job
    PROVE  Later(j, r) \in Job
BY DEF Later, Job

-----------------------------------------------------------------------------
(* Type correctness *)

Runs == [Services \X Actors -> [Jobs -> {"no", "skip", "deferred"} \cup InHand]]

LEMMA InitTyped == Init => TypeOK
<1>. SUFFICES ASSUME Init PROVE TypeOK
  OBVIOUS
<1>1. NoJob("new") \in Job /\ [NoJob("ahead") EXCEPT !.enabled = TRUE, !.next = "future"] \in Job
  BY DEF NoJob, Job
<1>2. file \in [Jobs -> Job]
  BY <1>1 DEF Init
<1>3. mem \in [Services -> [Jobs -> Job]]
  BY NoJobIsJob DEF Init, NoStore
<1>4. run \in Runs
  BY DEF Init, Runs, NoRuns
<1>. QED
  BY <1>2, <1>3, <1>4, CronAssumption DEF Init, TypeOK, Runs

(* What start() may find missed and what it runs of it at once *)
Planned(s, missed, now) ==
    /\ IF missed = {} THEN UNCHANGED <<mem, file>>
       ELSE Persist(s, [j \in Jobs |-> IF j \in now THEN [mem[s][j] EXCEPT !.marker = "on"]
                                       ELSE mem[s][j]])
    /\ run' = [run EXCEPT ![<<s, "boot">>] =
                  [j \in Jobs |-> IF j \in now THEN "waiting"
                                  ELSE IF j \in missed THEN "deferred" ELSE "no"]]
    /\ boot' = [boot EXCEPT ![s] = IF missed = {} THEN "arm" ELSE "run"]

LEMMA BootPlanned ==
    ASSUME NEW s \in Services, BootPlan(s)
    PROVE  \E missed \in SUBSET Jobs : \E now \in SUBSET missed :
             /\ \A j \in missed : MayCatchUp(j, mem[s][j]) /\ run[s, "boot"][j] # "skip"
             /\ Planned(s, missed, now)
<1>. DEFINE open == {j \in Jobs : run[s, "boot"][j] # "skip"}
            must == {j \in open : MustCatchUp(j, mem[s][j])}
            may  == {j \in open : MayCatchUp(j, mem[s][j])}
<1>1. PICK missed \in {must \cup extra : extra \in SUBSET (may \ must)} :
        \E now \in SUBSET missed : Planned(s, missed, now)
  BY DEF BootPlan, Planned
<1>2. must \subseteq may
  BY DEF MayCatchUp
<1>3. missed \subseteq may
  BY <1>2
<1>. QED
  BY <1>1, <1>3

LEMMA StartTyped ==
    ASSUME TypeOK, NEW s \in Services, Start(s)
    PROVE  TypeOK'
<1>1. CASE BootLoad(s)
  <2>1. [j \in Jobs |-> [file[j] EXCEPT !.marker = "none"]] \in [Jobs -> Job]
    BY JobUpdates DEF TypeOK
  <2>. QED
    BY <1>1, <2>1 DEF TypeOK, BootLoad, Persist, Store, Unprotect
<1>2. CASE BootPlan(s)
  <2>2. PICK missed \in SUBSET Jobs : \E now \in SUBSET missed : Planned(s, missed, now)
    BY <1>2, BootPlanned
  <2>3. PICK now \in SUBSET missed : Planned(s, missed, now)
    BY <2>2
  <2>4. mem' \in [Services -> [Jobs -> Job]] /\ file' \in [Jobs -> Job]
    <3>. DEFINE marked == [j \in Jobs |-> IF j \in now THEN [mem[s][j] EXCEPT !.marker = "on"]
                                          ELSE mem[s][j]]
    <3>1. marked \in [Jobs -> Job]
      BY MarkedTyped DEF TypeOK
    <3>2. (UNCHANGED <<mem, file>>) \/ (mem' = [mem EXCEPT ![s] = marked] /\ file' = marked)
      BY <2>3 DEF Planned, Persist, Store
    <3>. HIDE DEF marked
    <3>. QED
      BY <3>1, <3>2 DEF TypeOK
  <2>5. run' \in Runs
    BY <2>3 DEF Planned,  TypeOK, Runs
  <2>6. Unprotect({}) /\ UNCHANGED <<timer, tick, held, cur, requests, crashes>>
    BY <1>2 DEF BootPlan
  <2>7. boot' \in [Services -> {"off", "load", "plan", "run", "arm", "done"}]
    BY <2>3 DEF Planned, TypeOK
  <2>. QED
    BY <2>4, <2>5, <2>6, <2>7 DEF TypeOK, Runs, Unprotect
<1>3. CASE BootApply(s)
  <2>. DEFINE outcomes == run[s, "boot"]
              applied  == ApplyAll(mem[s], outcomes)
              Late(j)  == IF outcomes[j] = "deferred" /\ applied[j].enabled
                          THEN [applied[j] EXCEPT !.next = "future"] ELSE applied[j]
              staggered == [j \in Jobs |-> Late(j)]
              kept     == Recompute(staggered, {"none"})
  <2>1. applied \in [Jobs -> Job]
    BY ApplyAllFacts DEF TypeOK
  <2>2. staggered \in [Jobs -> Job]
    <3>. HIDE DEF applied, outcomes
    <3>. QED
      BY <2>1, JobUpdates
  <2>3. Persist(s, kept) /\ run' = [run EXCEPT ![<<s, "boot">>] = NoRuns]
        /\ Unprotect(Cleared(staggered, kept))
    BY <1>3 DEF BootApply, RecomputeNextRunsForMaintenance
  <2>. HIDE DEF staggered
  <2>4. kept \in [Jobs -> Job]
    BY <2>2, RecomputeFacts
  <2>5. lost' \subseteq Jobs
    BY <2>3 DEF Unprotect, Cleared, TypeOK
  <2>6. run' \in Runs
    BY <2>3 DEF TypeOK, Runs, NoRuns
  <2>7. boot' = [boot EXCEPT ![s] = "arm"] /\ UNCHANGED <<timer, tick, held, cur, requests, crashes>>
    BY <1>3 DEF BootApply
  <2>. HIDE DEF kept
  <2>. QED
    BY <2>3, <2>4, <2>5, <2>6, <2>7 DEF TypeOK, Persist, Store, Runs
<1>4. CASE BootArm(s)
  <2>1. RecomputeNextRuns(mem[s]) \in [Jobs -> Job]
    BY RecomputeFacts DEF RecomputeNextRuns, TypeOK
  <2>. QED
    BY <1>4, <2>1 DEF TypeOK, BootArm, Store, Unprotect, Cleared, Armed
<1>. QED
  BY <1>1, <1>2, <1>3, <1>4 DEF Start

LEMMA TickTyped ==
    ASSUME TypeOK, NEW s \in Services, Tick(s)
    PROVE  TypeOK'
<1>1. CASE CollectRunnableJobs(s)
  <2>. DEFINE due == {j \in Jobs : IsRunnable(file[j])}
              marked == [j \in Jobs |-> IF j \in due THEN [file[j] EXCEPT !.marker = "on"] ELSE file[j]]
              m == IF due = {} THEN Recompute(file, {"none"}) ELSE marked
              hand == [j \in Jobs |-> IF j \in due THEN "waiting" ELSE "no"]
  <2>1. m \in [Jobs -> Job]
    <3>1. file \in [Jobs -> Job]
      BY DEF TypeOK
    <3>2. marked \in [Jobs -> Job] /\ Recompute(file, {"none"}) \in [Jobs -> Job]
      BY <3>1, MarkedTyped, RecomputeFacts
    <3>. QED
      BY <3>2
  <2>2. /\ Persist(s, m) /\ run' = [run EXCEPT ![<<s, "tick">>] = hand]
        /\ tick' = [tick EXCEPT ![s] = IF due = {} THEN "end" ELSE "run"]
        /\ held' = [held EXCEPT ![s] = TRUE]
        /\ Unprotect(Cleared(file, m)) /\ UNCHANGED <<timer, boot, cur, requests, crashes>>
    BY <1>1 DEF CollectRunnableJobs, RecomputeNextRunsForMaintenance
  <2>3. run' \in Runs
    BY <2>2 DEF TypeOK, Runs
  <2>4. tick' \in [Services -> {"idle", "collect", "run", "end"}]
    BY <2>2 DEF TypeOK
  <2>. HIDE DEF m, hand, due
  <2>. QED
    BY <2>1, <2>2, <2>3, <2>4 DEF TypeOK, Persist, Store, Runs, Unprotect, Cleared
<1>2. CASE ApplyOutcomes(s)
  <2>. DEFINE applied == ApplyAll(file, run[s, "tick"])
              m == Recompute(applied, {"none"})
  <2>1. m \in [Jobs -> Job]
    <3>1. applied \in [Jobs -> Job]
      BY ApplyAllFacts DEF TypeOK
    <3>. QED
      BY <3>1, RecomputeFacts
  <2>2. /\ Persist(s, m) /\ run' = [run EXCEPT ![<<s, "tick">>] = NoRuns]
        /\ tick' = [tick EXCEPT ![s] = "end"] /\ held' = [held EXCEPT ![s] = FALSE]
        /\ Unprotect(Cleared(applied, m)) /\ UNCHANGED <<timer, boot, cur, requests, crashes>>
    BY <1>2 DEF ApplyOutcomes, RecomputeNextRunsForMaintenance
  <2>3. run' \in Runs
    BY <2>2 DEF TypeOK, Runs, NoRuns
  <2>. HIDE DEF m
  <2>. QED
    BY <2>1, <2>2, <2>3 DEF TypeOK, Persist, Store, Runs, Unprotect, Cleared
<1>3. CASE TickEnds(s)
  BY <1>3 DEF TickEnds, TypeOK, Armed
<1>. QED
  BY <1>1, <1>2, <1>3 DEF Tick

(* Runs that begin and end, and timers *)
LEMMA RunTyped ==
    ASSUME TypeOK, NEW s \in Services,
           \/ TimerFires(s)
           \/ \E a \in Actors, j \in Jobs : Begin(s, a, j) \/ End(s, a, j)
    PROVE  TypeOK'
<1>1. CASE TimerFires(s)
  BY <1>1 DEF TimerFires, TypeOK
<1>2. ASSUME NEW a \in Actors, NEW j \in Jobs, Begin(s, a, j) PROVE TypeOK'
  <2>1. run' \in Runs
    BY <1>2 DEF Begin, TypeOK, Runs
  <2>2. mem' \in [Services -> [Jobs -> Job]]
    <3>0. mem[s] \in [Jobs -> Job] /\ mem[s][j] \in Job
      BY DEF TypeOK
    <3>1. [mem[s][j] EXCEPT !.marker = "on"] \in Job
      BY <3>0, JobUpdates
    <3>2. mem' = [mem EXCEPT ![s] = [mem[s] EXCEPT ![j] = [mem[s][j] EXCEPT !.marker = "on"]]] \/ mem' = mem
      BY <1>2 DEF Begin, TypeOK
    <3>3. [mem[s] EXCEPT ![j] = [mem[s][j] EXCEPT !.marker = "on"]] \in [Jobs -> Job]
      BY <3>0, <3>1
    <3>. QED
      BY <3>2, <3>3 DEF TypeOK
  <2>. QED
    BY <1>2, <2>1, <2>2 DEF Begin, TypeOK, Runs, Unprotect
<1>3. ASSUME NEW a \in Actors, NEW j \in Jobs, End(s, a, j) PROVE TypeOK'
  <2>1. PICK result \in Results : run' = [run EXCEPT ![<<s, a>>][j] = result]
    BY <1>3 DEF End
  <2>2. run' \in Runs
    BY <2>1 DEF TypeOK, Runs
  <2>. QED
    BY <1>3, <2>2 DEF End, TypeOK, Runs
<1>. QED
  BY <1>1, <1>2, <1>3

(* What every edit does *)
LEMMA EditedTyped ==
    ASSUME TypeOK, NEW s \in Services, NEW m \in [Jobs -> Job], Edited(s, m)
    PROVE  TypeOK'
BY CronAssumption DEF Edited, Request, TypeOK, Persist, Store, Unprotect, Cleared, Armed

LEMMA AddedTyped ==
    ASSUME NEW m \in [Jobs -> Job], NEW j \in Jobs, NEW enabled \in BOOLEAN
    PROVE  LET r == [NoJob("ahead") EXCEPT !.enabled = enabled] IN
           [m EXCEPT ![j] = [r EXCEPT !.next = ComputeNext(j, r)]] \in [Jobs -> Job]
<1>. DEFINE r == [NoJob("ahead") EXCEPT !.enabled = enabled]
<1>1. r \in Job
  BY DEF NoJob, Job
<1>. HIDE DEF r
<1>2. [r EXCEPT !.next = ComputeNext(j, r)] \in Job
  BY <1>1, ComputeNextFacts, JobUpdates
<1>. QED
  BY <1>2 DEF r

LEMMA EditTyped ==
    ASSUME TypeOK, NEW s \in Services, NEW j \in Jobs,
           \/ Add(s, j) \/ Remove(s, j)
           \/ \E patch \in {"enable", "disable", "reschedule", "other"} : Update(s, j, patch)
    PROVE  TypeOK'
<1>0. mem[s] \in [Jobs -> Job]
  BY DEF TypeOK
<1>1. CASE Add(s, j)
  <2>1. PICK enabled \in BOOLEAN :
          LET r == [NoJob("ahead") EXCEPT !.enabled = enabled]
          IN  Edited(s, RecomputeNextRuns([mem[s] EXCEPT ![j] = [r EXCEPT !.next = ComputeNext(j, r)]]))
    BY <1>1 DEF Add
  <2>. DEFINE r == [NoJob("ahead") EXCEPT !.enabled = enabled]
              m == [mem[s] EXCEPT ![j] = [r EXCEPT !.next = ComputeNext(j, r)]]
  <2>2. m \in [Jobs -> Job]
    BY <1>0, AddedTyped
  <2>. HIDE DEF m
  <2>3. RecomputeNextRuns(m) \in [Jobs -> Job]
    BY <2>2, RecomputeFacts DEF RecomputeNextRuns
  <2>. QED
    BY <2>1, <2>3, EditedTyped DEF m
<1>2. CASE Remove(s, j)
  <2>1. [mem[s] EXCEPT ![j] = NoJob("gone")] \in [Jobs -> Job]
    BY <1>0, NoJobIsJob
  <2>. QED
    BY <1>2, <2>1, EditedTyped DEF Remove
<1>3. ASSUME NEW patch \in {"enable", "disable", "reschedule", "other"}, Update(s, j, patch)
      PROVE  TypeOK'
  <2>1. Patched(j, mem[s][j], patch) \in Job
    BY <1>0, <1>3, PatchedFacts DEF Update
  <2>2. [mem[s] EXCEPT ![j] = Patched(j, @, patch)] \in [Jobs -> Job]
    BY <1>0, <2>1
  <2>. QED
    BY <1>3, <2>2, EditedTyped DEF Update
<1>. QED
  BY <1>1, <1>2, <1>3

LEMMA ReadTyped ==
    ASSUME TypeOK, NEW s \in Services, Read(s)
    PROVE  TypeOK'
<1>1. Recompute(mem[s], {"none"}) \in [Jobs -> Job]
  BY RecomputeFacts DEF TypeOK
<1>. QED
  BY <1>1 DEF Read, RecomputeNextRunsForMaintenance, TypeOK, Store, Unprotect, Cleared

LEMMA ManualTyped ==
    ASSUME TypeOK, NEW s \in Services, NEW c \in Callers, NEW j \in Jobs,
           InspectManualRun(s, c, j) \/ Manual(s, c, j)
    PROVE  TypeOK'
<1>0. mem[s] \in [Jobs -> Job] /\ file \in [Jobs -> Job]
  BY DEF TypeOK
<1>1. CASE InspectManualRun(s, c, j)
  <2>1. Recompute(mem[s], {"none"}) \in [Jobs -> Job]
    BY <1>0, RecomputeFacts
  <2>2. run' \in Runs
    BY <1>1 DEF InspectManualRun, TypeOK, Runs
  <2>3. requests' \in 0 .. MaxRequests
    <3>1. requests < MaxRequests /\ requests' = requests + 1
      BY <1>1 DEF InspectManualRun, Request
    <3>. QED
      BY <3>1, CronAssumption DEF TypeOK
  <2>4. /\ mem' = [mem EXCEPT ![s] = Recompute(mem[s], {"none"})]
        /\ Unprotect(Cleared(mem[s], Recompute(mem[s], {"none"})))
        /\ UNCHANGED <<file, timer, boot, tick, held, cur, crashes>>
    BY <1>1 DEF InspectManualRun, RecomputeNextRunsForMaintenance, Store
  <2>. QED
    BY <2>1, <2>2, <2>3, <2>4 DEF TypeOK, Runs, Unprotect, Cleared
<1>2. CASE ReserveManualRun(s, c, j)
  <2>0. PICK v \in {"running", "no"} : run' = [run EXCEPT ![<<s, c>>][j] = v]
    BY <1>2 DEF ReserveManualRun
  <2>1. run' \in Runs
    BY <2>0 DEF TypeOK, Runs
  <2>. DEFINE marked == [mem[s] EXCEPT ![j] = [mem[s][j] EXCEPT !.marker = "on"]]
  <2>2. [mem[s][j] EXCEPT !.marker = "on"] \in Job
    BY <1>0, JobUpdates
  <2>3. marked \in [Jobs -> Job]
    BY <1>0, <2>2
  <2>4. UNCHANGED <<mem, file>> \/ (mem' = [mem EXCEPT ![s] = marked] /\ file' = marked)
    <3>1. [mem[s] EXCEPT ![j].marker = "on"] = marked
      BY <1>0
    <3>. QED
      BY <1>2, <3>1 DEF ReserveManualRun, Persist, Store
  <2>5. Unprotect({}) /\ UNCHANGED <<timer, boot, tick, held, cur, requests, crashes>>
    BY <1>2 DEF ReserveManualRun
  <2>. HIDE DEF marked
  <2>6. mem' \in [Services -> [Jobs -> Job]] /\ file' \in [Jobs -> Job]
    BY <2>3, <2>4 DEF TypeOK
  <2>. QED
    BY <2>1, <2>5, <2>6 DEF TypeOK, Runs, Unprotect
<1>3. CASE FinishManualRun(s, c, j)
  <2>. DEFINE merged == IF Exists(file[j])
                        THEN [file EXCEPT ![j] = ApplyJobResult(j, mem[s][j], run[s, c][j])] ELSE file
              m == Recompute(merged, {"none"})
  <2>1. run[s, c][j] \in Results
    BY <1>3 DEF FinishManualRun
  <2>2. merged \in [Jobs -> Job]
    BY <1>0, <2>1, ApplyJobResultFacts
  <2>. HIDE DEF merged
  <2>3. m \in [Jobs -> Job]
    BY <2>2, RecomputeFacts
  <2>4. run' \in Runs
    BY <1>3 DEF FinishManualRun, TypeOK, Runs
  <2>5. \/ /\ Persist(s, m) /\ timer' = [timer EXCEPT ![s] = Armed(m)]
           /\ held' = [held EXCEPT ![s] = FALSE] /\ Unprotect(Cleared(merged, m))
        \/ UNCHANGED <<mem, file, timer, held>> /\ Unprotect({})
    BY <1>3 DEF FinishManualRun, RecomputeNextRunsForMaintenance, merged
  <2>6. UNCHANGED <<boot, tick, cur, requests, crashes>>
    BY <1>3 DEF FinishManualRun
  <2>. HIDE DEF m
  <2>. QED
    <3>1. mem' \in [Services -> [Jobs -> Job]] /\ file' \in [Jobs -> Job]
      BY <2>3, <2>5 DEF TypeOK, Persist, Store
    <3>2. timer' \in [Services -> BOOLEAN] /\ held' \in [Services -> BOOLEAN]
      BY <2>5 DEF TypeOK, Armed
    <3>3. lost' \subseteq Jobs
      BY <2>5 DEF TypeOK, Unprotect, Cleared
    <3>. QED
      BY <2>4, <2>6, <3>1, <3>2, <3>3 DEF TypeOK, Runs
<1>. QED
  BY <1>1, <1>2, <1>3 DEF Manual

LEMMA TimeTyped ==
    ASSUME TypeOK, NEW j \in Jobs, Time(j)
    PROVE  TypeOK'
<1>1. CASE Elapse(j)
  BY <1>1, TimeFacts DEF Elapse, TypeOK
<1>2. CASE SlotPasses(j)
  <2>. DEFINE Missed(r) == IF r.next = "future" /\ r.last # "none" /\ r.slot = "ahead"
                           THEN [r EXCEPT !.slot = "past"] ELSE r
  <2>1. \A r \in Job : Missed(r) \in Job
    BY DEF Job
  <2>2. /\ file' = [file EXCEPT ![j] = Missed(@)]
        /\ mem' = [s \in Services |-> [mem[s] EXCEPT ![j] = Missed(@)]]
        /\ UNCHANGED <<timer, boot, tick, held, run, cur, lost, requests, crashes>>
    BY <1>2 DEF SlotPasses
  <2>. HIDE DEF Missed
  <2>. QED
    BY <2>1, <2>2 DEF TypeOK
<1>3. CASE MarkerAges(j)
  <2>. DEFINE Aged(r) == IF r.marker = "on" THEN [r EXCEPT !.marker = "stuck"] ELSE r
  <2>1. \A r \in Job : Aged(r) \in Job
    BY DEF Job
  <2>2. /\ file' = [file EXCEPT ![j] = Aged(@)]
        /\ mem' = [s \in Services |-> [mem[s] EXCEPT ![j] = Aged(@)]]
        /\ UNCHANGED <<timer, boot, tick, held, run, cur, lost, requests, crashes>>
    BY <1>3 DEF MarkerAges
  <2>. HIDE DEF Aged
  <2>. QED
    BY <2>1, <2>2 DEF TypeOK
<1>. QED
  BY <1>1, <1>2, <1>3 DEF Time

LEMMA NextTyped == TypeOK /\ [Next]_vars => TypeOK'
<1>. SUFFICES ASSUME TypeOK, [Next]_vars PROVE TypeOK'
  OBVIOUS
<1>1. ASSUME NEW s \in Services, RestartCron(s) PROVE TypeOK'
  BY <1>1, CronAssumption DEF RestartCron, TypeOK
<1>2. CASE Crash
  <2>1. mem' \in [Services -> [Jobs -> Job]]
    BY <1>2, NoJobIsJob DEF Crash, NoStore
  <2>2. run' \in Runs
    BY <1>2 DEF Crash, Runs, NoRuns
  <2>. QED
    BY <1>2, <2>1, <2>2, CronAssumption DEF Crash, TypeOK, Runs
<1>3. CASE UNCHANGED vars
  BY <1>3 DEF vars, TypeOK
<1>. QED
  BY <1>1, <1>2, <1>3, StartTyped, TickTyped, RunTyped, ReadTyped, EditTyped, ManualTyped, TimeTyped DEF Next

(* Every variable keeps its type: also, no record leaves the states the source
   gives a job, and requests and crashes stay within their bounds. *)
THEOREM TypeCorrect == Spec => []TypeOK
BY InitTyped, NextTyped, PTL DEF Spec

-----------------------------------------------------------------------------
(* No copy of a job waits for its next run to be computed *)

SettledJob(j, r) ==
    /\ r.enabled /\ r.next = "none" => Kind[j] = "at" /\ r.slot = "served" /\ r.last = "ok"
    /\ ~r.enabled => r.next = "none"
    /\ ~Exists(r) => ~r.enabled /\ r.marker = "none"

Shaped(r) == ~Exists(r) => ~r.enabled /\ r.marker = "none"

(* Two copies of a job differ in their markers at most. *)
Agree(f, m) == [m EXCEPT !.marker = "none"] = [f EXCEPT !.marker = "none"]

LEMMA SettledIs == \A m : Settled(m) <=> \A j \in Jobs : SettledJob(j, m[j])
BY DEF Settled, SettledJob

LEMMA AgreeIs ==
    ASSUME NEW f \in Job, NEW m \in Job
    PROVE  Agree(f, m) <=> /\ m.enabled = f.enabled /\ m.next = f.next
                           /\ m.last = f.last /\ m.slot = f.slot
BY DEF Agree, Job

(* A recompute of what lacks a next run settles every job, whatever it was given. *)
LEMMA RecomputeSettles ==
    ASSUME NEW m \in [Jobs -> Job], NEW which \in SUBSET {"none", "due"}, "none" \in which,
           \A j \in Jobs : Shaped(m[j])
    PROVE  Settled(Recompute(m, which))
<1>1. ASSUME NEW j \in Jobs PROVE SettledJob(j, Recompute(m, which)[j])
  <2>. DEFINE r == Recompute(m, which)[j]
  <2>1. /\ r \in Job /\ r.enabled = m[j].enabled /\ r.last = m[j].last /\ r.slot = m[j].slot
        /\ r.marker \in {m[j].marker, "none"}
        /\ ~r.enabled => r.next = "none" /\ r.marker = "none"
        /\ r.enabled /\ m[j].next \notin which => r.next = m[j].next
        /\ r.enabled /\ m[j].next \in which => r.next = ComputeNext(j, Normalize(m[j]))
    BY RecomputeFacts
  <2>2. m[j] \in Job /\ Normalize(m[j]) \in Job /\ Normalize(m[j]).enabled = m[j].enabled
        /\ Normalize(m[j]).slot = m[j].slot /\ Normalize(m[j]).last = m[j].last
    BY NormalizeFacts
  <2>3. m[j].enabled /\ ComputeNext(j, Normalize(m[j])) = "none" =>
          Kind[j] = "at" /\ m[j].slot = "served" /\ m[j].last = "ok"
    BY <2>2, ComputeNextFacts
  <2>. HIDE DEF r
  <2>. QED
    BY <2>1, <2>2, <2>3 DEF SettledJob, Shaped, Exists, r
<1>. QED
  BY <1>1, SettledIs

(* Maintenance of settled jobs takes away markers, and nothing else. *)
LEMMA MaintenanceAgrees ==
    ASSUME NEW m \in [Jobs -> Job], Settled(m)
    PROVE  \A j \in Jobs : LET r == Recompute(m, {"none"})[j] IN
             r \in Job /\ Agree(m[j], r) /\ r.marker \in {m[j].marker, "none"}
<1>. SUFFICES ASSUME NEW j \in Jobs
     PROVE LET r == Recompute(m, {"none"})[j] IN
             r \in Job /\ Agree(m[j], r) /\ r.marker \in {m[j].marker, "none"}
  OBVIOUS
<1>. DEFINE r == Recompute(m, {"none"})[j]
<1>1. /\ r \in Job /\ r.enabled = m[j].enabled /\ r.last = m[j].last /\ r.slot = m[j].slot
      /\ r.marker \in {m[j].marker, "none"}
      /\ ~r.enabled => r.next = "none"
      /\ r.enabled /\ m[j].next # "none" => r.next = m[j].next
      /\ r.enabled /\ m[j].next = "none" => r.next = ComputeNext(j, Normalize(m[j]))
  BY RecomputeFacts
<1>2. m[j] \in Job /\ Normalize(m[j]) \in Job /\ Normalize(m[j]).enabled = m[j].enabled
      /\ Normalize(m[j]).slot = m[j].slot /\ Normalize(m[j]).last = m[j].last
  BY NormalizeFacts
<1>3. SettledJob(j, m[j])
  BY SettledIs
<1>4. r.next = m[j].next
  BY <1>1, <1>2, <1>3, ComputeNextFacts DEF SettledJob
<1>. HIDE DEF r
<1>. QED
  BY <1>1, <1>2, <1>4, AgreeIs DEF r

-----------------------------------------------------------------------------
(* Markers and who holds a job *)

(* The copies of a job in the file and in memory, whoever holds it, and whether
   its marker was lost. *)
Fits(f, m, H, l) ==
    /\ Agree(f, m)
    /\ f.marker # "none" \/ m.marker # "none" => H # {}
    /\ ~l => \A p, q \in H : p = q
    /\ ~l /\ H # {} /\ Exists(f) => f.marker # "none" /\ m.marker # "none"

LEMMA MarkersIs ==
    Markers <=> (Alone /\ boot[cur] # "load" =>
                   \A j \in Jobs : Fits(file[j], mem[cur][j], Holders(j), j \in lost))
BY DEF Markers, Fits, Agree

Holds(v, p) == v \in InHand /\ (v = "waiting" => p[2] \notin Callers)

LEMMA HoldersIs ==
    /\ \A j : Holders(j) = {p \in Services \X Actors : Holds(run[p][j], p)}
    /\ \A j : Holders(j)' = {p \in Services \X Actors : Holds(run'[p][j], p)}
BY DEF Holders, Holds

(* Who holds a job that was lost loses it no more, as long as anybody holds it. *)
LEMMA Unprotected ==
    ASSUME NEW cleared, Unprotect(cleared), NEW j \in Jobs, Holders(j)' # {}
    PROVE  j \in lost \cup cleared => j \in lost'
BY HoldersIs DEF Unprotect, Holds

-----------------------------------------------------------------------------
(* The phases of a service *)

(* A step that changes what one actor has in hand of one job, and not the phase
   of its service *)
Handed(s, a, j, v) ==
    /\ run' = [run EXCEPT ![<<s, a>>][j] = v] /\ v \in {"no"} \cup InHand
    /\ run[s, a][j] \in InHand \/ (a \in Callers /\ boot[s] \notin {"off", "load"})
    /\ \A t \in Services \ {s} : timer'[t] = timer[t]
    /\ UNCHANGED <<boot, tick, cur>>

(* A step that changes nobody's phase and nothing in hand *)
Quiet(s) ==
    /\ boot[s] \in {"off", "load"} => timer'[s] = timer[s]
    /\ \A t \in Services \ {s} : timer'[t] = timer[t]
    /\ UNCHANGED <<boot, tick, run, cur>>

LEMMA HandedFacts ==
    ASSUME TypeOK, NEW s \in Services, NEW a \in Actors, NEW j \in Jobs, NEW v, Handed(s, a, j, v)
    PROVE  /\ run'[s, a][j] = v
           /\ \A t \in Services, b \in Actors : (t # s \/ b # a) => run'[t, b] = run[t, b]
           /\ \A k \in Jobs : k # j => run'[s, a][k] = run[s, a][k]
BY DEF Handed, TypeOK

LEMMA Moves ==
    ASSUME TypeOK, Phases, Next
    PROVE  \/ \E s \in Services : \/ Start(s) \/ Tick(s) \/ TimerFires(s) \/ RestartCron(s)
                                   \/ Quiet(s)
                                   \/ \E a \in Actors, j \in Jobs, v \in {"no"} \cup InHand : Handed(s, a, j, v)
           \/ Crash
<1>. DEFINE Hands(s) == \E a \in Actors, j \in Jobs, v \in {"no"} \cup InHand : Handed(s, a, j, v)
<1>1. ASSUME NEW s \in Services, NEW a \in Actors, NEW j \in Jobs, Begin(s, a, j)
      PROVE  Hands(s)
  <2>1. /\ run' = [run EXCEPT ![<<s, a>>][j] = "running"] /\ run[s, a][j] = "waiting"
        /\ UNCHANGED <<timer, boot, tick, cur>>
    BY <1>1 DEF Begin
  <2>2. Handed(s, a, j, "running")
    BY <2>1 DEF Handed
  <2>. QED
    BY <2>2
<1>2. ASSUME NEW s \in Services, NEW a \in Actors, NEW j \in Jobs, End(s, a, j)
      PROVE  Hands(s)
  <2>1. PICK v \in Results : run' = [run EXCEPT ![<<s, a>>][j] = v]
    BY <1>2 DEF End
  <2>2. Handed(s, a, j, v)
    BY <1>2, <2>1 DEF End, Handed
  <2>. QED
    BY <2>2
<1>3. ASSUME NEW s \in Services, NEW c \in Callers, NEW j \in Jobs, InspectManualRun(s, c, j)
      PROVE  Hands(s) \/ Quiet(s)
  BY <1>3 DEF InspectManualRun, Request, Serving, Handed, Quiet
<1>4. ASSUME NEW s \in Services, NEW c \in Callers, NEW j \in Jobs, ReserveManualRun(s, c, j)
      PROVE  Hands(s)
  <2>1. Handed(s, c, j, "running") \/ Handed(s, c, j, "no")
    BY <1>4 DEF ReserveManualRun, Handed
  <2>. QED
    BY <2>1
<1>5. ASSUME NEW s \in Services, NEW c \in Callers, NEW j \in Jobs, FinishManualRun(s, c, j)
      PROVE  Hands(s)
  <2>1. timer' = timer \/ \E b \in BOOLEAN : timer' = [timer EXCEPT ![s] = b]
    BY <1>5 DEF FinishManualRun, Armed
  <2>2. \A t \in Services \ {s} : timer'[t] = timer[t]
    BY <2>1 DEF TypeOK
  <2>3. Handed(s, c, j, "no")
    BY <1>5, <2>2 DEF FinishManualRun, Handed
  <2>. QED
    BY <2>3
<1>6. ASSUME NEW s \in Services, Read(s) PROVE Quiet(s)
  BY <1>6 DEF Read, Quiet
<1>7. ASSUME NEW s \in Services, NEW m, Edited(s, m) PROVE Quiet(s)
  BY <1>7 DEF Edited, Request, Serving, Quiet, TypeOK
<1>8. ASSUME NEW j \in Jobs, Time(j) PROVE \A s \in Services : Quiet(s)
  BY <1>8 DEF Time, Elapse, SlotPasses, MarkerAges, Quiet
<1>. QED
  BY <1>1, <1>2, <1>3, <1>4, <1>5, <1>6, <1>7, <1>8 DEF Next, Manual, Add, Remove, Update, TypeOK

LEMMA UnstartedKept ==
    ASSUME TypeOK, Phases, Next
    PROVE  Unstarted'
<1>. USE DEF Phases
<1>1. ASSUME NEW s \in Services, BootLoad(s)
      PROVE  Unstarted'
  BY <1>1 DEF BootLoad, NoRuns, TypeOK, Unstarted
<1>2. ASSUME NEW s \in Services, BootPlan(s)
      PROVE  Unstarted'
  <2>1. PICK missed \in SUBSET Jobs : \E now \in SUBSET missed : Planned(s, missed, now)
    BY <1>2, BootPlanned
  <2>2. PICK now \in SUBSET missed : Planned(s, missed, now)
    BY <2>1
  <2>3. boot[s] = "plan" /\ UNCHANGED <<timer, tick, cur>>
    BY <1>2 DEF BootPlan
  <2>. QED
    BY <2>2, <2>3 DEF Planned, TypeOK, NoRuns, Unstarted
<1>3. ASSUME NEW s \in Services, BootApply(s)
      PROVE  Unstarted'
  BY <1>3 DEF BootApply, NoRuns, TypeOK, Unstarted
<1>4. ASSUME NEW s \in Services, BootArm(s)
      PROVE  Unstarted'
  BY <1>4 DEF BootArm, TypeOK, Unstarted
<1>5. ASSUME NEW s \in Services, CollectRunnableJobs(s)
      PROVE  Unstarted'
  BY <1>5 DEF CollectRunnableJobs, NoRuns, TypeOK, Unstarted
<1>6. ASSUME NEW s \in Services, ApplyOutcomes(s)
      PROVE  Unstarted'
  BY <1>6 DEF ApplyOutcomes, NoRuns, TypeOK, Unstarted
<1>7. ASSUME NEW s \in Services, TickEnds(s) \/ TimerFires(s)
      PROVE  Unstarted'
  BY <1>7 DEF TickEnds, TimerFires, TypeOK, Unstarted
<1>8. ASSUME NEW s \in Services, NEW a \in Actors, NEW j \in Jobs, NEW v, Handed(s, a, j, v)
      PROVE  Unstarted'
  <2>1. /\ run'[s, a][j] = v
        /\ \A t \in Services, b \in Actors : (t # s \/ b # a) => run'[t, b] = run[t, b]
        /\ \A k \in Jobs : k # j => run'[s, a][k] = run[s, a][k]
    BY <1>8, HandedFacts
  <2>2. /\ v \in {"no"} \cup InHand /\ UNCHANGED <<boot, tick, cur>>
        /\ run[s, a][j] \in InHand \/ (a \in Callers /\ boot[s] \notin {"off", "load"})
        /\ \A t \in Services \ {s} : timer'[t] = timer[t]
    BY <1>8 DEF Handed
  <2>3. "tick" \notin Callers /\ "boot" \notin Callers
    BY CronAssumption
  <2>4. boot[s] \notin {"off", "load"}
    <3>1. ASSUME boot[s] \in {"off", "load"} PROVE run[s, a][j] = "no"
      <4>1. run[s, a] = NoRuns
        BY <3>1 DEF Unstarted
      <4>. QED
        BY <4>1 DEF NoRuns
    <3>. QED
      BY <2>2, <3>1
  <2>. SUFFICES ASSUME NEW t \in Services, boot'[t] \in {"off", "load"}
                PROVE  tick'[t] = "idle" /\ ~timer'[t] /\ \A b \in Actors : run'[t, b] = NoRuns
    BY DEF Unstarted
  <2>5. t # s /\ boot[t] \in {"off", "load"}
    BY <2>2, <2>4
  <2>6. tick'[t] = tick[t] /\ timer'[t] = timer[t] /\ \A b \in Actors : run'[t, b] = run[t, b]
    BY <2>1, <2>2, <2>5
  <2>. QED
    BY <2>5, <2>6 DEF Unstarted
<1>9. ASSUME NEW s \in Services, Quiet(s)
      PROVE  Unstarted'
  BY <1>9 DEF Quiet, TypeOK, Unstarted
<1>10. ASSUME NEW s \in Services, RestartCron(s)
      PROVE  Unstarted'
  BY <1>10 DEF RestartCron, TypeOK, Unstarted
<1>11. CASE Crash
  BY <1>11 DEF Crash, NoRuns, TypeOK, Unstarted
<1>. QED
  BY <1>1, <1>2, <1>3, <1>4, <1>5, <1>6, <1>7, <1>8, <1>9, <1>10, <1>11, Moves DEF Start, Tick

LEMMA TickPhaseKept ==
    ASSUME TypeOK, Phases, Next
    PROVE  TickPhase'
<1>. USE DEF Phases
<1>1. ASSUME NEW s \in Services, BootLoad(s)
      PROVE  TickPhase'
  BY <1>1 DEF BootLoad, NoRuns, TypeOK, TickPhase
<1>2. ASSUME NEW s \in Services, BootPlan(s)
      PROVE  TickPhase'
  <2>1. PICK missed \in SUBSET Jobs : \E now \in SUBSET missed : Planned(s, missed, now)
    BY <1>2, BootPlanned
  <2>2. PICK now \in SUBSET missed : Planned(s, missed, now)
    BY <2>1
  <2>3. boot[s] = "plan" /\ UNCHANGED <<timer, tick, cur>>
    BY <1>2 DEF BootPlan
  <2>. QED
    BY <2>2, <2>3 DEF Planned, TypeOK, NoRuns, TickPhase
<1>3. ASSUME NEW s \in Services, BootApply(s)
      PROVE  TickPhase'
  BY <1>3 DEF BootApply, NoRuns, TypeOK, TickPhase
<1>4. ASSUME NEW s \in Services, BootArm(s)
      PROVE  TickPhase'
  BY <1>4 DEF BootArm, TypeOK, TickPhase
<1>5. ASSUME NEW s \in Services, CollectRunnableJobs(s)
      PROVE  TickPhase'
  BY <1>5 DEF CollectRunnableJobs, NoRuns, TypeOK, TickPhase
<1>6. ASSUME NEW s \in Services, ApplyOutcomes(s)
      PROVE  TickPhase'
  BY <1>6 DEF ApplyOutcomes, NoRuns, TypeOK, TickPhase
<1>7. ASSUME NEW s \in Services, TickEnds(s) \/ TimerFires(s)
      PROVE  TickPhase'
  BY <1>7 DEF TickEnds, TimerFires, TypeOK, TickPhase
<1>8. ASSUME NEW s \in Services, NEW a \in Actors, NEW j \in Jobs, NEW v, Handed(s, a, j, v)
      PROVE  TickPhase'
  <2>1. /\ run'[s, a][j] = v
        /\ \A t \in Services, b \in Actors : (t # s \/ b # a) => run'[t, b] = run[t, b]
        /\ \A k \in Jobs : k # j => run'[s, a][k] = run[s, a][k]
    BY <1>8, HandedFacts
  <2>2. /\ v \in {"no"} \cup InHand /\ UNCHANGED <<boot, tick, cur>>
        /\ run[s, a][j] \in InHand \/ (a \in Callers /\ boot[s] \notin {"off", "load"})
        /\ \A t \in Services \ {s} : timer'[t] = timer[t]
    BY <1>8 DEF Handed
  <2>3. "tick" \notin Callers /\ "boot" \notin Callers
    BY CronAssumption
  <2>4. a = "tick" => tick[s] = "run"
    BY <2>2, <2>3 DEF NoRuns, TickPhase
  <2>. SUFFICES ASSUME NEW t \in Services, tick'[t] # "run" PROVE run'[t, "tick"] = NoRuns
    BY DEF TickPhase
  <2>5. tick[t] # "run" /\ (t # s \/ a # "tick")
    BY <2>2, <2>4
  <2>6. run'[t, "tick"] = run[t, "tick"]
    BY <2>1, <2>5 DEF Actors
  <2>. QED
    BY <2>5, <2>6 DEF TickPhase
<1>9. ASSUME NEW s \in Services, Quiet(s)
      PROVE  TickPhase'
  BY <1>9 DEF Quiet, TypeOK, TickPhase
<1>10. ASSUME NEW s \in Services, RestartCron(s)
      PROVE  TickPhase'
  BY <1>10 DEF RestartCron, TypeOK, TickPhase
<1>11. CASE Crash
  BY <1>11 DEF Crash, NoRuns, TypeOK, TickPhase
<1>. QED
  BY <1>1, <1>2, <1>3, <1>4, <1>5, <1>6, <1>7, <1>8, <1>9, <1>10, <1>11, Moves DEF Start, Tick

LEMMA BootPhaseKept ==
    ASSUME TypeOK, Phases, Next
    PROVE  BootPhase'
<1>. USE DEF Phases
<1>1. ASSUME NEW s \in Services, BootLoad(s)
      PROVE  BootPhase'
  BY <1>1 DEF BootLoad, NoRuns, TypeOK, BootPhase
<1>2. ASSUME NEW s \in Services, BootPlan(s)
      PROVE  BootPhase'
  <2>1. PICK missed \in SUBSET Jobs : \E now \in SUBSET missed : Planned(s, missed, now)
    BY <1>2, BootPlanned
  <2>2. PICK now \in SUBSET missed : Planned(s, missed, now)
    BY <2>1
  <2>3. boot[s] = "plan" /\ UNCHANGED <<timer, tick, cur>>
    BY <1>2 DEF BootPlan
  <2>. QED
    BY <2>2, <2>3 DEF Planned, TypeOK, NoRuns, BootPhase
<1>3. ASSUME NEW s \in Services, BootApply(s)
      PROVE  BootPhase'
  BY <1>3 DEF BootApply, NoRuns, TypeOK, BootPhase
<1>4. ASSUME NEW s \in Services, BootArm(s)
      PROVE  BootPhase'
  BY <1>4 DEF BootArm, TypeOK, BootPhase
<1>5. ASSUME NEW s \in Services, CollectRunnableJobs(s)
      PROVE  BootPhase'
  BY <1>5 DEF CollectRunnableJobs, NoRuns, TypeOK, BootPhase
<1>6. ASSUME NEW s \in Services, ApplyOutcomes(s)
      PROVE  BootPhase'
  BY <1>6 DEF ApplyOutcomes, NoRuns, TypeOK, BootPhase
<1>7. ASSUME NEW s \in Services, TickEnds(s) \/ TimerFires(s)
      PROVE  BootPhase'
  BY <1>7 DEF TickEnds, TimerFires, TypeOK, BootPhase
<1>8. ASSUME NEW s \in Services, NEW a \in Actors, NEW j \in Jobs, NEW v, Handed(s, a, j, v)
      PROVE  BootPhase'
  <2>1. /\ run'[s, a][j] = v
        /\ \A t \in Services, b \in Actors : (t # s \/ b # a) => run'[t, b] = run[t, b]
        /\ \A k \in Jobs : k # j => run'[s, a][k] = run[s, a][k]
    BY <1>8, HandedFacts
  <2>2. /\ v \in {"no"} \cup InHand /\ UNCHANGED <<boot, tick, cur>>
        /\ run[s, a][j] \in InHand \/ (a \in Callers /\ boot[s] \notin {"off", "load"})
        /\ \A t \in Services \ {s} : timer'[t] = timer[t]
    BY <1>8 DEF Handed
  <2>3. "tick" \notin Callers /\ "boot" \notin Callers
    BY CronAssumption
  <2>4. \A t \in Services : boot[t] \notin {"plan", "run"} => t # s \/ a # "boot"
    BY <2>2, <2>3 DEF NoRuns, BootPhase
  <2>. SUFFICES ASSUME NEW t \in Services, boot'[t] \notin {"plan", "run"}
                PROVE  run'[t, "boot"] = NoRuns
    BY DEF BootPhase
  <2>5. boot[t] \notin {"plan", "run"} /\ (t # s \/ a # "boot")
    BY <2>2, <2>4
  <2>6. run'[t, "boot"] = run[t, "boot"]
    BY <2>1, <2>5 DEF Actors
  <2>. QED
    BY <2>5, <2>6 DEF BootPhase
<1>9. ASSUME NEW s \in Services, Quiet(s)
      PROVE  BootPhase'
  BY <1>9 DEF Quiet, TypeOK, BootPhase
<1>10. ASSUME NEW s \in Services, RestartCron(s)
      PROVE  BootPhase'
  BY <1>10 DEF RestartCron, TypeOK, BootPhase
<1>11. CASE Crash
  BY <1>11 DEF Crash, NoRuns, TypeOK, BootPhase
<1>. QED
  BY <1>1, <1>2, <1>3, <1>4, <1>5, <1>6, <1>7, <1>8, <1>9, <1>10, <1>11, Moves DEF Start, Tick

LEMMA SkipPhaseKept ==
    ASSUME TypeOK, Phases, Next
    PROVE  SkipPhase'
<1>. USE DEF Phases
<1>1. ASSUME NEW s \in Services, BootLoad(s)
      PROVE  SkipPhase'
  BY <1>1 DEF BootLoad, NoRuns, TypeOK, SkipPhase
<1>2. ASSUME NEW s \in Services, BootPlan(s)
      PROVE  SkipPhase'
  <2>1. PICK missed \in SUBSET Jobs : \E now \in SUBSET missed : Planned(s, missed, now)
    BY <1>2, BootPlanned
  <2>2. PICK now \in SUBSET missed : Planned(s, missed, now)
    BY <2>1
  <2>3. boot[s] = "plan" /\ UNCHANGED <<timer, tick, cur>>
    BY <1>2 DEF BootPlan
  <2>. QED
    BY <2>2, <2>3 DEF Planned, TypeOK, NoRuns, SkipPhase
<1>3. ASSUME NEW s \in Services, BootApply(s)
      PROVE  SkipPhase'
  BY <1>3 DEF BootApply, NoRuns, TypeOK, SkipPhase
<1>4. ASSUME NEW s \in Services, BootArm(s)
      PROVE  SkipPhase'
  BY <1>4 DEF BootArm, TypeOK, SkipPhase
<1>5. ASSUME NEW s \in Services, CollectRunnableJobs(s)
      PROVE  SkipPhase'
  BY <1>5 DEF CollectRunnableJobs, NoRuns, TypeOK, SkipPhase
<1>6. ASSUME NEW s \in Services, ApplyOutcomes(s)
      PROVE  SkipPhase'
  BY <1>6 DEF ApplyOutcomes, NoRuns, TypeOK, SkipPhase
<1>7. ASSUME NEW s \in Services, TickEnds(s) \/ TimerFires(s)
      PROVE  SkipPhase'
  BY <1>7 DEF TickEnds, TimerFires, TypeOK, SkipPhase
<1>8. ASSUME NEW s \in Services, NEW a \in Actors, NEW j \in Jobs, NEW v, Handed(s, a, j, v)
      PROVE  SkipPhase'
  <2>1. /\ run'[s, a][j] = v
        /\ \A t \in Services, b \in Actors : (t # s \/ b # a) => run'[t, b] = run[t, b]
        /\ \A k \in Jobs : k # j => run'[s, a][k] = run[s, a][k]
    BY <1>8, HandedFacts
  <2>2. /\ v \in {"no"} \cup InHand /\ UNCHANGED <<boot, tick, cur>>
        /\ run[s, a][j] \in InHand \/ (a \in Callers /\ boot[s] \notin {"off", "load"})
        /\ \A t \in Services \ {s} : timer'[t] = timer[t]
    BY <1>8 DEF Handed
  <2>3. "tick" \notin Callers /\ "boot" \notin Callers
    BY CronAssumption
  <2>4. a = "boot" => boot[s] # "plan"
    BY <2>2, <2>3 DEF NoRuns, SkipPhase
  <2>. SUFFICES ASSUME NEW t \in Services, boot'[t] = "plan", NEW k \in Jobs
                PROVE  run'[t, "boot"][k] \in {"no", "skip"}
    BY DEF SkipPhase
  <2>5. boot[t] = "plan" /\ (t # s \/ a # "boot")
    BY <2>2, <2>4
  <2>6. run'[t, "boot"] = run[t, "boot"]
    BY <2>1, <2>5 DEF Actors
  <2>. QED
    BY <2>5, <2>6 DEF SkipPhase
<1>9. ASSUME NEW s \in Services, Quiet(s)
      PROVE  SkipPhase'
  BY <1>9 DEF Quiet, TypeOK, SkipPhase
<1>10. ASSUME NEW s \in Services, RestartCron(s)
      PROVE  SkipPhase'
  BY <1>10 DEF RestartCron, TypeOK, SkipPhase
<1>11. CASE Crash
  BY <1>11 DEF Crash, NoRuns, TypeOK, SkipPhase
<1>. QED
  BY <1>1, <1>2, <1>3, <1>4, <1>5, <1>6, <1>7, <1>8, <1>9, <1>10, <1>11, Moves DEF Start, Tick

LEMMA HandPhaseKept ==
    ASSUME TypeOK, Phases, Next
    PROVE  HandPhase'
<1>. USE DEF Phases
<1>1. ASSUME NEW s \in Services, BootLoad(s)
      PROVE  HandPhase'
  BY <1>1 DEF BootLoad, NoRuns, TypeOK, HandPhase
<1>2. ASSUME NEW s \in Services, BootPlan(s)
      PROVE  HandPhase'
  <2>1. PICK missed \in SUBSET Jobs : \E now \in SUBSET missed : Planned(s, missed, now)
    BY <1>2, BootPlanned
  <2>2. PICK now \in SUBSET missed : Planned(s, missed, now)
    BY <2>1
  <2>3. boot[s] = "plan" /\ UNCHANGED <<timer, tick, cur>>
    BY <1>2 DEF BootPlan
  <2>. QED
    BY <2>2, <2>3 DEF Planned, TypeOK, NoRuns, HandPhase
<1>3. ASSUME NEW s \in Services, BootApply(s)
      PROVE  HandPhase'
  BY <1>3 DEF BootApply, NoRuns, TypeOK, HandPhase
<1>4. ASSUME NEW s \in Services, BootArm(s)
      PROVE  HandPhase'
  BY <1>4 DEF BootArm, TypeOK, HandPhase
<1>5. ASSUME NEW s \in Services, CollectRunnableJobs(s)
      PROVE  HandPhase'
  BY <1>5 DEF CollectRunnableJobs, NoRuns, TypeOK, HandPhase
<1>6. ASSUME NEW s \in Services, ApplyOutcomes(s)
      PROVE  HandPhase'
  BY <1>6 DEF ApplyOutcomes, NoRuns, TypeOK, HandPhase
<1>7. ASSUME NEW s \in Services, TickEnds(s) \/ TimerFires(s)
      PROVE  HandPhase'
  BY <1>7 DEF TickEnds, TimerFires, TypeOK, HandPhase
<1>8. ASSUME NEW s \in Services, NEW a \in Actors, NEW j \in Jobs, NEW v, Handed(s, a, j, v)
      PROVE  HandPhase'
  <2>1. /\ run'[s, a][j] = v
        /\ \A t \in Services, b \in Actors : (t # s \/ b # a) => run'[t, b] = run[t, b]
        /\ \A k \in Jobs : k # j => run'[s, a][k] = run[s, a][k]
    BY <1>8, HandedFacts
  <2>2. /\ v \in {"no"} \cup InHand /\ UNCHANGED <<boot, tick, cur>>
        /\ run[s, a][j] \in InHand \/ (a \in Callers /\ boot[s] \notin {"off", "load"})
        /\ \A t \in Services \ {s} : timer'[t] = timer[t]
    BY <1>8 DEF Handed
  <2>3. "tick" \notin Callers /\ "boot" \notin Callers
    BY CronAssumption
  <2>. SUFFICES ASSUME NEW t \in Services, NEW b \in Actors \ {"boot"}, NEW k \in Jobs
                PROVE  run'[t, b][k] \in {"no"} \cup InHand
    BY DEF HandPhase
  <2>4. run[t, b][k] \in {"no"} \cup InHand
    BY DEF HandPhase
  <2>5. CASE t = s /\ b = a /\ k = j
    BY <2>1, <2>2, <2>5
  <2>6. CASE t = s /\ b = a /\ k # j
    BY <2>1, <2>4, <2>6
  <2>7. CASE t # s \/ b # a
    BY <2>1, <2>4, <2>7
  <2>. QED
    BY <2>5, <2>6, <2>7
<1>9. ASSUME NEW s \in Services, Quiet(s)
      PROVE  HandPhase'
  BY <1>9 DEF Quiet, TypeOK, HandPhase
<1>10. ASSUME NEW s \in Services, RestartCron(s)
      PROVE  HandPhase'
  BY <1>10 DEF RestartCron, TypeOK, HandPhase
<1>11. CASE Crash
  BY <1>11 DEF Crash, NoRuns, TypeOK, HandPhase
<1>. QED
  BY <1>1, <1>2, <1>3, <1>4, <1>5, <1>6, <1>7, <1>8, <1>9, <1>10, <1>11, Moves DEF Start, Tick


LEMMA PhasesKept ==
    ASSUME TypeOK, Phases, boot[cur] # "off", [Next]_vars
    PROVE  Phases' /\ boot'[cur'] # "off"
<1>1. CASE Next
  <2>1. Phases'
    BY <1>1, UnstartedKept, TickPhaseKept, BootPhaseKept, SkipPhaseKept, HandPhaseKept DEF Phases
  <2>2. boot'[cur'] # "off"
    <3>1. ASSUME NEW s \in Services, Start(s) PROVE boot'[cur'] # "off"
      <4>1. ASSUME BootPlan(s) PROVE boot'[cur'] # "off"
        <5>1. PICK missed \in SUBSET Jobs : \E now \in SUBSET missed : Planned(s, missed, now)
          BY <4>1, BootPlanned
        <5>2. boot' = [boot EXCEPT ![s] = IF missed = {} THEN "arm" ELSE "run"] /\ cur' = cur
          BY <4>1, <5>1 DEF Planned, BootPlan
        <5>. QED
          BY <5>2 DEF TypeOK
      <4>2. ASSUME NEW phase \in {"plan", "arm", "done"}, boot' = [boot EXCEPT ![s] = phase], cur' = cur
            PROVE  boot'[cur'] # "off"
        BY <4>2 DEF TypeOK
      <4>. QED
        BY <3>1, <4>1, <4>2 DEF Start, BootLoad, BootApply, BootArm
    <3>2. ASSUME NEW s \in Services, Tick(s) \/ TimerFires(s) \/ RestartCron(s) PROVE boot'[cur'] # "off"
      BY <3>2 DEF Tick, CollectRunnableJobs, ApplyOutcomes, TickEnds, TimerFires, RestartCron, TypeOK
    <3>3. CASE Crash
      BY <3>3 DEF Crash, TypeOK
    <3>4. ASSUME NEW s \in Services, Quiet(s) \/ \E a \in Actors, j \in Jobs, v \in {"no"} \cup InHand : Handed(s, a, j, v)
          PROVE  boot'[cur'] # "off"
      BY <3>4 DEF Quiet, Handed
    <3>. QED
      BY <1>1, <3>1, <3>2, <3>3, <3>4, Moves
  <2>. QED
    BY <2>1, <2>2
<1>2. CASE UNCHANGED vars
  <2>1. UNCHANGED <<boot, tick, timer, run, cur>>
    BY <1>2 DEF vars
  <2>2. Unstarted' /\ TickPhase'
    BY <2>1 DEF Phases, Unstarted, TickPhase
  <2>3. BootPhase' /\ SkipPhase'
    BY <2>1 DEF Phases, BootPhase, SkipPhase
  <2>4. HandPhase'
    BY <2>1 DEF Phases, HandPhase
  <2>. QED
    BY <2>1, <2>2, <2>3, <2>4 DEF Phases
<1>. QED
  BY <1>1, <1>2

-----------------------------------------------------------------------------
(* Every copy of every job is settled after every step *)

AllSettled(f, M) == Settled(f) /\ \A s \in Services : Settled(M[s])

LEMMA MarkerSettles ==
    ASSUME NEW j \in Jobs, NEW r \in Job, SettledJob(j, r),
           NEW k \in {"none", "on", "stuck"}, Exists(r) \/ k = "none"
    PROVE  SettledJob(j, [r EXCEPT !.marker = k])
BY DEF SettledJob, Job, Exists

LEMMA PatchedSettles ==
    ASSUME NEW j \in Jobs, NEW r \in Job, Exists(r), SettledJob(j, r),
           NEW patch \in {"enable", "disable", "reschedule", "other"}
    PROVE  SettledJob(j, Patched(j, r, patch))
<1>. DEFINE p == CASE patch = "enable"     -> [r EXCEPT !.enabled = TRUE]
                   [] patch = "disable"    -> [r EXCEPT !.enabled = FALSE]
                   [] patch = "reschedule" -> [r EXCEPT !.slot = "ahead"]
                   [] OTHER                -> r
<1>1. p \in Job /\ Exists(p) /\ (patch = "other" => p = r)
  BY DEF Job, Exists
<1>2. Patched(j, r, patch) =
        IF ~p.enabled /\ patch # "other" THEN [p EXCEPT !.next = "none", !.marker = "none"]
        ELSE IF p.enabled /\ (patch # "other" \/ p.next = "none") THEN [p EXCEPT !.next = ComputeNext(j, p)]
        ELSE p
  BY DEF Patched
<1>. HIDE DEF p
<1>3. p.enabled /\ ComputeNext(j, p) = "none" => Kind[j] = "at" /\ p.slot = "served" /\ p.last = "ok"
  BY <1>1, ComputeNextFacts
<1>4. CASE ~p.enabled /\ patch # "other"
  BY <1>1, <1>2, <1>4 DEF SettledJob, Job, Exists
<1>5. CASE p.enabled /\ (patch # "other" \/ p.next = "none")
  BY <1>1, <1>2, <1>3, <1>5 DEF SettledJob, Job, Exists
<1>6. CASE p = r /\ ~(~p.enabled /\ patch # "other") /\ ~(p.enabled /\ (patch # "other" \/ p.next = "none"))
  BY <1>2, <1>6
<1>. QED
  BY <1>1, <1>4, <1>5, <1>6

(* Results are applied to jobs that are there. *)
LEMMA AppliedShaped ==
    ASSUME NEW j \in Jobs, NEW r \in Job, Shaped(r), NEW result \in Results
    PROVE  Shaped(ApplyJobResult(j, r, result))
BY ApplyJobResultFacts DEF Shaped

LEMMA StoredSettled ==
    ASSUME TypeOK, AllSettled(file, mem), NEW s \in Services, NEW m, Settled(m),
           mem' = mem \/ mem' = [mem EXCEPT ![s] = m], file' = file \/ file' = m
    PROVE  AllSettled(file', mem')
BY DEF AllSettled, TypeOK

LEMMA InitSettled == Init => AllSettled(file, mem)
<1>. SUFFICES ASSUME Init PROVE AllSettled(file, mem)
  OBVIOUS
<1>1. \A j \in Jobs : SettledJob(j, file[j])
  <2>. TAKE j \in Jobs
  <2>1. file[j] = NoJob("new") \/ file[j] = [NoJob("ahead") EXCEPT !.enabled = TRUE, !.next = "future"]
    BY DEF Init
  <2>2. \/ (~file[j].enabled /\ file[j].next = "none" /\ file[j].marker = "none")
        \/ (file[j].enabled /\ file[j].next = "future" /\ file[j].slot = "ahead")
    <3>1. ~NoJob("new").enabled /\ NoJob("new").next = "none" /\ NoJob("new").marker = "none"
      BY DEF NoJob
    <3>2. LET r == [NoJob("ahead") EXCEPT !.enabled = TRUE, !.next = "future"]
          IN  r.enabled /\ r.next = "future" /\ r.slot = "ahead"
      BY DEF NoJob
    <3>. QED
      BY <2>1, <3>1, <3>2
  <2>. QED
    BY <2>2 DEF SettledJob, Exists
<1>2. \A j \in Jobs : SettledJob(j, NoStore[j])
  BY DEF SettledJob, NoStore, NoJob, Exists
<1>3. Settled(file) /\ Settled(NoStore)
  BY <1>1, <1>2, SettledIs
<1>. QED
  BY <1>3 DEF Init, AllSettled

LEMMA StartSettled ==
    ASSUME TypeOK, AllSettled(file, mem), NEW s \in Services, Start(s)
    PROVE  AllSettled(file', mem')
<1>0. /\ file \in [Jobs -> Job] /\ mem[s] \in [Jobs -> Job]
      /\ \A j \in Jobs : SettledJob(j, file[j]) /\ SettledJob(j, mem[s][j])
  BY SettledIs DEF AllSettled, TypeOK
<1>1. CASE BootLoad(s)
  <2>. DEFINE m == [j \in Jobs |-> [file[j] EXCEPT !.marker = "none"]]
  <2>1. \A j \in Jobs : SettledJob(j, m[j])
    BY <1>0, MarkerSettles
  <2>2. mem' = [mem EXCEPT ![s] = m] /\ file' = m
    BY <1>1 DEF BootLoad, Persist, Store
  <2>. QED
    BY <2>1, <2>2, SettledIs, StoredSettled
<1>2. CASE BootPlan(s)
  <2>1. PICK missed \in SUBSET Jobs : \E now \in SUBSET missed :
          /\ \A j \in missed : MayCatchUp(j, mem[s][j])
          /\ Planned(s, missed, now)
    BY <1>2, BootPlanned
  <2>2. PICK now \in SUBSET missed : Planned(s, missed, now)
    BY <2>1
  <2>. DEFINE m == [j \in Jobs |-> IF j \in now THEN [mem[s][j] EXCEPT !.marker = "on"] ELSE mem[s][j]]
  <2>3. \A j \in now : Exists(mem[s][j])
    BY <1>0, <2>1 DEF MayCatchUp, MustCatchUp, SettledJob
  <2>4. \A j \in Jobs : SettledJob(j, m[j])
    BY <1>0, <2>3, MarkerSettles
  <2>5. UNCHANGED <<mem, file>> \/ (mem' = [mem EXCEPT ![s] = m] /\ file' = m)
    BY <2>2 DEF Planned, Persist, Store
  <2>6. Settled(m)
    BY <2>4, SettledIs
  <2>. HIDE DEF m
  <2>. QED
    BY <2>5, <2>6, StoredSettled
<1>3. CASE BootApply(s)
  <2>. DEFINE outcomes == run[s, "boot"]
              applied  == ApplyAll(mem[s], outcomes)
              Late(j)  == IF outcomes[j] = "deferred" /\ applied[j].enabled
                          THEN [applied[j] EXCEPT !.next = "future"] ELSE applied[j]
              staggered == [j \in Jobs |-> Late(j)]
              kept     == Recompute(staggered, {"none"})
  <2>1. applied \in [Jobs -> Job]
    BY ApplyAllFacts DEF TypeOK
  <2>2. \A j \in Jobs : Shaped(applied[j])
    <3>1. \A j \in Jobs : Shaped(mem[s][j])
      BY <1>0 DEF SettledJob, Shaped
    <3>2. \A j \in Jobs : applied[j] = IF outcomes[j] \in Results
                                       THEN ApplyJobResult(j, mem[s][j], outcomes[j]) ELSE mem[s][j]
      BY <1>0, ApplyAllFacts
    <3>. HIDE DEF applied, outcomes
    <3>. QED
      BY <1>0, <3>1, <3>2, AppliedShaped
  <2>3. mem' = [mem EXCEPT ![s] = kept] /\ file' = kept
    BY <1>3 DEF BootApply, RecomputeNextRunsForMaintenance, Persist, Store
  <2>4. staggered \in [Jobs -> Job] /\ \A j \in Jobs : Shaped(staggered[j])
    <3>. HIDE DEF applied, outcomes
    <3>1. \A j \in Jobs : Late(j) \in Job /\ Shaped(Late(j))
      BY <2>1, <2>2 DEF Job, Shaped, Exists
    <3>. QED
      BY <3>1
  <2>. HIDE DEF staggered
  <2>5. Settled(kept)
    BY <2>4, RecomputeSettles
  <2>. HIDE DEF kept
  <2>. QED
    BY <2>3, <2>5, StoredSettled
<1>4. CASE BootArm(s)
  <2>. DEFINE m == Recompute(mem[s], {"none", "due"})
  <2>1. \A j \in Jobs : Shaped(mem[s][j])
    BY <1>0 DEF SettledJob, Shaped
  <2>2. Settled(m)
    BY <1>0, <2>1, RecomputeSettles
  <2>3. mem' = [mem EXCEPT ![s] = m] /\ (file' = file \/ file' = m)
    BY <1>4 DEF BootArm, RecomputeNextRuns, Store
  <2>. HIDE DEF m
  <2>. QED
    BY <2>2, <2>3, StoredSettled
<1>. QED
  BY <1>1, <1>2, <1>3, <1>4 DEF Start

LEMMA TickSettled ==
    ASSUME TypeOK, AllSettled(file, mem), NEW s \in Services, Tick(s)
    PROVE  AllSettled(file', mem')
<1>0. /\ file \in [Jobs -> Job]
      /\ \A j \in Jobs : SettledJob(j, file[j]) /\ Shaped(file[j])
  BY SettledIs DEF AllSettled, TypeOK, SettledJob, Shaped
<1>1. CASE CollectRunnableJobs(s)
  <2>. DEFINE due == {j \in Jobs : IsRunnable(file[j])}
              marked == [j \in Jobs |-> IF j \in due THEN [file[j] EXCEPT !.marker = "on"] ELSE file[j]]
              kept == Recompute(file, {"none"})
              m == IF due = {} THEN kept ELSE marked
  <2>1. Settled(kept)
    BY <1>0, RecomputeSettles
  <2>2. \A j \in due : Exists(file[j])
    BY <1>0 DEF IsRunnable, SettledJob
  <2>3. \A j \in Jobs : SettledJob(j, marked[j])
    BY <1>0, <2>2, MarkerSettles
  <2>4. Settled(marked)
    BY <2>3, SettledIs
  <2>5. mem' = [mem EXCEPT ![s] = m] /\ file' = m
    BY <1>1 DEF CollectRunnableJobs, RecomputeNextRunsForMaintenance, Persist, Store
  <2>. HIDE DEF kept, marked, due
  <2>. QED
    BY <2>1, <2>4, <2>5, StoredSettled
<1>2. CASE ApplyOutcomes(s)
  <2>. DEFINE applied == ApplyAll(file, run[s, "tick"])
              m == Recompute(applied, {"none"})
  <2>1. applied \in [Jobs -> Job] /\ \A j \in Jobs : Shaped(applied[j])
    <3>1. \A j \in Jobs : applied[j] = IF run[s, "tick"][j] \in Results
                                       THEN ApplyJobResult(j, file[j], run[s, "tick"][j]) ELSE file[j]
      BY <1>0, ApplyAllFacts
    <3>2. applied \in [Jobs -> Job]
      BY <1>0, ApplyAllFacts
    <3>. HIDE DEF applied
    <3>. QED
      BY <1>0, <3>1, <3>2, AppliedShaped
  <2>2. mem' = [mem EXCEPT ![s] = m] /\ file' = m
    BY <1>2 DEF ApplyOutcomes, RecomputeNextRunsForMaintenance, Persist, Store
  <2>. HIDE DEF applied
  <2>3. Settled(m)
    BY <2>1, RecomputeSettles
  <2>. HIDE DEF m
  <2>. QED
    BY <2>2, <2>3, StoredSettled
<1>3. CASE TickEnds(s)
  BY <1>3 DEF TickEnds, AllSettled
<1>. QED
  BY <1>1, <1>2, <1>3 DEF Tick

LEMMA EditSettled ==
    ASSUME TypeOK, AllSettled(file, mem), NEW s \in Services, NEW j \in Jobs,
           \/ Add(s, j) \/ Remove(s, j)
           \/ \E patch \in {"enable", "disable", "reschedule", "other"} : Update(s, j, patch)
    PROVE  AllSettled(file', mem')
<1>0. /\ mem[s] \in [Jobs -> Job]
      /\ \A k \in Jobs : SettledJob(k, mem[s][k]) /\ Shaped(mem[s][k])
  BY SettledIs DEF AllSettled, TypeOK, SettledJob, Shaped
<1>1. ASSUME NEW m, Settled(m), Edited(s, m) PROVE AllSettled(file', mem')
  BY <1>1, StoredSettled DEF Edited, Persist, Store
<1>2. CASE Add(s, j)
  <2>1. PICK enabled \in BOOLEAN :
          LET r == [NoJob("ahead") EXCEPT !.enabled = enabled]
          IN  Edited(s, RecomputeNextRuns([mem[s] EXCEPT ![j] = [r EXCEPT !.next = ComputeNext(j, r)]]))
    BY <1>2 DEF Add
  <2>. DEFINE r == [NoJob("ahead") EXCEPT !.enabled = enabled]
              q == [r EXCEPT !.next = ComputeNext(j, r)]
              m == [mem[s] EXCEPT ![j] = q]
  <2>2. m \in [Jobs -> Job]
    BY <1>0, AddedTyped
  <2>3. Shaped(q)
    BY DEF NoJob, Shaped, Exists
  <2>. HIDE DEF q
  <2>4. \A k \in Jobs : Shaped(m[k])
    BY <1>0, <2>3
  <2>. HIDE DEF m
  <2>5. Settled(RecomputeNextRuns(m))
    BY <2>2, <2>4, RecomputeSettles DEF RecomputeNextRuns
  <2>. QED
    BY <1>1, <2>1, <2>5 DEF m, q
<1>3. CASE Remove(s, j)
  <2>1. SettledJob(j, NoJob("gone"))
    BY DEF SettledJob, NoJob, Exists
  <2>2. \A k \in Jobs : SettledJob(k, [mem[s] EXCEPT ![j] = NoJob("gone")][k])
    BY <1>0, <2>1
  <2>. QED
    BY <1>1, <1>3, <2>2, SettledIs DEF Remove
<1>4. ASSUME NEW patch \in {"enable", "disable", "reschedule", "other"}, Update(s, j, patch)
      PROVE  AllSettled(file', mem')
  <2>. DEFINE q == Patched(j, mem[s][j], patch)
  <2>1. SettledJob(j, q)
    BY <1>0, <1>4, PatchedSettles DEF Update
  <2>2. Edited(s, [mem[s] EXCEPT ![j] = q])
    BY <1>0, <1>4 DEF Update
  <2>. HIDE DEF q
  <2>3. \A k \in Jobs : SettledJob(k, [mem[s] EXCEPT ![j] = q][k])
    BY <1>0, <2>1
  <2>. QED
    BY <1>1, <2>2, <2>3, SettledIs
<1>. QED
  BY <1>2, <1>3, <1>4

LEMMA ReadSettled ==
    ASSUME TypeOK, AllSettled(file, mem), NEW s \in Services,
           Read(s) \/ \E c \in Callers, j \in Jobs : InspectManualRun(s, c, j)
    PROVE  AllSettled(file', mem')
<1>1. mem[s] \in [Jobs -> Job] /\ \A k \in Jobs : Shaped(mem[s][k])
  BY SettledIs DEF AllSettled, TypeOK, SettledJob, Shaped
<1>2. Settled(Recompute(mem[s], {"none"}))
  BY <1>1, RecomputeSettles
<1>. QED
  BY <1>2, StoredSettled DEF InspectManualRun, Read, RecomputeNextRunsForMaintenance, Store

(* c is a caller, or the tick or start() that begins a run *)
LEMMA ManualSettled ==
    ASSUME TypeOK, AllSettled(file, mem), NEW s \in Services, NEW c, NEW j \in Jobs,
           Manual(s, c, j) \/ Begin(s, c, j)
    PROVE  AllSettled(file', mem')
<1>0. /\ file \in [Jobs -> Job] /\ mem[s] \in [Jobs -> Job]
      /\ \A k \in Jobs : SettledJob(k, mem[s][k]) /\ Shaped(mem[s][k]) /\ Shaped(file[k])
  BY SettledIs DEF AllSettled, TypeOK, SettledJob, Shaped
<1>2. CASE ReserveManualRun(s, c, j) \/ Begin(s, c, j)
  <2>. DEFINE q == [mem[s][j] EXCEPT !.marker = "on"]
              m == [mem[s] EXCEPT ![j] = q]
  <2>1. \/ UNCHANGED <<mem, file>>
        \/ Exists(mem[s][j]) /\ mem' = [mem EXCEPT ![s] = m] /\ (file' = file \/ file' = m)
    BY <1>2 DEF ReserveManualRun, Begin, Persist, Store, TypeOK
  <2>2. ASSUME Exists(mem[s][j]) PROVE Settled(m)
    <3>1. SettledJob(j, q)
      BY <1>0, <2>2, MarkerSettles
    <3>2. \A k \in Jobs : SettledJob(k, m[k])
      BY <1>0, <3>1
    <3>. QED
      BY <3>2, SettledIs
  <2>. HIDE DEF m
  <2>. QED
    BY <2>1, <2>2, StoredSettled
<1>3. CASE FinishManualRun(s, c, j)
  <2>. DEFINE merged == IF Exists(file[j])
                        THEN [file EXCEPT ![j] = ApplyJobResult(j, mem[s][j], run[s, c][j])] ELSE file
              m == Recompute(merged, {"none"})
  <2>1. run[s, c][j] \in Results
    BY <1>3 DEF FinishManualRun
  <2>2. merged \in [Jobs -> Job]
    BY <1>0, <2>1, ApplyJobResultFacts
  <2>3. \A k \in Jobs : Shaped(merged[k])
    BY <1>0, <2>1, AppliedShaped
  <2>4. UNCHANGED <<mem, file>> \/ (mem' = [mem EXCEPT ![s] = m] /\ file' = m)
    BY <1>3 DEF FinishManualRun, RecomputeNextRunsForMaintenance, Persist, Store
  <2>. HIDE DEF merged
  <2>5. Settled(m)
    BY <2>2, <2>3, RecomputeSettles
  <2>. HIDE DEF m
  <2>. QED
    BY <2>4, <2>5, StoredSettled
<1>. QED
  BY <1>2, <1>3 DEF Manual

(* Time changes a job the same way in the file and in every memory. *)
LEMMA TimeSettled ==
    ASSUME TypeOK, AllSettled(file, mem), NEW j \in Jobs, Time(j)
    PROVE  AllSettled(file', mem')
<1>. DEFINE Missed(r) == IF r.next = "future" /\ r.last # "none" /\ r.slot = "ahead"
                         THEN [r EXCEPT !.slot = "past"] ELSE r
            Aged(r) == IF r.marker = "on" THEN [r EXCEPT !.marker = "stuck"] ELSE r
<1>1. \A r \in Job : SettledJob(j, r) =>
        SettledJob(j, Later(j, r)) /\ SettledJob(j, Missed(r)) /\ SettledJob(j, Aged(r))
  <2>. TAKE r \in Job
  <2>. HAVE SettledJob(j, r)
  <2>1. SettledJob(j, Later(j, r))
    BY DEF SettledJob, Job, Exists, Later
  <2>2. SettledJob(j, Missed(r))
    BY DEF SettledJob, Job, Exists
  <2>3. SettledJob(j, Aged(r))
    BY DEF SettledJob, Job, Exists
  <2>. QED
    BY <2>1, <2>2, <2>3
<1>2. \A k \in Jobs : SettledJob(k, file[k]) /\ \A s \in Services : SettledJob(k, mem[s][k])
  BY SettledIs DEF AllSettled
<1>3. ASSUME \A k \in Jobs : SettledJob(k, file'[k]) /\ \A s \in Services : SettledJob(k, mem'[s][k])
      PROVE  AllSettled(file', mem')
  BY <1>3, SettledIs DEF AllSettled
<1>. HIDE DEF Missed, Aged
<1>4. CASE Elapse(j)
  <2>1. /\ file' = [file EXCEPT ![j] = Later(j, @)]
        /\ mem' = [s \in Services |-> [mem[s] EXCEPT ![j] = Later(j, @)]]
    BY <1>4 DEF Elapse
  <2>. QED
    BY <1>1, <1>2, <1>3, <2>1 DEF TypeOK
<1>5. CASE SlotPasses(j)
  <2>1. /\ file' = [file EXCEPT ![j] = Missed(@)]
        /\ mem' = [s \in Services |-> [mem[s] EXCEPT ![j] = Missed(@)]]
    BY <1>5 DEF SlotPasses, Missed
  <2>. QED
    BY <1>1, <1>2, <1>3, <2>1 DEF TypeOK
<1>6. CASE MarkerAges(j)
  <2>1. /\ file' = [file EXCEPT ![j] = Aged(@)]
        /\ mem' = [s \in Services |-> [mem[s] EXCEPT ![j] = Aged(@)]]
    BY <1>6 DEF MarkerAges, Aged
  <2>. QED
    BY <1>1, <1>2, <1>3, <2>1 DEF TypeOK
<1>. QED
  BY <1>4, <1>5, <1>6 DEF Time

LEMMA SettledKept ==
    ASSUME TypeOK, AllSettled(file, mem), [Next]_vars
    PROVE  AllSettled(file', mem')
<1>1. ASSUME UNCHANGED <<file, mem>> PROVE AllSettled(file', mem')
  BY <1>1
<1>2. ASSUME NEW s \in Services, TimerFires(s) \/ RestartCron(s) PROVE UNCHANGED <<file, mem>>
  BY <1>2 DEF TimerFires, RestartCron
<1>3. ASSUME NEW s \in Services, NEW a \in Actors, NEW j \in Jobs, End(s, a, j) PROVE UNCHANGED <<file, mem>>
  BY <1>3 DEF End
<1>4. ASSUME NEW s \in Services, NEW j \in Jobs, NEW c, Manual(s, c, j) \/ Begin(s, c, j)
      PROVE  AllSettled(file', mem')
  BY <1>4, ManualSettled
<1>5. CASE Crash
  <2>1. \A j \in Jobs : SettledJob(j, NoStore[j])
    BY DEF SettledJob, NoStore, NoJob, Exists
  <2>. QED
    BY <1>5, <2>1, SettledIs DEF Crash, AllSettled
<1>6. CASE UNCHANGED vars
  BY <1>1, <1>6 DEF vars
<1>. QED
  BY <1>1, <1>2, <1>3, <1>4, <1>5, <1>6, StartSettled, TickSettled, EditSettled, ReadSettled, TimeSettled DEF Next

-----------------------------------------------------------------------------
(* The timer *)

LEMMA ArmedAlike ==
    ASSUME NEW m, NEW n,
           \A j \in Jobs : n[j].enabled = m[j].enabled /\ (n[j].next = "none" <=> m[j].next = "none")
    PROVE  Armed(n) <=> Armed(m)
BY DEF Armed

(* Steps of one service that set its timer by its jobs *)
LEMMA TimerSet ==
    ASSUME TypeOK, SchedulerArmed, NEW s \in Services, NEW m,
           mem' = [mem EXCEPT ![s] = m], timer' = [timer EXCEPT ![s] = Armed(m)],
           \A t \in Services \ {s} : boot'[t] = boot[t] /\ tick'[t] = tick[t], cur' = cur
    PROVE  SchedulerArmed'
<1>1. CASE s = cur
  BY <1>1 DEF SchedulerArmed, TypeOK, Armed
<1>2. CASE s # cur
  BY <1>2 DEF SchedulerArmed, TypeOK, Armed
<1>. QED
  BY <1>1, <1>2

(* Steps of one service that leave it in a phase in which nothing is promised *)
LEMMA NotAtRest ==
    ASSUME TypeOK, SchedulerArmed, NEW s \in Services,
           boot'[s] # "done" \/ tick'[s] # "idle",
           \A t \in Services \ {s} : /\ boot'[t] = boot[t] /\ tick'[t] = tick[t]
                                     /\ mem'[t] = mem[t] /\ timer'[t] = timer[t],
           cur' = cur
    PROVE  SchedulerArmed'
<1>1. CASE s = cur
  BY <1>1 DEF SchedulerArmed
<1>2. CASE s # cur
  BY <1>2 DEF SchedulerArmed, TypeOK, Armed
<1>. QED
  BY <1>1, <1>2

(* Steps after which no more jobs wait for the timer than before *)
LEMMA NoneArmed ==
    ASSUME TypeOK, SchedulerArmed, UNCHANGED <<boot, tick, cur, timer>>,
           Armed(mem'[cur]) => Armed(mem[cur])
    PROVE  SchedulerArmed'
<1>1. Armed(mem[cur])' => Armed(mem[cur])
  BY DEF Armed
<1>. QED
  BY <1>1 DEF SchedulerArmed

LEMMA SchedulerArmedKept ==
    ASSUME TypeOK, AllSettled(file, mem), SchedulerArmed, [Next]_vars
    PROVE  SchedulerArmed'
<1>0. cur \in Services /\ \A s \in Services : mem[s] \in [Jobs -> Job] /\ Settled(mem[s])
  BY DEF TypeOK, AllSettled
<1>1. ASSUME NEW s \in Services, BootLoad(s) \/ BootApply(s) PROVE SchedulerArmed'
  <2>1. /\ boot'[s] # "done"
        /\ \A t \in Services \ {s} : /\ boot'[t] = boot[t] /\ tick'[t] = tick[t]
                                     /\ mem'[t] = mem[t] /\ timer'[t] = timer[t]
        /\ cur' = cur
    BY <1>1 DEF BootLoad, BootApply, Persist, Store, TypeOK
  <2>. QED
    BY <2>1, NotAtRest
<1>2. ASSUME NEW s \in Services, BootPlan(s) PROVE SchedulerArmed'
  <2>1. PICK missed \in SUBSET Jobs : \E now \in SUBSET missed : Planned(s, missed, now)
    BY <1>2, BootPlanned
  <2>2. PICK now \in SUBSET missed : Planned(s, missed, now)
    BY <2>1
  <2>3. UNCHANGED <<timer, tick, cur>>
    BY <1>2 DEF BootPlan
  <2>4. boot' = [boot EXCEPT ![s] = IF missed = {} THEN "arm" ELSE "run"]
    BY <2>2 DEF Planned
  <2>5. \A t \in Services \ {s} : mem'[t] = mem[t]
    BY <2>2 DEF Planned, Persist, Store, TypeOK
  <2>6. boot'[s] # "done" /\ \A t \in Services \ {s} : boot'[t] = boot[t]
    BY <2>4 DEF TypeOK
  <2>. QED
    BY <2>3, <2>5, <2>6, NotAtRest
<1>3. ASSUME NEW s \in Services, BootArm(s) PROVE SchedulerArmed'
  <2>. DEFINE m == RecomputeNextRuns(mem[s])
  <2>1. /\ mem' = [mem EXCEPT ![s] = m] /\ timer' = [timer EXCEPT ![s] = Armed(m)]
        /\ \A t \in Services \ {s} : boot'[t] = boot[t] /\ tick'[t] = tick[t]
        /\ cur' = cur
    BY <1>3 DEF BootArm, Store, TypeOK
  <2>. HIDE DEF m
  <2>. QED
    BY <2>1, TimerSet
<1>4. ASSUME NEW s \in Services, CollectRunnableJobs(s) PROVE SchedulerArmed'
  <2>1. PICK m, t : /\ mem' = [mem EXCEPT ![s] = m]
                    /\ tick' = [tick EXCEPT ![s] = t] /\ t \in {"end", "run"}
    BY <1>4 DEF CollectRunnableJobs, Persist, Store
  <2>2. UNCHANGED <<boot, timer, cur>>
    BY <1>4 DEF CollectRunnableJobs
  <2>3. tick'[s] # "idle" /\ \A u \in Services \ {s} : tick'[u] = tick[u] /\ mem'[u] = mem[u]
    BY <2>1 DEF TypeOK
  <2>. QED
    BY <2>2, <2>3, NotAtRest
<1>5. ASSUME NEW s \in Services, ApplyOutcomes(s) PROVE SchedulerArmed'
  <2>1. /\ tick'[s] # "idle"
        /\ \A t \in Services \ {s} : /\ boot'[t] = boot[t] /\ tick'[t] = tick[t]
                                     /\ mem'[t] = mem[t] /\ timer'[t] = timer[t]
        /\ cur' = cur
    BY <1>5 DEF ApplyOutcomes, Persist, Store, TypeOK
  <2>. QED
    BY <2>1, NotAtRest
<1>6. ASSUME NEW s \in Services, TickEnds(s) PROVE SchedulerArmed'
  <2>1. mem' = [mem EXCEPT ![s] = mem[s]]
    BY <1>6 DEF TickEnds, TypeOK
  <2>. QED
    BY <1>6, <2>1, TimerSet DEF TickEnds, TypeOK
<1>7. ASSUME NEW s \in Services, TimerFires(s) PROVE SchedulerArmed'
  <2>1. /\ tick'[s] # "idle"
        /\ \A t \in Services \ {s} : /\ boot'[t] = boot[t] /\ tick'[t] = tick[t]
                                     /\ mem'[t] = mem[t] /\ timer'[t] = timer[t]
        /\ cur' = cur
    BY <1>7 DEF TimerFires, TypeOK
  <2>. QED
    BY <2>1, NotAtRest
<1>8. ASSUME NEW s \in Services, NEW a, NEW j \in Jobs, Begin(s, a, j) \/ ReserveManualRun(s, a, j)
      PROVE  SchedulerArmed'
  <2>. DEFINE q == [mem[s][j] EXCEPT !.marker = "on"]
              m == [mem[s] EXCEPT ![j] = q]
  <2>1. mem' = mem \/ mem' = [mem EXCEPT ![s] = m]
    BY <1>8 DEF Begin, ReserveManualRun, Persist, Store, TypeOK
  <2>2. q.enabled = mem[s][j].enabled /\ q.next = mem[s][j].next
    BY <1>0 DEF Job
  <2>3. \A k \in Jobs : m[k].enabled = mem[s][k].enabled /\ m[k].next = mem[s][k].next
    BY <1>0, <2>2
  <2>. HIDE DEF m
  <2>4. Armed(m) <=> Armed(mem[s])
    BY <2>3, ArmedAlike
  <2>5. mem'[cur] = mem[cur] \/ (s = cur /\ mem'[cur] = m)
    BY <1>0, <2>1 DEF TypeOK
  <2>. QED
    BY <1>8, <2>4, <2>5, NoneArmed DEF Begin, ReserveManualRun
<1>9. ASSUME NEW s \in Services, Read(s) \/ \E c \in Callers, j \in Jobs : InspectManualRun(s, c, j)
      PROVE  SchedulerArmed'
  <2>. DEFINE m == Recompute(mem[s], {"none"})
  <2>1. mem' = [mem EXCEPT ![s] = m] /\ UNCHANGED <<boot, tick, cur, timer>>
    BY <1>9 DEF Read, InspectManualRun, RecomputeNextRunsForMaintenance, Store
  <2>2. \A j \in Jobs : m[j].enabled = mem[s][j].enabled /\ m[j].next = mem[s][j].next
    BY <1>0, MaintenanceAgrees, AgreeIs
  <2>. HIDE DEF m
  <2>3. Armed(m) <=> Armed(mem[s])
    BY <2>2, ArmedAlike
  <2>4. mem'[cur] = mem[cur] \/ (s = cur /\ mem'[cur] = m)
    BY <1>0, <2>1 DEF TypeOK
  <2>. QED
    BY <2>1, <2>3, <2>4, NoneArmed
<1>10. ASSUME NEW s \in Services, NEW m, Edited(s, m) PROVE SchedulerArmed'
  BY <1>10, TimerSet DEF Edited, Persist, Store
<1>11. ASSUME NEW s \in Services, NEW c \in Callers, NEW j \in Jobs, FinishManualRun(s, c, j)
       PROVE  SchedulerArmed'
  <2>1. UNCHANGED <<boot, tick, cur>>
    BY <1>11 DEF FinishManualRun
  <2>2. \/ UNCHANGED <<mem, timer>>
        \/ \E m : mem' = [mem EXCEPT ![s] = m] /\ timer' = [timer EXCEPT ![s] = Armed(m)]
    BY <1>11 DEF FinishManualRun, Persist, Store
  <2>. QED
    BY <2>1, <2>2, TimerSet, NoneArmed
<1>12. ASSUME NEW j \in Jobs, Time(j) PROVE SchedulerArmed'
  <2>1. \A r \in Job : Later(j, r).enabled = r.enabled /\ (Later(j, r).next = "none" <=> r.next = "none")
    BY DEF Later, Job
  <2>2. \A k \in Jobs : /\ mem'[cur][k].enabled = mem[cur][k].enabled
                        /\ mem'[cur][k].next = "none" <=> mem[cur][k].next = "none"
    <3>1. CASE Elapse(j)
      BY <1>0, <2>1, <3>1 DEF Elapse
    <3>2. CASE SlotPasses(j)
      BY <1>0, <3>2 DEF SlotPasses, Job
    <3>3. CASE MarkerAges(j)
      BY <1>0, <3>3 DEF MarkerAges, Job
    <3>. QED
      BY <1>12, <3>1, <3>2, <3>3 DEF Time
  <2>3. Armed(mem'[cur]) <=> Armed(mem[cur])
    BY <2>2, ArmedAlike
  <2>. QED
    BY <1>12, <2>3, NoneArmed DEF Time, Elapse, SlotPasses, MarkerAges
<1>13. ASSUME NEW s \in Services, RestartCron(s) PROVE SchedulerArmed'
  BY <1>13 DEF RestartCron, TypeOK, SchedulerArmed
<1>14. CASE Crash
  BY <1>0, <1>14 DEF Crash, SchedulerArmed
<1>15. ASSUME NEW s \in Services, NEW a \in Actors, NEW j \in Jobs, End(s, a, j) PROVE SchedulerArmed'
  BY <1>15, NoneArmed DEF End
<1>16. CASE UNCHANGED vars
  BY <1>16, NoneArmed DEF vars
<1>. QED
  BY <1>1, <1>2, <1>3, <1>4, <1>5, <1>6, <1>7, <1>8, <1>9, <1>10, <1>11, <1>12, <1>13, <1>14,
     <1>15, <1>16 DEF Next, Start, Tick, Manual, Add, Remove, Update

-----------------------------------------------------------------------------
(* One step of one job: what Fits says before and after *)

Before(j) == Fits(file[j], mem[cur][j], Holders(j), j \in lost)
HoldersAfter(j) == {p \in Services \X Actors : Holds(run'[p][j], p)}
After(j) == Fits(file'[j], mem'[cur][j], HoldersAfter(j), j \in lost')

LEMMA StillLost ==
    ASSUME NEW cleared, Unprotect(cleared), NEW j \in Jobs, HoldersAfter(j) # {}
    PROVE  j \in lost \cup cleared => j \in lost'
BY Unprotected, HoldersIs DEF HoldersAfter

(* The holders stay who they are, and no marker is taken away but that of a lost
   job or of one that nobody holds. *)
LEMMA KeptJob ==
    ASSUME NEW j \in Jobs, Before(j), HoldersAfter(j) = Holders(j),
           NEW cleared, Unprotect(cleared),
           Agree(file'[j], mem'[cur][j]), Exists(file'[j]) => Exists(file[j]),
           Holders(j) = {} => file'[j].marker = "none" /\ mem'[cur][j].marker = "none",
           j \notin cleared /\ file[j].marker # "none" /\ mem[cur][j].marker # "none" /\ Exists(file'[j]) =>
             file'[j].marker # "none" /\ mem'[cur][j].marker # "none"
    PROVE  After(j)
BY StillLost DEF Before, After, Fits

(* A job whose marker was not set is taken in hand. *)
LEMMA TakenJob ==
    ASSUME NEW j \in Jobs, Before(j), NEW p, HoldersAfter(j) = Holders(j) \cup {p},
           NEW cleared, Unprotect(cleared), Exists(file[j]),
           file[j].marker = "none" \/ mem[cur][j].marker = "none",
           Agree(file'[j], mem'[cur][j]), file'[j].marker # "none", mem'[cur][j].marker # "none"
    PROVE  After(j)
BY StillLost DEF Before, After, Fits

(* A holder lets the job go, and its marker is gone. *)
LEMMA ReleasedJob ==
    ASSUME NEW j \in Jobs, Before(j), NEW p \in Holders(j), HoldersAfter(j) = Holders(j) \ {p},
           NEW cleared, Unprotect(cleared),
           Agree(file'[j], mem'[cur][j]), file'[j].marker = "none", mem'[cur][j].marker = "none"
    PROVE  After(j)
BY StillLost DEF Before, After, Fits

(* Nothing in hand changes. *)
LEMMA SameHolders ==
    ASSUME run' = run
    PROVE  \A j : HoldersAfter(j) = Holders(j)
BY HoldersIs DEF HoldersAfter

(* One actor's hand changes. *)
LEMMA HoldersFrom ==
    ASSUME TypeOK, NEW s \in Services, NEW a \in Actors, NEW R,
           run' = [run EXCEPT ![<<s, a>>] = R], NEW j \in Jobs
    PROVE  /\ Holds(R[j], <<s, a>>) => HoldersAfter(j) = Holders(j) \cup {<<s, a>>}
           /\ ~Holds(R[j], <<s, a>>) => HoldersAfter(j) = Holders(j) \ {<<s, a>>}
           /\ <<s, a>> \in Holders(j) <=> Holds(run[s, a][j], <<s, a>>)
<1>. DEFINE q == <<s, a>>
<1>1. q \in Services \X Actors
  OBVIOUS
<1>2. \A p \in Services \X Actors : run'[p] = IF p = q THEN R ELSE run[p]
  BY DEF TypeOK
<1>3. run[s, a] = run[q]
  OBVIOUS
<1>. HIDE DEF q
<1>4. q \in Holders(j) <=> Holds(run[q][j], q)
  BY <1>1, HoldersIs
<1>5. \A p \in Services \X Actors : p \in HoldersAfter(j) <=> Holds((IF p = q THEN R ELSE run[p])[j], p)
  BY <1>2 DEF HoldersAfter
<1>6. \A p \in Services \X Actors : p # q => (p \in HoldersAfter(j) <=> p \in Holders(j))
  BY <1>5, HoldersIs
<1>7. q \in HoldersAfter(j) <=> Holds(R[j], q)
  BY <1>1, <1>5
<1>8. HoldersAfter(j) \subseteq Services \X Actors /\ Holders(j) \subseteq Services \X Actors
  BY DEF HoldersAfter, Holders
<1>9. ASSUME Holds(R[j], q) PROVE HoldersAfter(j) = Holders(j) \cup {q}
  BY <1>1, <1>6, <1>7, <1>8, <1>9
<1>10. ASSUME ~Holds(R[j], q) PROVE HoldersAfter(j) = Holders(j) \ {q}
  BY <1>1, <1>6, <1>7, <1>8, <1>10
<1>. QED
  BY <1>3, <1>4, <1>9, <1>10 DEF q

LEMMA BeforeFacts ==
    ASSUME TypeOK, AllSettled(file, mem), NEW j \in Jobs, Before(j)
    PROVE  /\ cur \in Services /\ file[j] \in Job /\ mem[cur][j] \in Job
           /\ SettledJob(j, file[j]) /\ SettledJob(j, mem[cur][j])
           /\ Agree(file[j], mem[cur][j]) /\ (Exists(file[j]) <=> Exists(mem[cur][j]))
           /\ file[j].enabled = mem[cur][j].enabled
           /\ Holders(j) = {} => file[j].marker = "none" /\ mem[cur][j].marker = "none"
<1>1. cur \in Services /\ file[j] \in Job /\ mem[cur][j] \in Job
  BY DEF TypeOK
<1>2. SettledJob(j, file[j]) /\ SettledJob(j, mem[cur][j])
  BY <1>1, SettledIs DEF AllSettled
<1>3. Agree(file[j], mem[cur][j]) /\ (Holders(j) = {} => file[j].marker = "none" /\ mem[cur][j].marker = "none")
  BY DEF Before, Fits
<1>. QED
  BY <1>1, <1>2, <1>3, AgreeIs DEF Exists

LEMMA AgreeSelf == \A r : Agree(r, r)
BY DEF Agree

(* What is alike in the file and in memory and is taken from either, with its
   marker or without *)
LEMMA OneCopyKept ==
    ASSUME TypeOK, AllSettled(file, mem), NEW j \in Jobs, Before(j), HoldersAfter(j) = Holders(j),
           NEW cleared, Unprotect(cleared), NEW r, r = file[j] \/ r = mem[cur][j],
           NEW q, q.slot = r.slot \/ ~Exists(q),
           q.marker = r.marker \/ (q.marker = "none" /\ (r.marker # "none" => j \in cleared)),
           file'[j] = q, mem'[cur][j] = q
    PROVE  After(j)
<1>1. Agree(q, q)
  BY AgreeSelf
<1>2. Exists(q) => Exists(file[j])
  BY BeforeFacts DEF Exists
<1>3. Holders(j) = {} => q.marker = "none"
  BY BeforeFacts
<1>4. j \notin cleared /\ file[j].marker # "none" /\ mem[cur][j].marker # "none" => q.marker # "none"
  OBVIOUS
<1>. QED
  BY <1>1, <1>2, <1>3, <1>4, KeptJob

(* Steps that leave every job and every hand as they are *)
LEMMA NothingMoves ==
    ASSUME TypeOK, AllSettled(file, mem), NEW j \in Jobs, Before(j), HoldersAfter(j) = Holders(j),
           Unprotect({}) \/ lost' = lost, file'[j] = file[j], mem'[cur][j] = mem[cur][j]
    PROVE  After(j)
<1>1. CASE Unprotect({})
  <2>1. Agree(file'[j], mem'[cur][j])
    BY BeforeFacts
  <2>. QED
    BY <1>1, <2>1, KeptJob, BeforeFacts
<1>2. CASE lost' = lost
  BY <1>2 DEF Before, After
<1>. QED
  BY <1>1, <1>2

LEMMA BootLoadFits ==
    ASSUME TypeOK, Phases, AllSettled(file, mem), Alone, NEW s \in Services, BootLoad(s)
    PROVE  \A j \in Jobs : After(j)
<1>1. s = cur /\ boot[cur] = "load"
  BY DEF Alone, BootLoad
<1>2. SUFFICES ASSUME NEW j \in Jobs PROVE After(j)
  OBVIOUS
<1>3. \A p \in Services \X Actors : run[p] = NoRuns
  <2>1. ASSUME NEW t \in Services, NEW a \in Actors PROVE run[t, a] = NoRuns
    <3>1. boot[t] \in {"off", "load"}
      BY <1>1 DEF Alone
    <3>. QED
      BY <3>1 DEF Phases, Unstarted
  <2>2. ASSUME NEW p \in Services \X Actors PROVE run[p] = NoRuns
    <3>1. p[1] \in Services /\ p[2] \in Actors /\ p = <<p[1], p[2]>>
      OBVIOUS
    <3>2. run[p[1], p[2]] = NoRuns
      BY <2>1, <3>1
    <3>. QED
      BY <3>1, <3>2
  <2>. QED
    BY <2>2
<1>4. Holders(j) = {}
  BY <1>3 DEF Holders, NoRuns
<1>. DEFINE R == [k \in Jobs |-> IF k \in {i \in Jobs : file[i].marker # "none"} THEN "skip" ELSE "no"]
            m == [k \in Jobs |-> [file[k] EXCEPT !.marker = "none"]]
<1>5. run' = [run EXCEPT ![<<s, "boot">>] = R] /\ mem' = [mem EXCEPT ![s] = m] /\ file' = m
  BY DEF BootLoad, Persist, Store
<1>6. HoldersAfter(j) = {}
  <2>1. ~Holds(R[j], <<s, "boot">>)
    BY DEF Holds
  <2>2. HoldersAfter(j) = Holders(j) \ {<<s, "boot">>}
    <3>. HIDE DEF R
    <3>. QED
      BY <1>5, <2>1, HoldersFrom
  <2>. QED
    BY <1>4, <2>2
<1>7. m[j] \in Job /\ m[j].marker = "none"
  <2>1. file[j] \in Job
    BY DEF TypeOK
  <2>. QED
    BY <2>1 DEF Job
<1>8. file'[j] = m[j] /\ mem'[cur][j] = m[j]
  BY <1>1, <1>5 DEF TypeOK
<1>. HIDE DEF m, R
<1>. QED
  BY <1>6, <1>7, <1>8, AgreeSelf DEF After, Fits

LEMMA BootPlanFits ==
    ASSUME TypeOK, Phases, AllSettled(file, mem), Alone, NEW s \in Services, BootPlan(s),
           \A j \in Jobs : Before(j)
    PROVE  \A j \in Jobs : After(j)
<1>1. s = cur /\ boot[s] = "plan" /\ Unprotect({})
  BY DEF Alone, BootPlan
<1>2. SUFFICES ASSUME NEW j \in Jobs PROVE After(j)
  OBVIOUS
<1>3. PICK missed \in SUBSET Jobs : \E now \in SUBSET missed :
        /\ \A k \in missed : MayCatchUp(k, mem[s][k])
        /\ Planned(s, missed, now)
  BY BootPlanned
<1>4. PICK now \in SUBSET missed : Planned(s, missed, now)
  BY <1>3
<1>. DEFINE R == [k \in Jobs |-> IF k \in now THEN "waiting" ELSE IF k \in missed THEN "deferred" ELSE "no"]
            m == [k \in Jobs |-> IF k \in now THEN [mem[s][k] EXCEPT !.marker = "on"] ELSE mem[s][k]]
<1>5. /\ run' = [run EXCEPT ![<<s, "boot">>] = R]
      /\ (missed = {} /\ UNCHANGED <<mem, file>>) \/ (mem' = [mem EXCEPT ![s] = m] /\ file' = m)
  BY <1>4 DEF Planned, Persist, Store
<1>6. run[s, "boot"][j] \in {"no", "skip"}
  BY <1>1 DEF Phases, SkipPhase
<1>7. <<s, "boot">> \notin Holders(j)
  BY <1>6 DEF Holders
<1>8. CASE j \in now
  <2>1. R[j] = "waiting" /\ Holds(R[j], <<s, "boot">>)
    BY <1>8, CronAssumption DEF Holds
  <2>2. HoldersAfter(j) = Holders(j) \cup {<<s, "boot">>}
    <3>. HIDE DEF R
    <3>. QED
      BY <1>5, <2>1, HoldersFrom
  <2>3. mem[cur][j].marker = "none" /\ mem[cur][j].enabled
    BY <1>1, <1>3, <1>8 DEF MayCatchUp, MustCatchUp
  <2>4. Exists(file[j])
    BY <2>3, BeforeFacts DEF SettledJob
  <2>. DEFINE q == [mem[s][j] EXCEPT !.marker = "on"]
  <2>5. q.marker # "none"
    BY <1>1, BeforeFacts DEF Job
  <2>6. m[j] = q
    BY <1>8
  <2>. HIDE DEF m, R
  <2>7. file'[j] = q /\ mem'[cur][j] = q
    BY <1>1, <1>5, <1>8, <2>6 DEF TypeOK
  <2>. HIDE DEF q
  <2>. QED
    BY <1>1, <2>2, <2>3, <2>4, <2>5, <2>7, TakenJob, AgreeSelf
<1>9. CASE j \notin now
  <2>1. ~Holds(R[j], <<s, "boot">>)
    BY <1>9 DEF Holds
  <2>2. HoldersAfter(j) = Holders(j)
    <3>. HIDE DEF R
    <3>1. HoldersAfter(j) = Holders(j) \ {<<s, "boot">>}
      BY <1>5, <2>1, HoldersFrom
    <3>. QED
      BY <1>7, <3>1
  <2>3. m[j] = mem[s][j]
    BY <1>9
  <2>. HIDE DEF m, R
  <2>4. CASE UNCHANGED <<mem, file>>
    BY <1>1, <2>2, <2>4, NothingMoves
  <2>5. CASE mem' = [mem EXCEPT ![s] = m] /\ file' = m
    <3>1. file'[j] = mem[cur][j] /\ mem'[cur][j] = mem[cur][j]
      BY <1>1, <2>3, <2>5 DEF TypeOK
    <3>. QED
      BY <1>1, <2>2, <3>1, OneCopyKept
  <2>. QED
    BY <1>5, <2>4, <2>5
<1>. QED
  BY <1>8, <1>9

LEMMA RecomputeParts ==
    ASSUME NEW m \in [Jobs -> Job], NEW which \in SUBSET {"none", "due"}, NEW j \in Jobs
    PROVE  /\ Recompute(m, which)[j].slot = m[j].slot
           /\ Recompute(m, which)[j].marker \in {m[j].marker, "none"}
BY RecomputeFacts

LEMMA ApplyAllAt ==
    ASSUME NEW m \in [Jobs -> Job], NEW outcomes, NEW j \in Jobs
    PROVE  ApplyAll(m, outcomes)[j] =
             IF outcomes[j] \in Results THEN ApplyJobResult(j, m[j], outcomes[j]) ELSE m[j]
BY ApplyAllFacts

LEMMA AppliedMarker ==
    ASSUME NEW j \in Jobs, NEW r \in Job, SettledJob(j, r), NEW result \in Results
    PROVE  ApplyJobResult(j, r, result).marker = "none"
BY ApplyJobResultFacts DEF SettledJob

(* The outcomes of a tick or of a start are applied to the jobs of the file or of
   the memory, and maintenance follows. *)
LEMMA OutcomesFit ==
    ASSUME TypeOK, AllSettled(file, mem), NEW j \in Jobs, Before(j), NEW a \in {"tick", "boot"},
           NEW base \in [Jobs -> Job], base[j] = file[j] \/ base[j] = mem[cur][j],
           run[cur, a][j] \notin {"waiting", "running"}, run' = [run EXCEPT ![<<cur, a>>] = NoRuns],
           NEW late \in [Jobs -> Job],
           late[j].slot = ApplyAll(base, run[cur, a])[j].slot,
           late[j].marker = ApplyAll(base, run[cur, a])[j].marker,
           NEW m, m = Recompute(late, {"none"}), file'[j] = m[j], mem'[cur][j] = m[j],
           Unprotect(Cleared(late, m))
    PROVE  After(j)
<1>. DEFINE p == <<cur, a>>
            result == run[cur, a][j]
<1>1. cur \in Services
  BY DEF TypeOK
<1>2. ~Holds(NoRuns[j], p)
  BY DEF Holds, NoRuns
<1>3. HoldersAfter(j) = Holders(j) \ {p} /\ (p \in Holders(j) <=> Holds(result, p))
  BY <1>1, <1>2, HoldersFrom
<1>4. Holds(result, p) <=> result \in Results
  BY DEF Holds
<1>5. /\ m[j].slot = late[j].slot /\ m[j].marker \in {late[j].marker, "none"}
  <2>1. {"none"} \in SUBSET {"none", "due"}
    OBVIOUS
  <2>2. /\ Recompute(late, {"none"})[j].slot = late[j].slot
        /\ Recompute(late, {"none"})[j].marker \in {late[j].marker, "none"}
    BY <2>1, RecomputeParts, Zenon
  <2>. QED
    BY <2>2, Zenon
<1>6. base[j] \in Job /\ SettledJob(j, base[j])
  BY BeforeFacts
<1>7. ApplyAll(base, run[cur, a])[j] = IF result \in Results THEN ApplyJobResult(j, base[j], result) ELSE base[j]
  BY DEF ApplyAll
<1>. HIDE DEF p, result
<1>8. CASE result \in Results
  <2>1. ApplyJobResult(j, base[j], result).marker = "none"
    BY <1>6, <1>8, AppliedMarker, Zenon
  <2>4. late[j].marker = "none"
    BY <1>7, <1>8, <2>1
  <2>. QED
    BY <1>3, <1>4, <1>5, <1>8, <2>4, ReleasedJob, AgreeSelf
<1>9. CASE result \notin Results
  <2>1. HoldersAfter(j) = Holders(j)
    BY <1>3, <1>4, <1>9
  <2>2. late[j].marker = base[j].marker /\ late[j].slot = base[j].slot
    BY <1>7, <1>9
  <2>3. late[j].marker # "none" /\ m[j].marker = "none" => j \in Cleared(late, m)
    BY DEF Cleared
  <2>4. base[j].marker # "none" /\ m[j].marker = "none" => j \in Cleared(late, m)
    BY <2>2, <2>3
  <2>5. m[j].slot = base[j].slot /\ m[j].marker \in {base[j].marker, "none"}
    BY <1>5, <2>2
  <2>. QED
    BY <2>1, <2>4, <2>5, OneCopyKept
<1>. QED
  BY <1>8, <1>9

LEMMA BootApplyFits ==
    ASSUME TypeOK, AllSettled(file, mem), Alone, NEW s \in Services, BootApply(s),
           \A j \in Jobs : Before(j)
    PROVE  \A j \in Jobs : After(j)
<1>1. s = cur
  BY DEF Alone, BootApply
<1>2. SUFFICES ASSUME NEW j \in Jobs PROVE After(j)
  OBVIOUS
<1>. DEFINE outcomes == run[s, "boot"]
            applied  == ApplyAll(mem[s], outcomes)
            Late(k)  == IF outcomes[k] = "deferred" /\ applied[k].enabled
                        THEN [applied[k] EXCEPT !.next = "future"] ELSE applied[k]
            staggered == [k \in Jobs |-> Late(k)]
            m     == Recompute(staggered, {"none"})
<1>3. mem[s] \in [Jobs -> Job]
  BY DEF TypeOK
<1>4. applied \in [Jobs -> Job]
  BY <1>3, ApplyAllFacts
<1>5. staggered \in [Jobs -> Job] /\ staggered[j].slot = applied[j].slot /\ staggered[j].marker = applied[j].marker
  <2>. HIDE DEF applied, outcomes
  <2>1. \A k \in Jobs : Late(k) \in Job /\ Late(k).slot = applied[k].slot /\ Late(k).marker = applied[k].marker
    BY <1>4 DEF Job
  <2>. QED
    BY <2>1
<1>6. /\ run' = [run EXCEPT ![<<s, "boot">>] = NoRuns] /\ Unprotect(Cleared(staggered, m))
      /\ mem' = [mem EXCEPT ![s] = m] /\ file' = m /\ outcomes[j] \notin {"waiting", "running"}
  BY DEF BootApply, Ended, RecomputeNextRunsForMaintenance, Persist, Store
<1>. HIDE DEF staggered
<1>. DEFINE kept == m
<1>7. kept = Recompute(staggered, {"none"})
  OBVIOUS
<1>. HIDE DEF kept
<1>8. file'[j] = kept[j] /\ mem'[cur][j] = kept[j] /\ Unprotect(Cleared(staggered, kept))
  BY <1>1, <1>6 DEF kept, TypeOK
<1>. QED
  BY <1>1, <1>3, <1>5, <1>6, <1>7, <1>8, OutcomesFit

LEMMA ApplyOutcomesFits ==
    ASSUME TypeOK, Phases, AllSettled(file, mem), Alone, NEW s \in Services, ApplyOutcomes(s),
           \A j \in Jobs : Before(j)
    PROVE  \A j \in Jobs : After(j)
<1>1. s = cur
  BY DEF Alone, ApplyOutcomes, Phases, Unstarted
<1>2. SUFFICES ASSUME NEW j \in Jobs PROVE After(j)
  OBVIOUS
<1>. DEFINE applied == ApplyAll(file, run[s, "tick"])
            m == Recompute(applied, {"none"})
<1>3. file \in [Jobs -> Job]
  BY DEF TypeOK
<1>4. applied \in [Jobs -> Job]
  BY <1>3, ApplyAllFacts
<1>5. /\ run' = [run EXCEPT ![<<s, "tick">>] = NoRuns] /\ Unprotect(Cleared(applied, m))
      /\ mem' = [mem EXCEPT ![s] = m] /\ file' = m /\ run[s, "tick"][j] \notin {"waiting", "running"}
  BY DEF ApplyOutcomes, Ended, RecomputeNextRunsForMaintenance, Persist, Store
<1>. DEFINE kept == m
<1>6. kept = Recompute(applied, {"none"})
  OBVIOUS
<1>. HIDE DEF kept
<1>7. file'[j] = kept[j] /\ mem'[cur][j] = kept[j] /\ Unprotect(Cleared(applied, kept))
  BY <1>1, <1>5 DEF kept, TypeOK
<1>. QED
  BY <1>1, <1>3, <1>4, <1>5, <1>6, <1>7, OutcomesFit

(* start() arms the timer, status and list: what is stored is what was in memory,
   but for next runs and markers that are taken away. *)
LEMMA RecomputedFits ==
    ASSUME TypeOK, AllSettled(file, mem), NEW j \in Jobs, Before(j), run' = run,
           NEW which \in SUBSET {"none", "due"}, NEW m, m = Recompute(mem[cur], which),
           mem' = [mem EXCEPT ![cur] = m], file' = IF m = mem[cur] THEN file ELSE m,
           Unprotect(Cleared(mem[cur], m))
    PROVE  After(j)
<1>1. cur \in Services /\ mem[cur] \in [Jobs -> Job]
  BY DEF TypeOK
<1>2. mem'[cur] = m
  BY <1>1 DEF TypeOK
<1>3. HoldersAfter(j) = Holders(j)
  BY SameHolders
<1>4. CASE m = mem[cur]
  <2>1. file'[j] = file[j] /\ mem'[cur][j] = mem[cur][j]
    BY <1>2, <1>4
  <2>2. Cleared(mem[cur], m) = {}
    BY <1>4 DEF Cleared
  <2>. QED
    BY <1>3, <2>1, <2>2, NothingMoves
<1>5. CASE m # mem[cur]
  <2>1. file'[j] = m[j] /\ mem'[cur][j] = m[j]
    BY <1>2, <1>5
  <2>2. m[j].slot = mem[cur][j].slot /\ m[j].marker \in {mem[cur][j].marker, "none"}
    BY <1>1, RecomputeFacts
  <2>3. mem[cur][j].marker # "none" /\ m[j].marker = "none" => j \in Cleared(mem[cur], m)
    BY DEF Cleared
  <2>. QED
    BY <1>3, <2>1, <2>2, <2>3, OneCopyKept
<1>. QED
  BY <1>4, <1>5

LEMMA BootArmFits ==
    ASSUME TypeOK, AllSettled(file, mem), Alone, NEW s \in Services, BootArm(s) \/ Read(s),
           \A j \in Jobs : Before(j)
    PROVE  \A j \in Jobs : After(j)
<1>1. s = cur
  BY DEF Alone, BootArm, Read, Serving
<1>2. CASE BootArm(s)
  <2>. DEFINE m == Recompute(mem[cur], {"none", "due"})
  <2>1. /\ run' = run /\ mem' = [mem EXCEPT ![cur] = m] /\ file' = IF m = mem[cur] THEN file ELSE m
        /\ Unprotect(Cleared(mem[cur], m))
    BY <1>1, <1>2 DEF BootArm, RecomputeNextRuns, Store
  <2>. QED
    BY <2>1, RecomputedFits
<1>3. CASE Read(s)
  <2>. DEFINE m == Recompute(mem[cur], {"none"})
  <2>1. /\ run' = run /\ mem' = [mem EXCEPT ![cur] = m] /\ file' = IF m = mem[cur] THEN file ELSE m
        /\ Unprotect(Cleared(mem[cur], m))
    BY <1>1, <1>3 DEF Read, RecomputeNextRunsForMaintenance, Store
  <2>. QED
    BY <2>1, RecomputedFits
<1>. QED
  BY <1>2, <1>3

LEMMA CollectFits ==
    ASSUME TypeOK, Phases, AllSettled(file, mem), Alone, NEW s \in Services, CollectRunnableJobs(s),
           \A j \in Jobs : Before(j)
    PROVE  \A j \in Jobs : After(j)
<1>1. s = cur
  BY DEF Alone, CollectRunnableJobs, Phases, Unstarted
<1>2. SUFFICES ASSUME NEW j \in Jobs PROVE After(j)
  OBVIOUS
<1>. DEFINE due == {k \in Jobs : IsRunnable(file[k])}
            marked == [k \in Jobs |-> IF k \in due THEN [file[k] EXCEPT !.marker = "on"] ELSE file[k]]
            kept == Recompute(file, {"none"})
            m == IF due = {} THEN kept ELSE marked
            R == [k \in Jobs |-> IF k \in due THEN "waiting" ELSE "no"]
            p == <<s, "tick">>
<1>3. /\ run' = [run EXCEPT ![<<s, "tick">>] = R] /\ Unprotect(Cleared(file, m))
      /\ mem' = [mem EXCEPT ![s] = m] /\ file' = m /\ tick[s] = "collect"
  BY DEF CollectRunnableJobs, RecomputeNextRunsForMaintenance, Persist, Store
<1>4. run[s, "tick"] = NoRuns
  BY <1>3 DEF Phases, TickPhase
<1>5. p \notin Holders(j)
  BY <1>4 DEF Holders, NoRuns
<1>6. file'[j] = m[j] /\ mem'[cur][j] = m[j]
  BY <1>1, <1>3 DEF TypeOK
<1>7. file[j] \in Job /\ file \in [Jobs -> Job]
  BY DEF TypeOK
<1>8. CASE j \in due
  <2>1. Holds(R[j], p)
    BY <1>8, CronAssumption DEF Holds
  <2>2. HoldersAfter(j) = Holders(j) \cup {p}
    <3>. HIDE DEF R
    <3>. QED
      BY <1>3, <2>1, HoldersFrom
  <2>3. file[j].marker = "none" /\ file[j].enabled
    BY <1>8 DEF IsRunnable
  <2>4. Exists(file[j])
    BY <2>3, BeforeFacts DEF SettledJob
  <2>5. m[j] = [file[j] EXCEPT !.marker = "on"]
    BY <1>8
  <2>6. m[j].marker # "none"
    BY <1>7, <2>5 DEF Job
  <2>7. Unprotect(Cleared(file, m)) /\ file'[j].marker # "none" /\ mem'[cur][j].marker # "none"
        /\ Agree(file'[j], mem'[cur][j])
    BY <1>3, <1>6, <2>6, AgreeSelf
  <2>. HIDE DEF m, R, p, due
  <2>. QED
    BY <2>2, <2>3, <2>4, <2>7, TakenJob
<1>9. CASE j \notin due
  <2>1. ~Holds(R[j], p)
    BY <1>9 DEF Holds
  <2>2. HoldersAfter(j) = Holders(j)
    <3>. HIDE DEF R
    <3>1. HoldersAfter(j) = Holders(j) \ {p}
      BY <1>3, <2>1, HoldersFrom
    <3>. QED
      BY <1>5, <3>1
  <2>3. m[j].slot = file[j].slot /\ m[j].marker \in {file[j].marker, "none"}
    <3>1. kept[j].slot = file[j].slot /\ kept[j].marker \in {file[j].marker, "none"}
      BY <1>7, RecomputeFacts
    <3>2. marked[j] = file[j]
      BY <1>9
    <3>. HIDE DEF kept, marked
    <3>. QED
      BY <3>1, <3>2
  <2>4. file[j].marker # "none" /\ m[j].marker = "none" => j \in Cleared(file, m)
    BY DEF Cleared
  <2>5. Unprotect(Cleared(file, m))
    BY <1>3
  <2>. HIDE DEF m, R, p, due
  <2>. QED
    BY <1>6, <2>2, <2>3, <2>4, <2>5, OneCopyKept
<1>. QED
  BY <1>8, <1>9

LEMMA HandStarted ==
    ASSUME Phases, NEW s \in Services, NEW a \in Actors, NEW j \in Jobs, run[s, a][j] # "no"
    PROVE  boot[s] \notin {"off", "load"}
<1>1. run[s, a] # NoRuns
  BY DEF NoRuns
<1>. QED
  BY <1>1 DEF Phases, Unstarted

(* What one actor has in hand of one job changes. *)
LEMMA OneHand ==
    ASSUME TypeOK, NEW s \in Services, NEW a \in Actors, NEW i \in Jobs, NEW v,
           run' = [run EXCEPT ![<<s, a>>][i] = v]
    PROVE  /\ \A j \in Jobs \ {i} : HoldersAfter(j) = Holders(j)
           /\ Holds(v, <<s, a>>) => HoldersAfter(i) = Holders(i) \cup {<<s, a>>}
           /\ ~Holds(v, <<s, a>>) => HoldersAfter(i) = Holders(i) \ {<<s, a>>}
           /\ <<s, a>> \in Holders(i) <=> Holds(run[s, a][i], <<s, a>>)
<1>. DEFINE p == <<s, a>>
            R == [run[s, a] EXCEPT ![i] = v]
<1>1. run' = [run EXCEPT ![<<s, a>>] = R]
  OBVIOUS
<1>2. R[i] = v /\ \A j \in Jobs \ {i} : R[j] = run[s, a][j]
  BY DEF TypeOK
<1>. HIDE DEF R
<1>3. \A j \in Jobs : /\ Holds(R[j], p) => HoldersAfter(j) = Holders(j) \cup {p}
                      /\ ~Holds(R[j], p) => HoldersAfter(j) = Holders(j) \ {p}
                      /\ p \in Holders(j) <=> Holds(run[s, a][j], p)
  BY <1>1, HoldersFrom
<1>4. \A j \in Jobs \ {i} : HoldersAfter(j) = Holders(j)
  BY <1>2, <1>3
<1>. QED
  BY <1>2, <1>3, <1>4

(* A worker begins a job it holds. *)
LEMMA BeginFits ==
    ASSUME TypeOK, Phases, AllSettled(file, mem), Alone, NEW s \in Services, NEW a \in Actors,
           NEW i \in Jobs, Begin(s, a, i), \A j \in Jobs : Before(j)
    PROVE  \A j \in Jobs : After(j)
<1>. DEFINE p == <<s, a>>
            dated == [mem[s][i] EXCEPT !.marker = "on"]
<1>1. /\ a \in {"tick", "boot"} /\ run[s, a][i] = "waiting" /\ Unprotect({}) /\ file' = file
      /\ run' = [run EXCEPT ![<<s, a>>][i] = "running"]
      /\ mem' = (IF a = "tick" /\ held[s] /\ Exists(mem[s][i])
                 THEN [mem EXCEPT ![s][i].marker = "on"] ELSE mem)
  BY DEF Begin
<1>2. mem' = mem \/ mem' = [mem EXCEPT ![s] = [mem[s] EXCEPT ![i] = dated]]
  BY <1>1 DEF TypeOK
<1>3. s = cur
  BY <1>1, HandStarted DEF Alone
<1>4. Holds("running", p) /\ Holds(run[s, a][i], p)
  BY <1>1, CronAssumption DEF Holds
<1>5. p \in Holders(i) /\ \A j \in Jobs : HoldersAfter(j) = Holders(j)
  <2>1. p \in Holders(i) /\ HoldersAfter(i) = Holders(i) \cup {p}
    BY <1>1, <1>4, OneHand
  <2>2. \A j \in Jobs \ {i} : HoldersAfter(j) = Holders(j)
    BY <1>1, OneHand
  <2>. QED
    BY <2>1, <2>2
<1>6. SUFFICES ASSUME NEW j \in Jobs PROVE After(j)
  OBVIOUS
<1>7. mem'[cur][j] = mem[cur][j] \/ (j = i /\ mem'[cur][j] = dated)
  <2>. HIDE DEF dated
  <2>. QED
    BY <1>2, <1>3 DEF TypeOK
<1>8. CASE mem'[cur][j] = mem[cur][j]
  BY <1>1, <1>5, <1>8, NothingMoves
<1>9. CASE j = i /\ mem'[cur][j] = dated
  <2>1. dated.marker # "none" /\ Agree(mem[s][i], dated)
    BY <1>3, <1>9, BeforeFacts DEF Job, Agree
  <2>2. Agree(file[j], dated)
    BY <1>3, <1>9, <2>1, BeforeFacts DEF Agree
  <2>3. Holders(j) # {}
    BY <1>5, <1>9
  <2>. HIDE DEF dated
  <2>. QED
    BY <1>1, <1>5, <1>9, <2>1, <2>2, <2>3, KeptJob
<1>. QED
  BY <1>7, <1>8, <1>9

LEMMA EndFits ==
    ASSUME TypeOK, AllSettled(file, mem), NEW s \in Services, NEW a \in Actors,
           NEW i \in Jobs, End(s, a, i), \A j \in Jobs : Before(j)
    PROVE  \A j \in Jobs : After(j)
<1>. DEFINE p == <<s, a>>
<1>1. PICK result \in Results : run' = [run EXCEPT ![<<s, a>>][i] = result]
  BY DEF End
<1>2. run[s, a][i] = "running" /\ UNCHANGED <<file, mem, lost>>
  BY DEF End
<1>3. Holds(result, p) /\ Holds(run[s, a][i], p)
  BY <1>2 DEF Holds
<1>4. \A j \in Jobs : HoldersAfter(j) = Holders(j)
  <2>1. p \in Holders(i) /\ HoldersAfter(i) = Holders(i) \cup {p}
    BY <1>1, <1>3, OneHand
  <2>2. \A j \in Jobs \ {i} : HoldersAfter(j) = Holders(j)
    BY <1>1, OneHand
  <2>. QED
    BY <2>1, <2>2
<1>. QED
  BY <1>2, <1>4, NothingMoves

(* What every edit does to the jobs: the memory m, recomputed or not, is stored. *)
LEMMA EditedFits ==
    ASSUME TypeOK, AllSettled(file, mem), Alone, NEW s \in Services, NEW m, Edited(s, m),
           NEW j \in Jobs, Before(j),
           m[j].slot = mem[s][j].slot \/ ~Exists(m[j]),
           m[j].marker \in {mem[s][j].marker, "none"}
    PROVE  After(j)
<1>1. s = cur /\ Unprotect(Cleared(mem[s], m)) /\ run' = run
      /\ mem' = [mem EXCEPT ![s] = m] /\ file' = m
  BY DEF Edited, Request, Serving, Persist, Store
<1>2. file'[j] = m[j] /\ mem'[cur][j] = m[j]
  BY <1>1 DEF TypeOK
<1>3. HoldersAfter(j) = Holders(j)
  BY <1>1, SameHolders
<1>4. mem[s][j].marker # "none" /\ m[j].marker = "none" => j \in Cleared(mem[s], m)
  BY DEF Cleared
<1>. QED
  BY <1>1, <1>2, <1>3, <1>4, OneCopyKept

LEMMA EditFits ==
    ASSUME TypeOK, AllSettled(file, mem), Alone, NEW s \in Services, NEW i \in Jobs,
           \/ Add(s, i) \/ Remove(s, i)
           \/ \E patch \in {"enable", "disable", "reschedule", "other"} : Update(s, i, patch),
           \A j \in Jobs : Before(j)
    PROVE  \A j \in Jobs : After(j)
<1>0. mem[s] \in [Jobs -> Job]
  BY DEF TypeOK
<1>1. SUFFICES ASSUME NEW j \in Jobs PROVE After(j)
  OBVIOUS
<1>2. CASE Add(s, i)
  <2>1. PICK enabled \in BOOLEAN :
          LET r == [NoJob("ahead") EXCEPT !.enabled = enabled]
          IN  Edited(s, RecomputeNextRuns([mem[s] EXCEPT ![i] = [r EXCEPT !.next = ComputeNext(i, r)]]))
    BY <1>2 DEF Add
  <2>. DEFINE r == [NoJob("ahead") EXCEPT !.enabled = enabled]
              q == [r EXCEPT !.next = ComputeNext(i, r)]
              n == [mem[s] EXCEPT ![i] = q]
              m == RecomputeNextRuns(n)
  <2>2. Edited(s, m)
    BY <2>1
  <2>3. n \in [Jobs -> Job]
    BY <1>0, AddedTyped
  <2>4. q.marker = "none"
    BY DEF NoJob
  <2>. HIDE DEF q
  <2>5. /\ j # i => n[j] = mem[s][j]
        /\ n[i].marker = "none"
    BY <1>0, <2>4
  <2>. HIDE DEF n
  <2>6. \A k \in Jobs : m[k].slot = n[k].slot /\ m[k].marker \in {n[k].marker, "none"}
    BY <2>3, RecomputeParts DEF RecomputeNextRuns
  <2>. HIDE DEF m
  <2>7. CASE j # i
    BY <2>2, <2>5, <2>6, <2>7, EditedFits
  <2>8. CASE j = i
    <3>1. \A p \in Services \X Actors : run[p][i] = "no"
      BY <1>2 DEF Add
    <3>2. Holders(i) = {}
      BY <3>1 DEF Holders
    <3>3. s = cur /\ run' = run /\ mem' = [mem EXCEPT ![s] = m] /\ file' = m
      BY <2>2 DEF Edited, Request, Serving, Persist, Store
    <3>4. HoldersAfter(i) = {}
      BY <3>2, <3>3, SameHolders
    <3>5. m[i].marker = "none"
      BY <2>5, <2>6
    <3>6. file'[i] = m[i] /\ mem'[cur][i] = m[i]
      BY <3>3 DEF TypeOK
    <3>. QED
      BY <2>8, <3>4, <3>5, <3>6, AgreeSelf DEF After, Fits
  <2>. QED
    BY <2>7, <2>8
<1>3. CASE Remove(s, i)
  <2>. DEFINE q == NoJob("gone")
              m == [mem[s] EXCEPT ![i] = q]
  <2>1. Edited(s, m)
    BY <1>3 DEF Remove
  <2>2. q.marker = "none" /\ ~Exists(q)
    BY DEF NoJob, Exists
  <2>. HIDE DEF q
  <2>3. IF j = i THEN m[j] = q ELSE m[j] = mem[s][j]
    BY <1>0
  <2>. HIDE DEF m
  <2>. QED
    BY <2>1, <2>2, <2>3, EditedFits
<1>4. ASSUME NEW patch \in {"enable", "disable", "reschedule", "other"}, Update(s, i, patch)
      PROVE  After(j)
  <2>. DEFINE q == Patched(i, mem[s][i], patch)
              m == [mem[s] EXCEPT ![i] = q]
  <2>1. Edited(s, m)
    BY <1>0, <1>4 DEF Update
  <2>2. q.marker \in {mem[s][i].marker, "none"} /\ Exists(q) /\ Exists(mem[s][i])
    BY <1>0, <1>4, PatchedFacts DEF Update
  <2>. HIDE DEF q
  <2>3. IF j = i THEN m[j] = q ELSE m[j] = mem[s][j]
    BY <1>0
  <2>. HIDE DEF m
  <2>4. CASE j # i
    BY <2>1, <2>3, <2>4, EditedFits
  <2>5. CASE j = i
    <3>1. s = cur /\ Unprotect(Cleared(mem[s], m)) /\ run' = run
          /\ mem' = [mem EXCEPT ![s] = m] /\ file' = m
      BY <2>1 DEF Edited, Request, Serving, Persist, Store
    <3>2. file'[j] = q /\ mem'[cur][j] = q
      BY <2>3, <2>5, <3>1 DEF TypeOK
    <3>3. HoldersAfter(j) = Holders(j)
      BY <3>1, SameHolders
    <3>4. mem[s][j].marker # "none" /\ q.marker = "none" => j \in Cleared(mem[s], m)
      BY <2>3, <2>5 DEF Cleared
    <3>5. Exists(file[j])
      BY <2>2, <2>5, <3>1, BeforeFacts
    <3>6. Holders(j) = {} => q.marker = "none"
      BY <2>2, <2>5, <3>1, BeforeFacts
    <3>. QED
      BY <2>2, <2>5, <3>1, <3>2, <3>3, <3>4, <3>5, <3>6, AgreeSelf, KeptJob
  <2>. QED
    BY <2>4, <2>5
<1>. QED
  BY <1>2, <1>3, <1>4

LEMMA InspectFits ==
    ASSUME TypeOK, AllSettled(file, mem), Alone, NEW s \in Services, NEW c \in Callers,
           NEW i \in Jobs, InspectManualRun(s, c, i), \A j \in Jobs : Before(j)
    PROVE  \A j \in Jobs : After(j)
<1>. DEFINE m == Recompute(mem[s], {"none"})
            p == <<s, c>>
<1>1. /\ s = cur /\ mem' = [mem EXCEPT ![s] = m] /\ file' = file /\ Unprotect(Cleared(mem[s], m))
      /\ run[s, c][i] = "no"
      /\ run' = run \/ run' = [run EXCEPT ![<<s, c>>][i] = "waiting"]
  BY DEF InspectManualRun, Request, Serving, RecomputeNextRunsForMaintenance, Store
<1>2. \A j \in Jobs : HoldersAfter(j) = Holders(j)
  <2>1. CASE run' = run
    BY <2>1, SameHolders
  <2>2. CASE run' = [run EXCEPT ![<<s, c>>][i] = "waiting"]
    <3>1. ~Holds("waiting", p) /\ ~Holds(run[s, c][i], p)
      BY <1>1 DEF Holds
    <3>2. p \notin Holders(i) /\ HoldersAfter(i) = Holders(i) \ {p}
      BY <2>2, <3>1, OneHand
    <3>3. \A j \in Jobs \ {i} : HoldersAfter(j) = Holders(j)
      BY <2>2, OneHand
    <3>. QED
      BY <3>2, <3>3
  <2>. QED
    BY <1>1, <2>1, <2>2
<1>3. SUFFICES ASSUME NEW j \in Jobs PROVE After(j)
  OBVIOUS
<1>4. mem[s] \in [Jobs -> Job] /\ Settled(mem[s])
  BY DEF TypeOK, AllSettled
<1>5. m[j] \in Job /\ Agree(mem[s][j], m[j]) /\ m[j].marker \in {mem[s][j].marker, "none"}
  BY <1>4, MaintenanceAgrees
<1>6. mem'[cur][j] = m[j]
  BY <1>1 DEF TypeOK
<1>7. mem[s][j].marker # "none" /\ m[j].marker = "none" => j \in Cleared(mem[s], m)
  BY DEF Cleared
<1>. HIDE DEF m
<1>8. Agree(file[j], m[j])
  BY <1>1, <1>5, BeforeFacts DEF Agree
<1>9. Holders(j) = {} => file[j].marker = "none" /\ m[j].marker = "none"
  BY <1>1, <1>5, BeforeFacts
<1>10. file'[j] = file[j] /\ Unprotect(Cleared(mem[s], m))
  BY <1>1
<1>. QED
  BY <1>1, <1>2, <1>5, <1>6, <1>7, <1>8, <1>9, <1>10, KeptJob

LEMMA ReserveFits ==
    ASSUME TypeOK, Phases, AllSettled(file, mem), Alone, NEW s \in Services, NEW c \in Callers,
           NEW i \in Jobs, ReserveManualRun(s, c, i), \A j \in Jobs : Before(j)
    PROVE  \A j \in Jobs : After(j)
<1>. DEFINE p == <<s, c>>
            q == [mem[s][i] EXCEPT !.marker = "on"]
            m == [mem[s] EXCEPT ![i] = q]
<1>1. run[s, c][i] = "waiting" /\ Unprotect({})
  BY DEF ReserveManualRun
<1>2. s = cur
  BY <1>1, HandStarted DEF Alone
<1>3. ~Holds(run[s, c][i], p)
  BY <1>1 DEF Holds
<1>4. SUFFICES ASSUME NEW j \in Jobs PROVE After(j)
  OBVIOUS
<1>5. CASE Exists(mem[s][i]) /\ mem[s][i].marker = "none"
  <2>1. mem' = [mem EXCEPT ![s] = m] /\ file' = m /\ run' = [run EXCEPT ![<<s, c>>][i] = "running"]
    <3>1. [mem[s] EXCEPT ![i].marker = "on"] = m
      BY DEF TypeOK
    <3>. QED
      BY <1>5, <3>1 DEF ReserveManualRun, Persist, Store
  <2>2. Holds("running", p)
    BY DEF Holds
  <2>3. file'[j] = m[j] /\ mem'[cur][j] = m[j]
    BY <1>2, <2>1 DEF TypeOK
  <2>4. IF j = i THEN m[j] = q ELSE m[j] = mem[s][j]
    BY DEF TypeOK
  <2>5. CASE j = i
    <3>1. q.marker # "none"
      BY <1>2, BeforeFacts DEF Job
    <3>2. HoldersAfter(i) = Holders(i) \cup {p}
      BY <2>1, <2>2, OneHand
    <3>3. Exists(file[i])
      BY <1>2, <1>5, BeforeFacts
    <3>4. file'[j] = q /\ mem'[cur][j] = q
      BY <2>3, <2>4, <2>5
    <3>. HIDE DEF q, m
    <3>. QED
      BY <1>1, <1>2, <1>5, <2>5, <3>1, <3>2, <3>3, <3>4, AgreeSelf, TakenJob
  <2>6. CASE j # i
    <3>1. HoldersAfter(j) = Holders(j)
      <4>1. \A k \in Jobs \ {i} : HoldersAfter(k) = Holders(k)
        BY <2>1, OneHand
      <4>. QED
        BY <2>6, <4>1
    <3>2. file'[j] = mem[cur][j] /\ mem'[cur][j] = mem[cur][j]
      BY <1>2, <2>3, <2>4, <2>6
    <3>. QED
      BY <1>1, <3>1, <3>2, OneCopyKept
  <2>. QED
    BY <2>5, <2>6
<1>6. CASE ~(Exists(mem[s][i]) /\ mem[s][i].marker = "none")
  <2>1. UNCHANGED <<mem, file>> /\ run' = [run EXCEPT ![<<s, c>>][i] = "no"]
    BY <1>6 DEF ReserveManualRun
  <2>2. ~Holds("no", p)
    BY DEF Holds
  <2>3. p \notin Holders(i) /\ HoldersAfter(i) = Holders(i) \ {p}
    BY <1>3, <2>1, <2>2, OneHand
  <2>4. \A k \in Jobs \ {i} : HoldersAfter(k) = Holders(k)
    BY <2>1, OneHand
  <2>5. HoldersAfter(j) = Holders(j)
    BY <2>3, <2>4
  <2>. QED
    BY <1>1, <2>1, <2>5, NothingMoves
<1>. QED
  BY <1>5, <1>6

LEMMA FinishFits ==
    ASSUME TypeOK, Phases, AllSettled(file, mem), Alone, NEW s \in Services, NEW c \in Callers,
           NEW i \in Jobs, FinishManualRun(s, c, i), \A j \in Jobs : Before(j)
    PROVE  \A j \in Jobs : After(j)
<1>. DEFINE p == <<s, c>>
            q == ApplyJobResult(i, mem[s][i], run[s, c][i])
            merged == IF Exists(file[i]) THEN [file EXCEPT ![i] = q] ELSE file
            m == Recompute(merged, {"none"})
<1>1. run[s, c][i] \in Results /\ run' = [run EXCEPT ![<<s, c>>][i] = "no"]
  BY DEF FinishManualRun
<1>2. s = cur
  BY <1>1, HandStarted DEF Alone
<1>3. /\ p \in Holders(i) /\ HoldersAfter(i) = Holders(i) \ {p}
      /\ \A j \in Jobs \ {i} : HoldersAfter(j) = Holders(j)
  <2>1. Holds(run[s, c][i], p) /\ ~Holds("no", p)
    BY <1>1 DEF Holds
  <2>2. p \in Holders(i) /\ HoldersAfter(i) = Holders(i) \ {p}
    BY <1>1, <2>1, OneHand
  <2>. QED
    BY <1>1, <2>2, OneHand
<1>4. SUFFICES ASSUME NEW j \in Jobs PROVE After(j)
  OBVIOUS
<1>5. CASE Exists(mem[s][i])
  <2>1. mem' = [mem EXCEPT ![s] = m] /\ file' = m /\ Unprotect(Cleared(merged, m))
    BY <1>5 DEF FinishManualRun, RecomputeNextRunsForMaintenance, Persist, Store
  <2>2. q \in Job /\ q.marker = "none"
    <3>1. mem[s][i] \in Job /\ SettledJob(i, mem[s][i])
      BY <1>2, BeforeFacts
    <3>. QED
      BY <1>1, <3>1, ApplyJobResultFacts, AppliedMarker
  <2>3. Exists(file[i])
    BY <1>2, <1>5, BeforeFacts
  <2>. HIDE DEF q
  <2>4. merged \in [Jobs -> Job] /\ merged[i] = q /\ \A k \in Jobs \ {i} : merged[k] = file[k]
    BY <2>2, <2>3 DEF TypeOK
  <2>. HIDE DEF merged
  <2>5. m[j].slot = merged[j].slot /\ m[j].marker \in {merged[j].marker, "none"}
    BY <2>4, RecomputeParts
  <2>6. merged[j].marker # "none" /\ m[j].marker = "none" => j \in Cleared(merged, m)
    BY DEF Cleared
  <2>. HIDE DEF m
  <2>7. file'[j] = m[j] /\ mem'[cur][j] = m[j]
    BY <1>2, <2>1 DEF TypeOK
  <2>8. CASE j = i
    <3>1. m[j].marker = "none"
      BY <2>2, <2>4, <2>5, <2>8
    <3>. QED
      BY <1>3, <2>1, <2>7, <2>8, <3>1, AgreeSelf, ReleasedJob
  <2>9. CASE j # i
    BY <1>3, <2>1, <2>4, <2>5, <2>6, <2>7, <2>9, OneCopyKept
  <2>. QED
    BY <2>8, <2>9
<1>6. CASE ~Exists(mem[s][i])
  <2>1. UNCHANGED <<mem, file>> /\ Unprotect({})
    BY <1>6 DEF FinishManualRun
  <2>2. CASE j = i
    <3>1. file[i].marker = "none" /\ mem[cur][i].marker = "none" /\ Agree(file[i], mem[cur][i])
      BY <1>2, <1>6, BeforeFacts DEF SettledJob
    <3>. QED
      BY <1>3, <2>1, <2>2, <3>1, ReleasedJob
  <2>3. CASE j # i
    BY <1>3, <2>1, <2>3, NothingMoves
  <2>. QED
    BY <2>2, <2>3
<1>. QED
  BY <1>5, <1>6

(* Time changes both copies of a job in the same way. *)
LEMMA TimeFits ==
    ASSUME TypeOK, AllSettled(file, mem), NEW i \in Jobs, Time(i), \A j \in Jobs : Before(j)
    PROVE  \A j \in Jobs : After(j)
<1>1. UNCHANGED <<run, cur, lost>>
  BY DEF Time, Elapse, SlotPasses, MarkerAges
<1>2. SUFFICES ASSUME NEW j \in Jobs PROVE After(j)
  OBVIOUS
<1>3. HoldersAfter(j) = Holders(j)
  BY <1>1, SameHolders
<1>. DEFINE f == file[j]
            m == mem[cur][j]
            Missed(r) == IF r.next = "future" /\ r.last # "none" /\ r.slot = "ahead"
                         THEN [r EXCEPT !.slot = "past"] ELSE r
            Aged(r) == IF r.marker = "on" THEN [r EXCEPT !.marker = "stuck"] ELSE r
<1>4. f \in Job /\ m \in Job /\ Agree(f, m) /\ cur \in Services
  BY BeforeFacts
<1>5. ASSUME NEW g, NEW n, file'[j] = g, mem'[cur][j] = n, Agree(g, n),
             Exists(g) => Exists(f), g.marker = "none" <=> f.marker = "none",
             n.marker = "none" <=> m.marker = "none"
      PROVE  After(j)
  BY <1>1, <1>3, <1>5 DEF Before, After, Fits
<1>6. CASE file'[j] = file[j] /\ mem'[cur][j] = mem[cur][j]
  BY <1>4, <1>5, <1>6
<1>7. CASE Elapse(i) /\ j = i
  <2>1. file'[j] = Later(j, f) /\ mem'[cur][j] = Later(j, m)
    BY <1>4, <1>7 DEF Elapse, TypeOK
  <2>2. Agree(Later(j, f), Later(j, m)) /\ Later(j, f) \in Job
    <3>1. f.enabled = m.enabled /\ f.next = m.next /\ f.last = m.last /\ f.slot = m.slot
      BY <1>4, AgreeIs
    <3>2. Later(j, f) \in Job /\ Later(j, m) \in Job
      BY <1>4, TimeFacts
    <3>3. /\ Later(j, f).enabled = Later(j, m).enabled /\ Later(j, f).next = Later(j, m).next
          /\ Later(j, f).last = Later(j, m).last /\ Later(j, f).slot = Later(j, m).slot
      <4>. HIDE DEF f, m
      <4>. QED
        BY <1>4, <3>1 DEF Later, Job
    <3>. QED
      BY <3>2, <3>3, AgreeIs
  <2>3. \A r \in Job : Later(j, r).marker = r.marker /\ (Exists(Later(j, r)) <=> Exists(r))
    BY DEF Later, Job, Exists
  <2>. QED
    BY <1>4, <1>5, <2>1, <2>2, <2>3
<1>8. CASE SlotPasses(i) /\ j = i
  <2>1. file'[j] = Missed(f) /\ mem'[cur][j] = Missed(m)
    BY <1>4, <1>8 DEF SlotPasses, TypeOK
  <2>2. Agree(Missed(f), Missed(m))
    BY <1>4, AgreeIs DEF Job
  <2>3. \A r \in Job : Missed(r).marker = r.marker /\ (Exists(Missed(r)) <=> Exists(r))
    BY DEF Job, Exists
  <2>. HIDE DEF Missed
  <2>. QED
    BY <1>4, <1>5, <2>1, <2>2, <2>3
<1>9. CASE MarkerAges(i) /\ j = i
  <2>1. file'[j] = Aged(f) /\ mem'[cur][j] = Aged(m)
    BY <1>4, <1>9 DEF MarkerAges, TypeOK
  <2>2. Agree(Aged(f), Aged(m))
    BY <1>4, AgreeIs DEF Job
  <2>3. \A r \in Job : (Aged(r).marker = "none" <=> r.marker = "none") /\ (Exists(Aged(r)) <=> Exists(r))
    BY DEF Job, Exists
  <2>. HIDE DEF Aged
  <2>. QED
    BY <1>4, <1>5, <2>1, <2>2, <2>3
<1>10. CASE j # i
  <2>1. file'[j] = file[j] /\ mem'[cur][j] = mem[cur][j]
    BY <1>4, <1>10 DEF Time, Elapse, SlotPasses, MarkerAges, TypeOK
  <2>. QED
    BY <1>6, <2>1
<1>. QED
  BY <1>7, <1>8, <1>9, <1>10 DEF Time

-----------------------------------------------------------------------------
(* The invariant *)

LEMMA BeforeIs ==
    ASSUME Markers, Alone, boot[cur] # "load"
    PROVE  \A j \in Jobs : Before(j)
BY MarkersIs DEF Before

LEMMA MarkersAfter ==
    ASSUME UNCHANGED cur, \A j \in Jobs : After(j)
    PROVE  Markers'
<1>1. \A j : Holders(j)' = HoldersAfter(j)
  BY HoldersIs DEF HoldersAfter
<1>2. \A j \in Jobs : Fits(file'[j], mem'[cur'][j], Holders(j)', j \in lost')
  BY <1>1 DEF After
<1>. QED
  BY <1>2 DEF Markers, Fits, Agree

LEMMA StillAlone ==
    ASSUME UNCHANGED cur, TypeOK, Alone', boot'[cur'] # "load",
           \A s \in Services : boot'[s] = boot[s] \/ (boot[s] # "load" /\ boot'[s] # "off")
    PROVE  Alone /\ boot[cur] # "load"
<1>1. cur \in Services
  BY DEF TypeOK
<1>. QED
  BY <1>1 DEF Alone

LEMMA MarkersKept ==
    ASSUME TypeOK, Phases, AllSettled(file, mem), boot[cur] # "off", Markers, [Next]_vars
    PROVE  Markers'
<1>1. SUFFICES ASSUME Alone', boot'[cur'] # "load" PROVE Markers'
  BY DEF Markers
<1>2. ASSUME UNCHANGED cur, \A s \in Services : boot'[s] = boot[s] \/ (boot[s] # "load" /\ boot'[s] # "off")
      PROVE  Alone /\ \A j \in Jobs : Before(j)
  BY <1>1, <1>2, StillAlone, BeforeIs
<1>3. ASSUME NEW s \in Services, BootLoad(s) PROVE Markers'
  <2>1. \A t \in Services : boot[t] # "off" => boot'[t] # "off"
    BY <1>3 DEF BootLoad, TypeOK
  <2>2. cur' = cur
    BY <1>3 DEF BootLoad
  <2>3. Alone
    BY <1>1, <2>1, <2>2 DEF Alone
  <2>. QED
    BY <1>3, <2>2, <2>3, BootLoadFits, MarkersAfter
<1>4. ASSUME NEW s \in Services, BootPlan(s) PROVE Markers'
  <2>1. PICK missed \in SUBSET Jobs : \E now \in SUBSET missed : Planned(s, missed, now)
    BY <1>4, BootPlanned
  <2>2. boot' = [boot EXCEPT ![s] = IF missed = {} THEN "arm" ELSE "run"] /\ boot[s] = "plan" /\ cur' = cur
    BY <1>4, <2>1 DEF Planned, BootPlan
  <2>3. Alone /\ \A j \in Jobs : Before(j)
    BY <1>2, <2>2 DEF TypeOK
  <2>. QED
    BY <1>4, <2>2, <2>3, BootPlanFits, MarkersAfter
<1>5. ASSUME NEW s \in Services, BootApply(s) PROVE Markers'
  <2>1. cur' = cur /\ Alone /\ \A j \in Jobs : Before(j)
    BY <1>2, <1>5 DEF BootApply, TypeOK
  <2>. QED
    BY <1>5, <2>1, BootApplyFits, MarkersAfter
<1>6. ASSUME NEW s \in Services, BootArm(s) \/ Read(s) PROVE Markers'
  <2>1. cur' = cur /\ Alone /\ \A j \in Jobs : Before(j)
    BY <1>2, <1>6 DEF BootArm, Read, TypeOK
  <2>. QED
    BY <1>6, <2>1, BootArmFits, MarkersAfter
<1>7. ASSUME NEW s \in Services, CollectRunnableJobs(s) PROVE Markers'
  <2>1. cur' = cur /\ Alone /\ \A j \in Jobs : Before(j)
    BY <1>2, <1>7 DEF CollectRunnableJobs
  <2>. QED
    BY <1>7, <2>1, CollectFits, MarkersAfter
<1>8. ASSUME NEW s \in Services, ApplyOutcomes(s) PROVE Markers'
  <2>1. cur' = cur /\ Alone /\ \A j \in Jobs : Before(j)
    BY <1>2, <1>8 DEF ApplyOutcomes
  <2>. QED
    BY <1>8, <2>1, ApplyOutcomesFits, MarkersAfter
<1>9. ASSUME UNCHANGED <<boot, file, mem, run, cur, lost>> PROVE Markers'
  <2>1. Alone /\ \A j \in Jobs : Before(j)
    BY <1>2, <1>9
  <2>2. \A j \in Jobs : After(j)
    BY <1>9, <2>1, SameHolders DEF Before, After
  <2>. QED
    BY <1>9, <2>2, MarkersAfter
<1>10. ASSUME NEW s \in Services, NEW a \in Actors, NEW j \in Jobs, Begin(s, a, j) PROVE Markers'
  <2>1. cur' = cur /\ Alone /\ \A k \in Jobs : Before(k)
    BY <1>2, <1>10 DEF Begin
  <2>. QED
    BY <1>10, <2>1, BeginFits, MarkersAfter
<1>11. ASSUME NEW s \in Services, NEW a \in Actors, NEW j \in Jobs, End(s, a, j) PROVE Markers'
  <2>1. cur' = cur /\ Alone /\ \A k \in Jobs : Before(k)
    BY <1>2, <1>11 DEF End
  <2>. QED
    BY <1>11, <2>1, EndFits, MarkersAfter
<1>12. ASSUME NEW s \in Services, NEW j \in Jobs,
              \/ Add(s, j) \/ Remove(s, j)
              \/ \E patch \in {"enable", "disable", "reschedule", "other"} : Update(s, j, patch)
       PROVE  Markers'
  <2>1. UNCHANGED <<boot, cur>>
    BY <1>12 DEF Add, Remove, Update, Edited
  <2>2. Alone /\ \A k \in Jobs : Before(k)
    BY <1>2, <2>1
  <2>. QED
    BY <1>12, <2>1, <2>2, EditFits, MarkersAfter
<1>13. ASSUME NEW s \in Services, NEW c \in Callers, NEW j \in Jobs, InspectManualRun(s, c, j)
       PROVE  Markers'
  <2>1. cur' = cur /\ Alone /\ \A k \in Jobs : Before(k)
    BY <1>2, <1>13 DEF InspectManualRun
  <2>. QED
    BY <1>13, <2>1, InspectFits, MarkersAfter
<1>14. ASSUME NEW s \in Services, NEW c \in Callers, NEW j \in Jobs, ReserveManualRun(s, c, j)
       PROVE  Markers'
  <2>1. cur' = cur /\ Alone /\ \A k \in Jobs : Before(k)
    BY <1>2, <1>14 DEF ReserveManualRun
  <2>. QED
    BY <1>14, <2>1, ReserveFits, MarkersAfter
<1>15. ASSUME NEW s \in Services, NEW c \in Callers, NEW j \in Jobs, FinishManualRun(s, c, j)
       PROVE  Markers'
  <2>1. cur' = cur /\ Alone /\ \A k \in Jobs : Before(k)
    BY <1>2, <1>15 DEF FinishManualRun
  <2>. QED
    BY <1>15, <2>1, FinishFits, MarkersAfter
<1>16. ASSUME NEW j \in Jobs, Time(j) PROVE Markers'
  <2>1. cur' = cur /\ Alone /\ \A k \in Jobs : Before(k)
    BY <1>2, <1>16 DEF Time, Elapse, SlotPasses, MarkerAges
  <2>. QED
    BY <1>16, <2>1, TimeFits, MarkersAfter
<1>17. ASSUME NEW s \in Services, RestartCron(s) PROVE FALSE
  <2>1. cur' = s /\ boot'[s] = "load"
    BY <1>17 DEF RestartCron, TypeOK
  <2>. QED
    BY <1>1, <2>1
<1>18. ASSUME Crash PROVE FALSE
  <2>1. boot'[cur'] = "load"
    BY <1>18 DEF Crash, TypeOK
  <2>. QED
    BY <1>1, <2>1
<1>19. ASSUME NEW s \in Services, TickEnds(s) \/ TimerFires(s) PROVE Markers'
  BY <1>9, <1>19 DEF TickEnds, TimerFires
<1>20. CASE UNCHANGED vars
  BY <1>9, <1>20 DEF vars
<1>. QED
  BY <1>3, <1>4, <1>5, <1>6, <1>7, <1>8, <1>10, <1>11, <1>12, <1>13, <1>14, <1>15, <1>16, <1>17,
     <1>18, <1>19, <1>20 DEF Next, Start, Tick, Manual

LEMMA InductiveIs == Inductive <=>
    TypeOK /\ boot[cur] # "off" /\ Phases /\ AllSettled(file, mem) /\ Markers /\ SchedulerArmed
BY DEF Inductive, AllSettled

LEMMA InitInductive == Init => Inductive
<1>. SUFFICES ASSUME Init PROVE Inductive
  OBVIOUS
<1>1. TypeOK /\ AllSettled(file, mem)
  BY InitTyped, InitSettled
<1>2. boot[cur] = "load"
  BY DEF Init
<1>3. Unstarted /\ TickPhase /\ BootPhase
  BY DEF Init, Unstarted, TickPhase, BootPhase
<1>4. SkipPhase /\ HandPhase
  BY DEF Init, SkipPhase, HandPhase, NoRuns
<1>. QED
  BY <1>1, <1>2, <1>3, <1>4, InductiveIs DEF Phases, Markers, SchedulerArmed

(* The invariant holds of every reachable state. *)
THEOREM CronInvariance == Spec => []Inductive
<1>1. Inductive /\ [Next]_vars => Inductive'
  <2>. SUFFICES ASSUME Inductive, [Next]_vars PROVE Inductive'
    OBVIOUS
  <2>1. TypeOK /\ boot[cur] # "off" /\ Phases /\ AllSettled(file, mem) /\ Markers /\ SchedulerArmed
    BY InductiveIs
  <2>2. TypeOK' /\ AllSettled(file', mem')
    BY <2>1, NextTyped, SettledKept
  <2>3. Phases' /\ boot'[cur'] # "off"
    BY <2>1, PhasesKept
  <2>4. Markers' /\ SchedulerArmed'
    BY <2>1, MarkersKept, SchedulerArmedKept
  <2>5. Settled(file)' /\ (\A s \in Services : Settled(mem[s]))'
    BY <2>2 DEF AllSettled, Settled
  <2>. QED
    BY <2>2, <2>3, <2>4, <2>5 DEF Inductive
<1>. QED
  BY <1>1, InitInductive, PTL DEF Spec

(* A scheduler at rest with something to wait for has its timer set, whatever
   edits, ticks, runs by hand and reloads came before. *)
THEOREM SchedulerStaysArmed == Spec => []SchedulerArmed
<1>1. Inductive => SchedulerArmed
  BY DEF Inductive
<1>. QED
  BY <1>1, CronInvariance, PTL

(* A marker in the file of a started service belongs to a run in hand: none is
   left to block its job, by a crash, a merge or an edit. *)
THEOREM MarkersAreOwned == Spec => []MarkerHasOwner
<1>1. Inductive => MarkerHasOwner
  <2>. SUFFICES ASSUME Inductive, Alone, boot[cur] # "load", NEW j \in Jobs, file[j].marker # "none"
       PROVE  \E a \in Actors : run[cur, a][j] \in InHand
    BY DEF MarkerHasOwner
  <2>1. Holders(j) # {}
    BY DEF Inductive, Markers
  <2>2. PICK p \in Holders(j) : TRUE
    BY <2>1
  <2>3. p[1] \in Services /\ p[2] \in Actors /\ p = <<p[1], p[2]>> /\ run[p][j] \in InHand
    BY <2>2 DEF Holders
  <2>4. run[p[1], p[2]][j] # "no"
    BY <2>3
  <2>5. p[1] = cur
    BY <2>3, <2>4, HandStarted DEF Alone, Inductive
  <2>6. run[cur, p[2]][j] \in InHand
    BY <2>3, <2>5
  <2>. QED
    BY <2>3, <2>6
<1>. QED
  BY <1>1, CronInvariance, PTL

(* A job does not run twice at a time, tick, start and callers taken together,
   unless its marker was cleared under a run. *)
THEOREM RunsOnceAtATime == Spec => []NotTwiceAtOnce
<1>1. Inductive => NotTwiceAtOnce
  <2>. SUFFICES ASSUME Inductive, Alone, NEW j \in Jobs \ lost PROVE Cardinality(Running(j)) <= 1
    BY DEF NotTwiceAtOnce
  <2>1. \A p \in Running(j) : p \in Holders(j) /\ boot[cur] # "load"
    <3>. TAKE p \in Running(j)
    <3>1. p[1] \in Services /\ p[2] \in Actors /\ p = <<p[1], p[2]>> /\ run[p][j] = "running"
      BY DEF Running
    <3>2. run[p[1], p[2]][j] # "no"
      BY <3>1
    <3>3. boot[p[1]] \notin {"off", "load"}
      BY <3>1, <3>2, HandStarted DEF Inductive
    <3>4. p[1] = cur
      BY <3>1, <3>3 DEF Alone
    <3>5. p \in Holders(j)
      BY <3>1 DEF Holders, Running
    <3>. QED
      BY <3>3, <3>4, <3>5
  <2>2. \A p, q \in Running(j) : p = q
    BY <2>1 DEF Inductive, Markers
  <2>3. CASE Running(j) = {}
    BY <2>3, FS_EmptySet
  <2>4. CASE Running(j) # {}
    <3>1. PICK p \in Running(j) : TRUE
      BY <2>4
    <3>2. Running(j) = {p}
      BY <2>2, <3>1
    <3>3. Cardinality({p}) = 1
      BY FS_Singleton
    <3>. QED
      BY <3>2, <3>3
  <2>. QED
    BY <2>3, <2>4
<1>. QED
  BY <1>1, CronInvariance, PTL

-----------------------------------------------------------------------------
(* A due job is not put off *)

PutOffRightly(j) ==
    \/ \E p \in Services \X Actors : run[p][j] \in Results /\ run'[p][j] = "no"
    \/ \E s \in Services : BootArm(s) \/ BootApply(s) \/ (\E k \in Jobs : Add(s, k))
    \/ \E s \in Services, patch \in {"enable", "reschedule"} : Update(s, j, patch)

LEMMA MaintenanceKeepsDue ==
    ASSUME NEW m \in [Jobs -> Job], NEW j \in Jobs, m[j].next = "due"
    PROVE  Recompute(m, {"none"})[j].next # "future"
BY RecomputeFacts

LEMMA DueCopy ==
    ASSUME TypeOK, Markers, Alone, boot[cur] # "load", NEW j \in Jobs, file[j].next = "due"
    PROVE  mem[cur][j].next = "due" /\ mem[cur] \in [Jobs -> Job]
<1>1. file[j] \in Job /\ mem[cur][j] \in Job /\ mem[cur] \in [Jobs -> Job]
  BY DEF TypeOK
<1>2. Agree(file[j], mem[cur][j])
  BY DEF Markers, Agree
<1>. QED
  BY <1>1, <1>2, AgreeIs

LEMMA DueKept ==
    ASSUME Inductive, Next, Alone, NEW j \in Jobs, Kind[j] # "at",
           file[j].next = "due", file'[j].next = "future"
    PROVE  PutOffRightly(j)
<1>0. TypeOK /\ Phases /\ Markers /\ file \in [Jobs -> Job] /\ file[j] \in Job /\ cur \in Services
  BY DEF Inductive, TypeOK
<1>1. ASSUME file' = file PROVE FALSE
  BY <1>1
<1>2. ASSUME NEW s \in Services, BootLoad(s) PROVE FALSE
  <2>1. file'[j].next = file[j].next
    BY <1>0, <1>2 DEF BootLoad, Persist, Job
  <2>. QED
    BY <2>1
<1>3. ASSUME NEW s \in Services, BootPlan(s) PROVE FALSE
  <2>1. PICK missed \in SUBSET Jobs : \E now \in SUBSET missed : Planned(s, missed, now)
    BY <1>3, BootPlanned
  <2>2. PICK now \in SUBSET missed : Planned(s, missed, now)
    BY <2>1
  <2>3. s = cur /\ boot[cur] # "load"
    BY <1>3 DEF BootPlan, Alone
  <2>4. mem[cur][j].next = "due" /\ mem[cur][j] \in Job
    BY <1>0, <2>3, DueCopy
  <2>5. [mem[cur][j] EXCEPT !.marker = "on"].next = "due"
    BY <2>4 DEF Job
  <2>6. \/ file' = file
        \/ file'[j] = IF j \in now THEN [mem[cur][j] EXCEPT !.marker = "on"] ELSE mem[cur][j]
    BY <2>2, <2>3 DEF Planned, Persist
  <2>. QED
    BY <1>1, <2>4, <2>5, <2>6
<1>4. ASSUME NEW s \in Services, CollectRunnableJobs(s) PROVE FALSE
  <2>. DEFINE due == {k \in Jobs : IsRunnable(file[k])}
  <2>1. file' = IF due = {} THEN Recompute(file, {"none"})
                ELSE [k \in Jobs |-> IF k \in due THEN [file[k] EXCEPT !.marker = "on"] ELSE file[k]]
    BY <1>4 DEF CollectRunnableJobs, RecomputeNextRunsForMaintenance, Persist
  <2>. HIDE DEF due
  <2>2. CASE due = {}
    BY <1>0, <2>1, <2>2, MaintenanceKeepsDue
  <2>3. CASE due # {}
    <3>1. file'[j].next = file[j].next
      BY <1>0, <2>1, <2>3 DEF Job
    <3>. QED
      BY <3>1
  <2>. QED
    BY <2>2, <2>3
<1>5. ASSUME NEW s \in Services, ApplyOutcomes(s) PROVE PutOffRightly(j)
  <2>. DEFINE applied == ApplyAll(file, run[s, "tick"])
  <2>1. file' = Recompute(applied, {"none"}) /\ run' = [run EXCEPT ![<<s, "tick">>] = NoRuns]
    BY <1>5 DEF ApplyOutcomes, RecomputeNextRunsForMaintenance, Persist
  <2>2. applied \in [Jobs -> Job]
    BY <1>0, ApplyAllFacts
  <2>3. run[s, "tick"][j] \notin Results => applied[j] = file[j]
    BY DEF ApplyAll
  <2>. HIDE DEF applied
  <2>4. run[s, "tick"][j] \in Results
    BY <2>1, <2>2, <2>3, MaintenanceKeepsDue
  <2>5. <<s, "tick">> \in Services \X Actors /\ run[<<s, "tick">>][j] \in Results
    BY <2>4
  <2>6. run'[<<s, "tick">>][j] = "no"
    BY <1>0, <2>1, <2>5 DEF TypeOK, NoRuns
  <2>. QED
    BY <2>5, <2>6 DEF PutOffRightly
<1>6. ASSUME NEW s \in Services, Read(s) PROVE FALSE
  <2>1. s = cur /\ boot[cur] # "load"
    BY <1>6 DEF Read, Serving
  <2>2. file' = file \/ file' = Recompute(mem[cur], {"none"})
    BY <1>6, <2>1 DEF Read, RecomputeNextRunsForMaintenance
  <2>3. mem[cur][j].next = "due" /\ mem[cur] \in [Jobs -> Job]
    BY <1>0, <2>1, DueCopy
  <2>. QED
    BY <1>1, <2>2, <2>3, MaintenanceKeepsDue
<1>7. ASSUME NEW s \in Services, NEW m, Edited(s, m)
      PROVE  file' = m /\ mem[s][j].next = "due" /\ mem[s] \in [Jobs -> Job]
  <2>1. s = cur /\ boot[cur] # "load" /\ file' = m
    BY <1>7 DEF Edited, Request, Serving, Persist
  <2>. QED
    BY <1>0, <2>1, DueCopy
<1>8. ASSUME NEW s \in Services, NEW i \in Jobs, Remove(s, i) PROVE FALSE
  <2>. DEFINE m == [mem[s] EXCEPT ![i] = NoJob("gone")]
  <2>1. Edited(s, m)
    BY <1>8 DEF Remove
  <2>2. file' = m /\ mem[s][j].next = "due" /\ mem[s] \in [Jobs -> Job]
    BY <1>7, <2>1
  <2>3. NoJob("gone").next = "none"
    BY DEF NoJob
  <2>. QED
    BY <2>2, <2>3
<1>9. ASSUME NEW s \in Services, NEW i \in Jobs, NEW patch \in {"enable", "disable", "reschedule", "other"},
             Update(s, i, patch)
      PROVE  PutOffRightly(j)
  <2>. DEFINE q == Patched(i, mem[s][i], patch)
              m == [mem[s] EXCEPT ![i] = q]
  <2>1. Edited(s, m)
    BY <1>0, <1>9 DEF Update, TypeOK
  <2>2. file' = m /\ mem[s][j].next = "due" /\ mem[s] \in [Jobs -> Job]
    <3>. HIDE DEF m
    <3>. QED
      BY <1>7, <2>1
  <2>3. i = j
    <3>. HIDE DEF q
    <3>. QED
      BY <2>2
  <2>4. q.next = "future"
    <3>. HIDE DEF q
    <3>. QED
      BY <2>2, <2>3
  <2>5. patch \notin {"disable", "other"}
    <3>1. mem[s][i] \in Job /\ mem[s][i].next = "due"
      BY <2>2, <2>3
    <3>. QED
      BY <2>4, <3>1 DEF Patched, Job
  <2>. QED
    BY <1>9, <2>3, <2>5 DEF PutOffRightly
<1>10. ASSUME NEW s \in Services, NEW c \in Callers, NEW i \in Jobs, ReserveManualRun(s, c, i) PROVE FALSE
  <2>1. s = cur /\ boot[cur] # "load"
    <3>1. boot[s] \notin {"off", "load"}
      BY <1>0, <1>10, HandStarted DEF ReserveManualRun
    <3>. QED
      BY <3>1 DEF Alone
  <2>2. mem[s][j].next = "due" /\ mem[s] \in [Jobs -> Job]
    BY <1>0, <2>1, DueCopy
  <2>. DEFINE q == [mem[s][i] EXCEPT !.marker = "on"]
              m == [mem[s] EXCEPT ![i] = q]
  <2>3. file' = file \/ file' = m
    BY <1>10, <2>2 DEF ReserveManualRun, Persist
  <2>4. i = j => q.next = "due"
    BY <2>2 DEF Job
  <2>. HIDE DEF q
  <2>5. m[j].next = "due"
    BY <2>2, <2>4
  <2>. HIDE DEF m
  <2>. QED
    BY <1>1, <2>3, <2>5
<1>11. ASSUME NEW s \in Services, NEW c \in Callers, NEW i \in Jobs, FinishManualRun(s, c, i)
       PROVE  PutOffRightly(j)
  <2>. DEFINE q == ApplyJobResult(i, mem[s][i], run[s, c][i])
              merged == IF Exists(file[i]) THEN [file EXCEPT ![i] = q] ELSE file
              p == <<s, c>>
  <2>1. file' = file \/ file' = Recompute(merged, {"none"})
    BY <1>11 DEF FinishManualRun, RecomputeNextRunsForMaintenance, Persist
  <2>2. run[p][i] \in Results /\ run' = [run EXCEPT ![p][i] = "no"] /\ p \in Services \X Actors
    BY <1>11 DEF FinishManualRun
  <2>3. q \in Job
    <3>1. mem[s][i] \in Job
      BY <1>0 DEF TypeOK
    <3>. QED
      BY <2>2, <3>1, ApplyJobResultFacts
  <2>. HIDE DEF q, p
  <2>4. merged \in [Jobs -> Job] /\ (i # j => merged[j] = file[j])
    BY <1>0, <2>3
  <2>. HIDE DEF merged
  <2>5. i = j
    BY <1>1, <2>1, <2>4, MaintenanceKeepsDue
  <2>6. run'[p][j] = "no"
    BY <1>0, <2>2, <2>5 DEF TypeOK
  <2>. QED
    BY <2>2, <2>5, <2>6 DEF PutOffRightly
<1>12. ASSUME NEW i \in Jobs, Time(i) PROVE FALSE
  <2>1. Later(j, file[j]).next # "future"
    BY DEF Later
  <2>2. CASE Elapse(i)
    BY <1>0, <1>1, <2>1, <2>2 DEF Elapse
  <2>3. CASE SlotPasses(i)
    BY <1>0, <2>3 DEF SlotPasses
  <2>4. CASE MarkerAges(i)
    <3>1. file'[j].next = file[j].next
      BY <1>0, <2>4 DEF MarkerAges, Job
    <3>. QED
      BY <3>1
  <2>. QED
    BY <1>12, <2>2, <2>3, <2>4 DEF Time
<1>13. ASSUME NEW s \in Services, TickEnds(s) \/ TimerFires(s) \/ RestartCron(s) PROVE FALSE
  BY <1>1, <1>13 DEF TickEnds, TimerFires, RestartCron
<1>14. ASSUME NEW s \in Services, NEW a, NEW i \in Jobs, Begin(s, a, i) \/ End(s, a, i) PROVE FALSE
  BY <1>1, <1>14 DEF Begin, End
<1>15. ASSUME NEW s \in Services, NEW c, NEW i \in Jobs, InspectManualRun(s, c, i) PROVE FALSE
  BY <1>1, <1>15 DEF InspectManualRun
<1>16. ASSUME Crash PROVE FALSE
  BY <1>1, <1>16 DEF Crash
<1>17. ASSUME NEW s \in Services, BootArm(s) \/ BootApply(s) \/ \E i \in Jobs : Add(s, i)
       PROVE  PutOffRightly(j)
  BY <1>17 DEF PutOffRightly
<1>. QED
  BY <1>2, <1>3, <1>4, <1>5, <1>6, <1>8, <1>9, <1>10, <1>11, <1>12, <1>13, <1>14, <1>15, <1>16,
     <1>17 DEF Next, Start, Tick, Manual

(* A recurring job that is due is not put off but by a run of it that ended, a
   start, an addition, or an edit of the job itself. *)
THEOREM DueStaysDue == Spec => DueIsKept
<1>1. Inductive /\ [Next]_vars =>
        [\A j \in Jobs :
           Alone /\ Kind[j] # "at" /\ file[j].next = "due" /\ file'[j].next = "future" => PutOffRightly(j)]_vars
  BY DueKept
<1>. QED
  BY <1>1, CronInvariance, PTL DEF Spec, DueIsKept, PutOffRightly
=============================================================================
