-------------------------- MODULE FollowupQueueProofs --------------------------
(* Theorems about FollowupQueue, for any messages, cap, settings and bounds.

   A message that was accepted is in at most one queue object, once, and what a
   drain runs is in no other object; whatever is done to the queue meanwhile, the
   messages of the run are among the first of its items or gone from them, so
   taking off as many as were run leaves none of them.  As long as the queue of a
   drain is not changed under it, they are exactly the first, and the queue that
   is drained is the one the map holds. *)
EXTENDS FollowupQueue, TLAPS

(* What an object holds or runs was queued and was not run yet. *)
HeldIsFresh ==
    \A q \in Queues : \A m \in Items(queue[q]) \cup Named(queue[q]) :
      at[m] = "queued" /\ ran[m] = 0

NoItemTwice ==
    \A q \in Queues : \A i, j \in DOMAIN queue[q].items :
      queue[q].items[i] = queue[q].items[j] => i = j

InOneObject ==
    \A p, q \in Queues : p # q =>
      (Items(queue[p]) \cup Named(queue[p])) \cap (Items(queue[q]) \cup Named(queue[q])) = {}

(* A message of the run is taken off with the run. *)
RunIsAhead ==
    \A q \in Queues : \A i \in DOMAIN queue[q].items :
      queue[q].items[i] \in Named(queue[q]) => i <= Len(queue[q].inRun)

(* One message is run with a summary, never a batch. *)
OnlyRunsName == \A q \in Queues :
    /\ ~Running(queue[q]) => queue[q].inRun = <<>>
    /\ queue[q].drain = "summary" => Len(queue[q].inRun) = 1

AtMostOnce == \A m \in Msgs : ran[m] <= 1 /\ (at[m] # "queued" => ran[m] = 0)

(* Unless a drain's queue was changed under it: *)
RunIsThePrefix ==
    ~hit => \A q \in Queues : \A i \in DOMAIN queue[q].inRun :
      i \in DOMAIN queue[q].items /\ queue[q].items[i] = queue[q].inRun[i]

DrainsTheMapped == ~hit => \A q \in Queues : queue[q].drain # "no" => q = mapped

GivenUpForGood ==
    ~hit => \A m \in cleared \cup dropped \cup replaced :
      /\ at[m] = "queued" /\ ran[m] = 0
      /\ \A q \in Queues : m \notin Items(queue[q]) \cup Named(queue[q])

Inductive ==
    /\ HeldIsFresh /\ NoItemTwice /\ InOneObject /\ RunIsAhead /\ OnlyRunsName /\ AtMostOnce
    /\ RunIsThePrefix /\ DrainsTheMapped /\ GivenUpForGood
    /\ NoneStranded /\ NothingVanishes

-----------------------------------------------------------------------------
(* Sequences of at most Cap messages *)

Short == {s \in Seq(Msgs) : Len(s) <= Cap}

LEMMA ShortSequences == UNION {[1 .. n -> Msgs] : n \in 0 .. Cap} = Short
<1>1. ASSUME NEW s \in UNION {[1 .. n -> Msgs] : n \in 0 .. Cap} PROVE s \in Short
  <2>1. PICK n \in 0 .. Cap : s \in [1 .. n -> Msgs]  OBVIOUS
  <2>2. n \in Nat /\ n <= Cap  BY FollowupAssumption DEF FollowupAssumption
  <2>3. s \in Seq(Msgs) /\ Len(s) = n  BY <2>1, <2>2
  <2> QED  BY <2>2, <2>3 DEF Short
<1>2. ASSUME NEW s \in Short PROVE s \in UNION {[1 .. n -> Msgs] : n \in 0 .. Cap}
  <2>1. Len(s) \in 0 .. Cap /\ s \in [1 .. Len(s) -> Msgs]
    BY FollowupAssumption DEF FollowupAssumption, Short
  <2> QED  BY <2>1
<1> QED  BY <1>1, <1>2

LEMMA QueueFields ==
  Queue = [items : Short, count : Nat,
           mode : {"followup", "collect"}, policy : {"old", "new", "summarize"},
           drain : {"no", "debounce", "one", "batch", "summary"},
           inRun : Short, individually : BOOLEAN, told : BOOLEAN]
  BY ShortSequences DEF Queue

(* A message more, with the oldest gone if there is no room. *)
LEMMA AppendMakesRoom ==
  ASSUME NEW s \in Short, NEW m \in Msgs
  PROVE  LET t == Append(IF Len(s) >= Cap THEN Tail(s) ELSE s, m)
         IN  /\ t \in Short
             /\ Len(s) < Cap => /\ DOMAIN t = 1 .. Len(s) + 1
                                /\ \A i \in DOMAIN s : t[i] = s[i]
                                /\ t[Len(s) + 1] = m
             /\ Len(s) >= Cap => /\ Len(s) = Cap /\ s # <<>> /\ Head(s) = s[1]
                                 /\ DOMAIN t = 1 .. Cap
                                 /\ \A i \in 1 .. Cap - 1 : t[i] = s[i + 1]
                                 /\ t[Cap] = m
<1> DEFINE t == Append(IF Len(s) >= Cap THEN Tail(s) ELSE s, m)
<1> USE FollowupAssumption DEF FollowupAssumption, Short
<1>1. CASE Len(s) < Cap
  <2>1. t = Append(s, m)  BY <1>1
  <2> QED  BY <1>1, <2>1
<1>2. CASE Len(s) >= Cap
  <2>1. t = Append(Tail(s), m) /\ s # <<>> /\ Len(s) = Cap  BY <1>2
  <2>2. Tail(s) \in Seq(Msgs) /\ Len(Tail(s)) = Cap - 1  BY <2>1
  <2>3. \A i \in 1 .. Cap - 1 : Tail(s)[i] = s[i + 1]  BY <2>1
  <2> QED  BY <1>2, <2>1, <2>2, <2>3
<1> QED  BY <1>1, <1>2

(* The items without the first k *)
LEMMA FrontTakenOff ==
  ASSUME NEW s \in Short, NEW k \in Nat
  PROVE  LET t == SubSeq(s, k + 1, Len(s))
         IN  /\ t \in Short
             /\ \A i \in DOMAIN t : i + k \in DOMAIN s /\ i + k > k /\ t[i] = s[i + k]
             /\ \A i \in DOMAIN s : i > k => i - k \in DOMAIN t /\ t[i - k] = s[i]
<1> DEFINE t == SubSeq(s, k + 1, Len(s))
<1> USE DEF Short
<1>1. CASE k <= Len(s)
  <2>1. t \in Seq(Msgs) /\ Len(t) = Len(s) - k  BY <1>1
  <2>2. \A i \in 1 .. Len(s) - k : t[i] = s[i + k]  BY <1>1
  <2> HIDE DEF t
  <2>3. t \in Short  BY FollowupAssumption, <1>1, <2>1 DEF FollowupAssumption
  <2>4. \A i \in DOMAIN t : i + k \in DOMAIN s /\ i + k > k /\ t[i] = s[i + k]
    BY <1>1, <2>1, <2>2
  <2>5. \A i \in DOMAIN s : i > k => i - k \in DOMAIN t /\ t[i - k] = s[i]
    BY <1>1, <2>1, <2>2
  <2> QED  BY <2>3, <2>4, <2>5 DEF t
<1>2. CASE k > Len(s)
  <2>1. t = <<>>  BY <1>2
  <2> QED  BY FollowupAssumption, <1>2, <2>1 DEF FollowupAssumption
<1> QED  BY <1>1, <1>2

-----------------------------------------------------------------------------
(* What the end of a drain and the beginning of another do to the queues: items
   and runs stay as they are, drains begin on the queue that is mapped. *)

SameContent(o, p) ==
    \A q \in Queues : p[q].items = o[q].items /\ p[q].inRun = o[q].inRun

Begun(o, k, new) ==
    /\ new.queue \in [Queues -> Queue]
    /\ SameContent(o, new.queue)
    /\ new.mapped \in {k, NoQueue}
    /\ new.mapped # k => o[k].items = <<>> /\ o[k].drain = "no"
    /\ new.mapped # NoQueue => new.queue[new.mapped].drain # "no"
    /\ \A q \in Queues :
         \/ new.queue[q].drain = o[q].drain
         \/ /\ q = new.mapped /\ new.queue[q].drain = "debounce" /\ o[q].drain = "no"

LEMMA ScheduledBegins ==
  ASSUME NEW o \in [Queues -> Queue], NEW k \in Queues \cup {NoQueue}
  PROVE  Begun(o, k, Scheduled(o, k))
<1> USE FollowupAssumption DEF FollowupAssumption, Begun, SameContent, Mapped
<1>1. CASE k = NoQueue
  BY <1>1 DEF Scheduled
<1>2. CASE k # NoQueue /\ o[k].drain # "no"
  BY <1>2 DEF Scheduled
<1>3. CASE k # NoQueue /\ o[k].drain = "no" /\ Empty(o[k])
  BY <1>3 DEF Scheduled, Empty
<1>4. CASE k # NoQueue /\ o[k].drain = "no" /\ ~Empty(o[k])
  <2> DEFINE p == [o EXCEPT ![k].drain = "debounce", ![k].individually = FALSE]
  <2>1. k \in Queues  BY <1>4
  <2>2. Scheduled(o, k) = Mapped(p, k)  BY <1>4 DEF Scheduled
  <2>3. \A q \in Queues : q # k => p[q] = o[q]  OBVIOUS
  <2>4. p[k] = [[o[k] EXCEPT !.drain = "debounce"] EXCEPT !.individually = FALSE]  BY <2>1
  <2>5. o[k] \in Queue  BY <2>1
  <2>6. /\ p[k] \in Queue /\ p[k].drain = "debounce"
        /\ p[k].items = o[k].items /\ p[k].inRun = o[k].inRun
    <3> DEFINE half == [o[k] EXCEPT !.drain = "debounce"]
    <3>1. /\ half \in Queue /\ half.drain = "debounce"
          /\ half.items = o[k].items /\ half.inRun = o[k].inRun
      BY <2>5, QueueFields
    <3>2. p[k] = [half EXCEPT !.individually = FALSE]  BY <2>4
    <3> HIDE DEF half, p
    <3> QED  BY <3>1, <3>2, QueueFields
  <2>7. p \in [Queues -> Queue]
    <3>1. p = [q \in Queues |-> p[q]]  OBVIOUS
    <3>2. \A q \in Queues : p[q] \in Queue  BY <2>3, <2>6
    <3> HIDE DEF p
    <3> QED  BY <3>1, <3>2
  <2> HIDE DEF p
  <2> QED  BY <1>4, <2>1, <2>2, <2>3, <2>6, <2>7
<1> QED  BY <1>1, <1>2, <1>3, <1>4

(* A queue object that is stopped draining *)
LEMMA StoppedObject ==
  ASSUME NEW o \in [Queues -> Queue], NEW q \in Queues, NEW d \in {"no", "debounce"}
  PROVE  LET p == [o EXCEPT ![q].drain = d]
         IN  /\ p \in [Queues -> Queue] /\ SameContent(o, p)
             /\ p[q].drain = d /\ Empty(p[q]) = Empty(o[q])
             /\ \A r \in Queues : r # q => p[r] = o[r]
<1> DEFINE p == [o EXCEPT ![q].drain = d]
<1>1. \A r \in Queues : r # q => p[r] = o[r]  OBVIOUS
<1>2. p[q] = [o[q] EXCEPT !.drain = d]  OBVIOUS
<1>3. /\ p[q] \in Queue /\ p[q].drain = d
      /\ p[q].items = o[q].items /\ p[q].inRun = o[q].inRun /\ p[q].count = o[q].count
  BY <1>2, QueueFields
<1>4. p \in [Queues -> Queue]
  <2>1. p = [r \in Queues |-> p[r]]  OBVIOUS
  <2>2. \A r \in Queues : p[r] \in Queue  BY <1>1, <1>3
  <2> HIDE DEF p
  <2> QED  BY <2>1, <2>2
<1> HIDE DEF p
<1>5. SameContent(o, p)  BY <1>1, <1>3 DEF SameContent
<1>6. Empty(p[q]) = Empty(o[q])  BY <1>3 DEF Empty
<1>7. QED  BY <1>1, <1>3, <1>4, <1>5, <1>6 DEF p

(* The end of q's drain, and the next round of it or its end *)
Ended(o, q, new) ==
    /\ new.queue \in [Queues -> Queue]
    /\ SameContent(o, new.queue)
    /\ new.mapped \in {mapped, NoQueue}
    /\ mapped = q /\ new.mapped = NoQueue /\ q # NoQueue => o[q].items = <<>>
    /\ new.queue[q].drain \in {"no", "debounce"}
    /\ new.queue[q].drain = "debounce" => new.mapped = mapped
    /\ mapped = q /\ new.mapped = q => new.queue[q].drain = "debounce"
    /\ \A r \in Queues \ {q} :
         \/ new.queue[r].drain = o[r].drain
         \/ r = new.mapped /\ new.queue[r].drain = "debounce" /\ o[r].drain = "no"

LEMMA FinishedEnds ==
  ASSUME NEW o \in [Queues -> Queue], NEW q \in Queues, mapped \in Queues \cup {NoQueue}
  PROVE  Ended(o, q, Finished(o, q))
<1> DEFINE ended == [o EXCEPT ![q].drain = "no"]
<1>1. /\ ended \in [Queues -> Queue] /\ SameContent(o, ended)
      /\ ended[q].drain = "no"
      /\ \A r \in Queues : r # q => ended[r] = o[r]
  BY StoppedObject
<1>2. Finished(o, q) = IF Empty(o[q]) THEN Mapped(ended, NoQueue) ELSE Scheduled(ended, mapped)
  BY DEF Finished
<1> HIDE DEF ended
<1>3. CASE Empty(o[q])
  BY <1>1, <1>2, <1>3, FollowupAssumption DEF FollowupAssumption, Ended, Mapped, Empty
<1>4. CASE ~Empty(o[q])
  <2>1. Begun(ended, mapped, Scheduled(ended, mapped))  BY <1>1, ScheduledBegins
  <2> DEFINE new == Scheduled(ended, mapped)
  <2>2. Finished(o, q) = new  BY <1>2, <1>4
  <2> HIDE DEF new
  <2>3. SameContent(o, new.queue) /\ new.queue \in [Queues -> Queue]
    BY <1>1, <2>1 DEF Begun, SameContent, new
  <2>4. Begun(ended, mapped, new)  BY <2>1 DEF new
  <2>5. new.mapped \in {mapped, NoQueue}  BY <2>4 DEF Begun
  <2>6. mapped = q /\ new.mapped = NoQueue => o[q].items = <<>>
    BY <1>1, <2>4, FollowupAssumption DEF Begun, SameContent, FollowupAssumption
  <2>7. new.queue[q].drain \in {"no", "debounce"}  BY <1>1, <2>4 DEF Begun
  <2>8. new.queue[q].drain = "debounce" => new.mapped = mapped
    BY <1>1, <2>4, FollowupAssumption DEF Begun, FollowupAssumption
  <2>9. mapped = q /\ new.mapped = q => new.queue[q].drain = "debounce"
    BY <1>1, <2>4, <2>7, FollowupAssumption DEF Begun, FollowupAssumption
  <2>10. \A r \in Queues \ {q} :
           \/ new.queue[r].drain = o[r].drain
           \/ r = new.mapped /\ new.queue[r].drain = "debounce" /\ o[r].drain = "no"
    BY <1>1, <2>4 DEF Begun
  <2> QED  BY <2>2, <2>3, <2>5, <2>6, <2>7, <2>8, <2>9, <2>10 DEF Ended
<1> QED  BY <1>3, <1>4

LEMMA RunsOnEnds ==
  ASSUME NEW o \in [Queues -> Queue], NEW q \in Queues, mapped \in Queues \cup {NoQueue}
  PROVE  Ended(o, q, RunsOn(o, q))
<1> DEFINE p == [o EXCEPT ![q].drain = "debounce"]
<1>1. /\ p \in [Queues -> Queue] /\ SameContent(o, p)
      /\ p[q].drain = "debounce"
      /\ \A r \in Queues : r # q => p[r] = o[r]
  BY StoppedObject
<1>2. RunsOn(o, q) = IF Empty(o[q]) THEN Finished(o, q) ELSE Mapped(p, mapped)
  BY DEF RunsOn
<1> HIDE DEF p
<1>3. CASE Empty(o[q])  BY <1>2, <1>3, FinishedEnds
<1>4. CASE ~Empty(o[q])
  BY <1>1, <1>2, <1>4, FollowupAssumption DEF FollowupAssumption, Ended, Mapped
<1> QED  BY <1>3, <1>4

-----------------------------------------------------------------------------
LEMMA InitHolds == Init => TypeOK /\ Inductive
<1> SUFFICES ASSUME Init PROVE TypeOK /\ Inductive
  OBVIOUS
<1>1. /\ queue \in [Queues -> Queue]
      /\ \A q \in Queues :
           queue[q].items = <<>> /\ queue[q].inRun = <<>> /\ queue[q].drain = "no"
  <2>1. <<>> \in Short  BY FollowupAssumption DEF FollowupAssumption, Short
  <2>2. Created([mode |-> "followup", policy |-> "summarize"]) \in Queue
    BY <2>1, QueueFields DEF Created
  <2> QED  BY <2>2 DEF Init, Created
<1>2. TypeOK
  <2>1. upsets \in 0 .. MaxUpsets
    BY FollowupAssumption DEF FollowupAssumption, Init
  <2>2. ran \in [Msgs -> 0 .. 2]  BY DEF Init
  <2> QED  BY <1>1, <2>1, <2>2 DEF Init, TypeOK
<1>3. Inductive
  BY <1>1, FollowupAssumption
  DEF FollowupAssumption, Init, Inductive, HeldIsFresh, NoItemTwice, InOneObject, RunIsAhead,
      OnlyRunsName, AtMostOnce, RunIsThePrefix, DrainsTheMapped, GivenUpForGood, NoneStranded,
      NothingVanishes, Items, Named
<1> QED  BY <1>2, <1>3

(* While no item moves, what is said of the items stays true. *)
LEMMA SameKeeps ==
  ASSUME TypeOK, Inductive, SameContent(queue, queue'), hit => hit',
         \A m \in Msgs : at[m] = "queued" => at'[m] = "queued",
         UNCHANGED <<ran, cleared, dropped, replaced>>
  PROVE  /\ HeldIsFresh' /\ NoItemTwice' /\ InOneObject' /\ RunIsAhead' /\ AtMostOnce'
         /\ RunIsThePrefix' /\ GivenUpForGood'
<1>1. \A q \in Queues : /\ Items(queue'[q]) = Items(queue[q])
                        /\ Named(queue'[q]) = Named(queue[q])
                        /\ Items(queue[q]) \subseteq Msgs /\ Named(queue[q]) \subseteq Msgs
  <2>1. \A q \in Queues : queue[q].items \in Short /\ queue[q].inRun \in Short
    BY QueueFields DEF TypeOK
  <2> QED  BY <2>1 DEF SameContent, Items, Named, Short
<1>2. HeldIsFresh'  BY <1>1 DEF HeldIsFresh, Inductive
<1>3. NoItemTwice'  BY DEF NoItemTwice, Inductive, SameContent
<1>4. InOneObject'  BY <1>1 DEF InOneObject, Inductive
<1>5. RunIsAhead'  BY <1>1 DEF RunIsAhead, Inductive, SameContent
<1>6. AtMostOnce'  BY DEF AtMostOnce, Inductive
<1>7. RunIsThePrefix'  BY DEF RunIsThePrefix, Inductive, SameContent
<1>8. GivenUpForGood'
  BY <1>1 DEF GivenUpForGood, Inductive, TypeOK
<1> QED  BY <1>2, <1>3, <1>4, <1>5, <1>6, <1>7, <1>8

(* When the drain of q, or a round of it, is over: o is what it leaves. *)
LEMMA EndKeeps ==
  ASSUME TypeOK, Inductive, NEW o \in [Queues -> Queue], NEW q \in Queues,
         queue[q].drain # "no", o[q].inRun = <<>>,
         \A r \in Queues : r # q => o[r] = queue[r],
         Ended(o, q, [queue |-> queue', mapped |-> mapped']), hit' = hit, at' = at
  PROVE  /\ queue' \in [Queues -> Queue] /\ mapped' \in Queues \cup {NoQueue}
         /\ SameContent(o, queue')
         /\ OnlyRunsName' /\ DrainsTheMapped' /\ NoneStranded'
         /\ ~hit => q = mapped /\ (o[q].items # <<>> => mapped' = q)
<1> USE FollowupAssumption DEF FollowupAssumption
<1>1. /\ queue' \in [Queues -> Queue] /\ SameContent(o, queue')
      /\ mapped' \in {mapped, NoQueue}
      /\ mapped = q /\ mapped' = NoQueue => o[q].items = <<>>
      /\ queue'[q].drain \in {"no", "debounce"}
      /\ queue'[q].drain = "debounce" => mapped' = mapped
      /\ mapped = q /\ mapped' = q => queue'[q].drain = "debounce"
      /\ \A r \in Queues \ {q} :
           \/ queue'[r].drain = queue[r].drain
           \/ r = mapped' /\ queue'[r].drain = "debounce" /\ queue[r].drain = "no"
  BY DEF Ended
<1>2. mapped \in Queues \cup {NoQueue}  BY DEF TypeOK
<1>3. OnlyRunsName'
  <2>1. \A r \in Queues \ {q} : queue'[r].inRun = queue[r].inRun
    BY <1>1 DEF SameContent
  <2>2. queue'[q].inRun = <<>>  BY <1>1 DEF SameContent
  <2> QED  BY <1>1, <2>1, <2>2 DEF OnlyRunsName, Inductive, Running
<1>4. ~hit => q = mapped  BY DEF Inductive, DrainsTheMapped
<1>5. DrainsTheMapped'  BY <1>1, <1>4 DEF Inductive, DrainsTheMapped
<1>6. NoneStranded'
  <2>1. ~hit /\ mapped' # NoQueue => queue'[mapped'].drain = "debounce"
    BY <1>1, <1>4
  <2> QED  BY <2>1 DEF NoneStranded
<1> QED  BY <1>1, <1>2, <1>3, <1>4, <1>5, <1>6

(* Nothing is left in a queue object that the map and the drains have lost. *)
LEMMA HeldIsMapped ==
  ASSUME TypeOK, Inductive, ~hit, NEW m \in Msgs, Held(m)
  PROVE  mapped \in Queues /\ m \in Items(queue[mapped])
  BY DEF Held, Inductive, DrainsTheMapped

-----------------------------------------------------------------------------
(* Draining *)

LEMMA DrainStepKeeps ==
  ASSUME TypeOK, Inductive, NEW q \in Queues, DrainStep(q)
  PROVE  TypeOK' /\ Inductive'
<1>1. /\ queue[q].drain = "debounce"
      /\ UNCHANGED <<at, ran, cleared, dropped, replaced, hit, upsets, agentRuns, behind>>
  BY DEF DrainStep, agent
<1>2. queue \in [Queues -> Queue] /\ mapped \in Queues \cup {NoQueue}  BY DEF TypeOK
<1>3. CASE Becomes(Finished(queue, q))
  <2> DEFINE new == Finished(queue, q)
  <2>1. Ended(queue, q, new)  BY <1>2, FinishedEnds
  <2>2. queue' = new.queue /\ mapped' = new.mapped  BY <1>3 DEF Becomes
  <2> HIDE DEF new
  <2>3. Ended(queue, q, [queue |-> queue', mapped |-> mapped'])
    BY <2>1, <2>2 DEF Ended
  <2>4. queue[q].inRun = <<>>  BY <1>1 DEF Inductive, OnlyRunsName, Running
  <2>5. /\ queue' \in [Queues -> Queue] /\ mapped' \in Queues \cup {NoQueue}
        /\ SameContent(queue, queue')
        /\ OnlyRunsName' /\ DrainsTheMapped' /\ NoneStranded'
        /\ ~hit => q = mapped /\ (queue[q].items # <<>> => mapped' = q)
    BY <1>1, <1>2, <2>3, <2>4, EndKeeps
  <2>6. NothingVanishes'
    <3> SUFFICES ASSUME ~hit, NEW m \in Msgs, Held(m) PROVE Held(m)'
      BY <1>1 DEF NothingVanishes, Inductive
    <3>1. m \in Items(queue[q])  BY <2>5, HeldIsMapped
    <3>2. queue[q].items # <<>>  BY <3>1 DEF Items
    <3> QED  BY <2>5, <3>1, <3>2 DEF Held, Items, SameContent
  <2>7. TypeOK'  BY <1>1, <2>5 DEF TypeOK
  <2> QED  BY <1>1, <2>5, <2>6, <2>7, SameKeeps DEF Inductive
<1>4. CASE ~Becomes(Finished(queue, q))
  <2>1. PICK d \in {"one", "batch", "summary"}, told \in BOOLEAN, ind \in BOOLEAN,
             s \in {<<Head(queue[q].items)>>, queue[q].items} :
          /\ queue' = [queue EXCEPT ![q].drain = d, ![q].inRun = s, ![q].told = told,
                                    ![q].individually = ind]
          /\ s = <<Head(queue[q].items)>> => queue[q].items # <<>>
          /\ d = "summary" => s = <<Head(queue[q].items)>>
    <3> DEFINE o       == queue[q]
               singly  == o.mode = "followup" \/ o.individually \/ Mixed(o)
               summary == o.count > 0 /\ o.policy = "summarize"
               what    == IF ~singly THEN "batch"
                          ELSE IF o.mode = "followup" /\ summary THEN "summary" ELSE "one"
               told    == summary /\ what # "one"
               ind     == o.individually \/ (o.mode = "collect" /\ Mixed(o))
               run     == IF singly THEN <<Head(o.items)>> ELSE o.items
    <3>1. /\ ~(Empty(o) \/ (singly /\ o.items = <<>>))
          /\ queue' = [queue EXCEPT ![q].drain = what, ![q].inRun = run, ![q].told = told,
                                    ![q].individually = ind]
      BY <1>4 DEF DrainStep
    <3>2. told \in BOOLEAN /\ what \in {"one", "batch", "summary"}  OBVIOUS
    <3>3. ind \in BOOLEAN
      <4>1. o.individually \in BOOLEAN  BY <1>2, QueueFields
      <4> QED  BY <4>1
    <3>4. run \in {<<Head(o.items)>>, o.items} /\ (run = <<Head(o.items)>> => o.items # <<>>)
      <4>1. CASE singly  BY <3>1, <4>1
      <4>2. CASE ~singly
        <5>1. o.items = <<>> => o.items # <<Head(o.items)>>
          <6>1. Len(<<>>) = 0 /\ Len(<<Head(o.items)>>) = 1  OBVIOUS
          <6> QED  BY <6>1
        <5> QED  BY <4>2, <5>1
      <4> QED  BY <4>1, <4>2
    <3>5. what = "summary" => run = <<Head(o.items)>>  OBVIOUS
    <3> HIDE DEF told, ind, run, what
    <3> QED  BY <3>1, <3>2, <3>3, <3>4, <3>5
  <2>2. mapped' = mapped  BY <1>4 DEF DrainStep
  <2>3. queue[q].items \in Short  BY <1>2, QueueFields
  <2>4. /\ s \in Short
        /\ \A i \in DOMAIN s : i \in DOMAIN queue[q].items /\ queue[q].items[i] = s[i]
    <3>1. CASE s = queue[q].items  BY <2>3, <3>1
    <3>2. CASE s = <<Head(queue[q].items)>>
      <4>1. queue[q].items # <<>> /\ queue[q].items \in Seq(Msgs)  BY <2>1, <2>3, <3>2 DEF Short
      <4>2. Head(queue[q].items) = queue[q].items[1] /\ 1 \in DOMAIN queue[q].items
            /\ Head(queue[q].items) \in Msgs
        BY <4>1
      <4>3. s \in Seq(Msgs) /\ Len(s) = 1 /\ s[1] = queue[q].items[1]
        BY <3>2, <4>2
      <4>4. \A i \in DOMAIN s : i = 1  BY <4>3
      <4>5. s \in Short
        <5>1. 1 <= Cap  BY FollowupAssumption DEF FollowupAssumption
        <5>2. Len(s) <= Cap  BY <4>3, <5>1
        <5> QED  BY ONLY <4>3, <5>2 DEF Short
      <4>6. \A i \in DOMAIN s : i \in DOMAIN queue[q].items /\ queue[q].items[i] = s[i]
        BY <4>2, <4>3, <4>4
      <4> QED  BY <4>5, <4>6
    <3> QED  BY <3>1, <3>2
  <2>5. \A r \in Queues : r # q => queue'[r] = queue[r]  BY <1>2, <2>1
  <2>6. /\ queue'[q].items = queue[q].items /\ queue'[q].inRun = s /\ queue'[q].drain = d
        /\ queue'[q] \in Queue
    <3> DEFINE o1 == [queue[q] EXCEPT !.drain = d]
               o2 == [o1 EXCEPT !.inRun = s]
               o3 == [o2 EXCEPT !.told = told]
    <3>1. queue'[q] = [o3 EXCEPT !.individually = ind]  BY <1>2, <2>1
    <3>2. o1 \in Queue /\ o1.items = queue[q].items /\ o1.drain = d  BY <1>2, QueueFields
    <3> HIDE DEF o1
    <3>3. o2 \in Queue /\ o2.items = queue[q].items /\ o2.drain = d /\ o2.inRun = s
      BY <2>4, <3>2, QueueFields
    <3> HIDE DEF o2
    <3>4. o3 \in Queue /\ o3.items = queue[q].items /\ o3.drain = d /\ o3.inRun = s
      BY <3>3, QueueFields
    <3> HIDE DEF o3
    <3> QED  BY <3>1, <3>4, QueueFields
  <2>7. queue' \in [Queues -> Queue]
    <3>1. queue' = [r \in Queues |-> queue'[r]]  BY <1>2, <2>1
    <3> QED  BY <1>2, <2>5, <2>6, <3>1
  <2>8. TypeOK'  BY <1>1, <2>2, <2>7 DEF TypeOK
  <2>9. /\ \A r \in Queues : Items(queue'[r]) = Items(queue[r])
        /\ \A r \in Queues \ {q} : Named(queue'[r]) = Named(queue[r])
        /\ Named(queue'[q]) \subseteq Items(queue[q])
    BY <2>4, <2>5, <2>6 DEF Items, Named
  <2>10. /\ HeldIsFresh' /\ InOneObject' /\ AtMostOnce' /\ GivenUpForGood'
    BY <1>1, <2>9
    DEF Inductive, HeldIsFresh, InOneObject, AtMostOnce, GivenUpForGood
  <2>11. NoItemTwice' /\ OnlyRunsName'
    <3>1. NoItemTwice'  BY <2>5, <2>6 DEF Inductive, NoItemTwice
    <3>2. Running(queue'[q])  BY <2>6 DEF Running
    <3>3. d = "summary" => Len(s) = 1  BY <2>1
    <3>4. OnlyRunsName'
      BY <2>5, <2>6, <3>2, <3>3 DEF Inductive, OnlyRunsName, Running
    <3> QED  BY <3>1, <3>4
  <2>12. RunIsAhead'
    <3> SUFFICES ASSUME NEW i \in DOMAIN queue[q].items, queue[q].items[i] \in Named(queue'[q])
                 PROVE  i <= Len(s)
      BY <2>5, <2>6, <2>9 DEF Inductive, RunIsAhead
    <3>1. PICK j \in DOMAIN s : queue[q].items[i] = s[j]  BY <2>6 DEF Named
    <3>2. i = j  BY <2>4, <3>1 DEF Inductive, NoItemTwice
    <3> QED  BY <2>4, <3>2 DEF Short
  <2>13. RunIsThePrefix'
    BY <1>1, <2>4, <2>5, <2>6 DEF Inductive, RunIsThePrefix
  <2>14. DrainsTheMapped' /\ NoneStranded'
    BY <1>1, <2>2, <2>5, <2>6 DEF Inductive, DrainsTheMapped, NoneStranded
  <2>15. NothingVanishes'
    BY <1>1, <2>2, <2>5, <2>6, <2>9 DEF Inductive, NothingVanishes, Held
  <2> QED  BY <2>8, <2>10, <2>11, <2>12, <2>13, <2>14, <2>15 DEF Inductive
<1> QED  BY <1>3, <1>4

(* A run that failed leaves its items. *)
LEMMA DrainRunFailsKeeps ==
  ASSUME TypeOK, Inductive, NEW q \in Queues, DrainRunFails(q)
  PROVE  TypeOK' /\ Inductive'
<1> DEFINE o   == [queue EXCEPT ![q].inRun = <<>>]
           new == Finished(o, q)
<1>1. /\ queue[q].drain # "no" /\ queue' = new.queue /\ mapped' = new.mapped
      /\ UNCHANGED <<at, ran, cleared, dropped, replaced, hit, agentRuns, behind>>
      /\ upsets' \in 0 .. MaxUpsets
  BY FollowupAssumption
  DEF FollowupAssumption, DrainRunFails, Running, Becomes, TypeOK, agent
<1>2. queue \in [Queues -> Queue] /\ mapped \in Queues \cup {NoQueue}  BY DEF TypeOK
<1>3. <<>> \in Short  BY FollowupAssumption DEF FollowupAssumption, Short
<1>4. /\ o[q].items = queue[q].items /\ o[q].inRun = <<>>
      /\ o \in [Queues -> Queue] /\ \A r \in Queues : r # q => o[r] = queue[r]
  <2>1. \A r \in Queues : r # q => o[r] = queue[r]  BY <1>2
  <2>2. o[q] = [queue[q] EXCEPT !.inRun = <<>>]  BY <1>2
  <2>3. o[q] \in Queue /\ o[q].items = queue[q].items /\ o[q].inRun = <<>>
    BY <1>2, <1>3, <2>2, QueueFields
  <2>4. o = [r \in Queues |-> o[r]]  BY <1>2
  <2> HIDE DEF o
  <2> QED  BY <1>2, <2>1, <2>3, <2>4
<1> HIDE DEF o
<1>5. Ended(o, q, new)  BY <1>2, <1>4, FinishedEnds
<1> HIDE DEF new
<1>6. Ended(o, q, [queue |-> queue', mapped |-> mapped'])  BY <1>1, <1>5 DEF Ended
<1>7. /\ queue' \in [Queues -> Queue] /\ mapped' \in Queues \cup {NoQueue}
      /\ SameContent(o, queue')
      /\ OnlyRunsName' /\ DrainsTheMapped' /\ NoneStranded'
      /\ ~hit => q = mapped /\ (o[q].items # <<>> => mapped' = q)
  BY <1>1, <1>4, <1>6, EndKeeps
<1>8. /\ \A r \in Queues : queue'[r].items = queue[r].items /\ Items(queue'[r]) = Items(queue[r])
      /\ \A r \in Queues : r # q => /\ queue'[r].inRun = queue[r].inRun
                                    /\ Named(queue'[r]) = Named(queue[r])
      /\ queue'[q].inRun = <<>> /\ Named(queue'[q]) = {}
  BY <1>4, <1>7 DEF SameContent, Items, Named
<1>9. TypeOK'  BY <1>1, <1>7 DEF TypeOK
<1>10. HeldIsFresh' /\ InOneObject' /\ AtMostOnce' /\ GivenUpForGood'
  <2>1. HeldIsFresh'  BY <1>1, <1>8 DEF Inductive, HeldIsFresh
  <2>2. InOneObject'  BY <1>8 DEF Inductive, InOneObject
  <2>3. AtMostOnce'  BY <1>1 DEF Inductive, AtMostOnce
  <2>4. \A r \in Queues : Named(queue'[r]) \subseteq Named(queue[r])  BY <1>8
  <2>5. GivenUpForGood'  BY <1>1, <1>8, <2>4 DEF Inductive, GivenUpForGood
  <2> QED  BY <2>1, <2>2, <2>3, <2>5
<1>11. NoItemTwice'  BY <1>8 DEF Inductive, NoItemTwice
<1>12. RunIsAhead' /\ RunIsThePrefix'
  <2>1. RunIsAhead'  BY <1>8 DEF Inductive, RunIsAhead
  <2>2. RunIsThePrefix'  BY <1>1, <1>8 DEF Inductive, RunIsThePrefix
  <2> QED  BY <2>1, <2>2
<1>13. NothingVanishes'
  <2> SUFFICES ASSUME ~hit, NEW m \in Msgs, Held(m) PROVE Held(m)'
    BY <1>1 DEF NothingVanishes, Inductive
  <2>1. m \in Items(queue[q])  BY <1>7, HeldIsMapped
  <2>2. o[q].items # <<>>  BY <1>4, <2>1 DEF Items
  <2> QED  BY <1>7, <1>8, <2>1, <2>2 DEF Held
<1> QED  BY <1>7, <1>9, <1>10, <1>11, <1>12, <1>13 DEF Inductive

(* One that ended well takes off as many as were run. *)
LEMMA DrainRunEndsKeeps ==
  ASSUME TypeOK, Inductive, NEW q \in Queues, DrainRunEnds(q)
  PROVE  TypeOK' /\ Inductive'
<1> DEFINE k    == Len(queue[q].inRun)
           rest == SubSeq(queue[q].items, k + 1, Len(queue[q].items))
           left == [queue[q] EXCEPT !.items = rest,
                                    !.count = IF queue[q].told THEN 0 ELSE @, !.inRun = <<>>]
           o    == [queue EXCEPT ![q] = left]
           new  == RunsOn(o, q)
           run  == Named(queue[q])
           told == queue[q].drain = "summary"
<1>1. /\ queue[q].drain # "no" /\ queue' = new.queue /\ mapped' = new.mapped
      /\ ran' = [m \in Msgs |-> IF ~told /\ m \in run THEN ran[m] + 1 ELSE ran[m]]
      /\ replaced' = IF told THEN replaced \cup run ELSE replaced
      /\ UNCHANGED <<at, cleared, dropped, hit, upsets, agentRuns, behind>>
  BY DEF DrainRunEnds, Running, Becomes, agent
<1>2. queue \in [Queues -> Queue] /\ mapped \in Queues \cup {NoQueue}  BY DEF TypeOK
<1>3. <<>> \in Short  BY FollowupAssumption DEF FollowupAssumption, Short
<1>4. queue[q].items \in Short /\ queue[q].inRun \in Short /\ k \in Nat
  BY <1>2, QueueFields DEF Short
<1>5. /\ rest \in Short
      /\ \A i \in DOMAIN rest : /\ i + k \in DOMAIN queue[q].items /\ i + k > k
                                /\ rest[i] = queue[q].items[i + k]
      /\ \A i \in DOMAIN queue[q].items :
           i > k => i - k \in DOMAIN rest /\ rest[i - k] = queue[q].items[i]
  <2> HIDE DEF k
  <2> QED  BY <1>4, FrontTakenOff
<1>6. /\ o[q].items = rest /\ o[q].inRun = <<>>
      /\ o \in [Queues -> Queue] /\ \A r \in Queues : r # q => o[r] = queue[r]
  <2>1. \A r \in Queues : r # q => o[r] = queue[r]  BY <1>2
  <2>2. o[q] = left  BY <1>2
  <2>3. left \in Queue /\ left.items = rest /\ left.inRun = <<>>
    <3> HIDE DEF rest
    <3> DEFINE half == [queue[q] EXCEPT !.items = rest]
               c    == IF queue[q].told THEN 0 ELSE half.count
               most == [half EXCEPT !.count = c]
    <3>1. half \in Queue /\ half.items = rest  BY <1>2, <1>5, QueueFields
    <3>2. c \in Nat  BY <3>1, QueueFields
    <3>3. half.count = queue[q].count /\ half.told = queue[q].told  BY <1>2, QueueFields
    <3>4. left = [most EXCEPT !.inRun = <<>>]  BY <1>2, <3>3, QueueFields
    <3> HIDE DEF half, c
    <3>5. most \in Queue /\ most.items = rest  BY <3>1, <3>2, QueueFields
    <3> HIDE DEF most, left
    <3> QED  BY <1>3, <3>4, <3>5, QueueFields
  <2>4. o = [r \in Queues |-> o[r]]  BY <1>2
  <2> HIDE DEF o, left
  <2> QED  BY <1>2, <2>1, <2>2, <2>3, <2>4
<1> HIDE DEF o, left, rest
<1>7. Ended(o, q, new)  BY <1>2, <1>6, RunsOnEnds
<1> HIDE DEF new
<1>8. Ended(o, q, [queue |-> queue', mapped |-> mapped'])  BY <1>1, <1>7 DEF Ended
<1>9. /\ queue' \in [Queues -> Queue] /\ mapped' \in Queues \cup {NoQueue}
      /\ SameContent(o, queue')
      /\ OnlyRunsName' /\ DrainsTheMapped' /\ NoneStranded'
      /\ ~hit => q = mapped /\ (o[q].items # <<>> => mapped' = q)
  BY <1>1, <1>6, <1>8, EndKeeps
<1>10. /\ \A r \in Queues : r # q =>
            /\ queue'[r].items = queue[r].items /\ Items(queue'[r]) = Items(queue[r])
            /\ queue'[r].inRun = queue[r].inRun /\ Named(queue'[r]) = Named(queue[r])
       /\ queue'[q].items = rest /\ queue'[q].inRun = <<>> /\ Named(queue'[q]) = {}
  BY <1>6, <1>9 DEF SameContent, Items, Named
<1>11. /\ Items(queue'[q]) \subseteq Items(queue[q]) \ run
       /\ ~hit => Items(queue[q]) \ run \subseteq Items(queue'[q])
  <2>1. \A i \in DOMAIN queue[q].items : queue[q].items[i] \in run => i <= k
    BY DEF Inductive, RunIsAhead
  <2>2. ASSUME NEW m \in Items(queue'[q]) PROVE m \in Items(queue[q]) \ run
    <3>1. PICK i \in DOMAIN rest : m = rest[i]  BY <1>10, <2>2 DEF Items
    <3>2. i + k \in DOMAIN queue[q].items /\ i + k > k /\ m = queue[q].items[i + k]
      BY <1>5, <3>1
    <3>3. i + k \in Nat  BY <1>4, <3>2 DEF Short
    <3>4. m \in Items(queue[q])  BY <3>2 DEF Items
    <3>5. m \notin run  BY <1>4, <2>1, <3>2, <3>3
    <3> QED  BY <3>4, <3>5
  <2>3. ASSUME NEW m \in Items(queue[q]), m \notin run, ~hit
        PROVE  m \in Items(queue'[q])
    <3>1. PICK i \in DOMAIN queue[q].items : m = queue[q].items[i]  BY <2>3 DEF Items
    <3>2. i > k \/ i \in DOMAIN queue[q].inRun  BY <1>4, <3>1 DEF Short
    <3>3. i \in DOMAIN queue[q].inRun /\ ~hit => m \in run
      BY <3>1 DEF Named, Inductive, RunIsThePrefix
    <3> QED  BY <1>5, <1>10, <2>3, <3>1, <3>2, <3>3 DEF Items
  <2> QED  BY <2>2, <2>3
<1>12. run \subseteq Msgs /\ \A m \in run : at[m] = "queued" /\ ran[m] = 0
  <2>1. run \subseteq Msgs  BY <1>4 DEF Named, Short
  <2>2. \A m \in run : at[m] = "queued" /\ ran[m] = 0
    BY DEF Inductive, HeldIsFresh
  <2> QED  BY <2>1, <2>2
<1>13. /\ \A m \in Msgs : m \notin run => ran'[m] = ran[m]
       /\ \A m \in run : ran'[m] = IF told THEN 0 ELSE 1
  BY <1>1, <1>12
<1>14. \A p \in Queues : Items(queue[p]) \subseteq Msgs /\ Named(queue[p]) \subseteq Msgs
  <2>1. \A p \in Queues : queue[p].items \in Short /\ queue[p].inRun \in Short
    BY <1>2, QueueFields
  <2> QED  BY <2>1 DEF Items, Named, Short
<1>15. \A p \in Queues : /\ Items(queue'[p]) \cap run = {} /\ Named(queue'[p]) \cap run = {}
                         /\ Items(queue'[p]) \subseteq Items(queue[p])
                         /\ Named(queue'[p]) \subseteq Named(queue[p])
  <2>1. \A p \in Queues : p # q => (Items(queue[p]) \cup Named(queue[p])) \cap run = {}
    BY DEF Inductive, InOneObject
  <2> QED  BY <1>10, <1>11, <2>1
<1> HIDE DEF run, k, told
<1>16. AtMostOnce'
  <2>1. ASSUME NEW m \in Msgs PROVE ran'[m] <= 1 /\ (at'[m] # "queued" => ran'[m] = 0)
    <3>1. CASE m \in run  BY <1>1, <1>12, <1>13, <3>1
    <3>2. CASE m \notin run  BY <1>1, <1>13, <3>2 DEF Inductive, AtMostOnce
    <3> QED  BY <3>1, <3>2
  <2> QED  BY <2>1 DEF AtMostOnce
<1>17. TypeOK'
  <2>1. ran' \in [Msgs -> 0 .. 2]
    <3>1. ran' = [m \in Msgs |-> ran'[m]]  BY <1>1
    <3>2. \A m \in Msgs : ran'[m] \in 0 .. 2  BY <1>12, <1>13 DEF TypeOK
    <3> HIDE <1>1
    <3> QED  BY <3>1, <3>2
  <2>2. replaced' \subseteq Msgs  BY <1>1, <1>12 DEF TypeOK
  <2> QED  BY <1>1, <1>9, <2>1, <2>2 DEF TypeOK
<1>18. HeldIsFresh'
  BY <1>1, <1>13, <1>14, <1>15 DEF Inductive, HeldIsFresh
<1>19. InOneObject'
  <2>1. \A p, r \in Queues : p # r =>
           (Items(queue[p]) \cup Named(queue[p])) \cap (Items(queue[r]) \cup Named(queue[r])) = {}
    BY DEF Inductive, InOneObject
  <2> QED  BY <1>15, <2>1 DEF InOneObject
<1>20. NoItemTwice'
  <2>1. \A i, j \in DOMAIN rest : rest[i] = rest[j] => i = j
    <3> SUFFICES ASSUME NEW i \in DOMAIN rest, NEW j \in DOMAIN rest, rest[i] = rest[j]
                 PROVE  i = j
      OBVIOUS
    <3>1. /\ i + k \in DOMAIN queue[q].items /\ j + k \in DOMAIN queue[q].items
          /\ queue[q].items[i + k] = queue[q].items[j + k]
      BY <1>5
    <3>2. i + k = j + k  BY <3>1 DEF Inductive, NoItemTwice
    <3>3. i \in Nat /\ j \in Nat  BY <1>5 DEF Short
    <3> QED  BY <1>4, <3>2, <3>3
  <2> QED  BY <1>10, <2>1 DEF Inductive, NoItemTwice
<1>21. RunIsAhead' /\ RunIsThePrefix'
  <2>1. RunIsAhead'  BY <1>10 DEF Inductive, RunIsAhead
  <2>2. RunIsThePrefix'  BY <1>1, <1>10 DEF Inductive, RunIsThePrefix
  <2> QED  BY <2>1, <2>2
<1>22. GivenUpForGood'
  <2> SUFFICES ASSUME ~hit, NEW m \in cleared' \cup dropped' \cup replaced'
               PROVE  /\ at[m] = "queued" /\ ran'[m] = 0
                      /\ \A p \in Queues : m \notin Items(queue'[p]) \cup Named(queue'[p])
    BY <1>1 DEF GivenUpForGood
  <2>1. CASE m \in cleared \cup dropped \cup replaced
    <3>1. /\ at[m] = "queued" /\ ran[m] = 0 /\ m \in Msgs
          /\ \A p \in Queues : m \notin Items(queue[p]) \cup Named(queue[p])
      BY <2>1 DEF Inductive, GivenUpForGood, TypeOK
    <3>2. m \notin run  BY <3>1 DEF run
    <3> QED  BY <1>13, <1>15, <3>1, <3>2
  <2>2. CASE m \notin cleared \cup dropped \cup replaced
    <3>1. told /\ m \in run  BY <1>1, <2>2
    <3> QED  BY <1>12, <1>13, <1>15, <3>1
  <2> QED  BY <2>1, <2>2
<1>23. NothingVanishes'
  <2> SUFFICES ASSUME ~hit, NEW m \in Msgs, at[m] = "queued"
               PROVE  Held(m)' \/ ran'[m] > 0 \/ m \in cleared' \cup dropped' \cup replaced'
    BY <1>1 DEF NothingVanishes
  <2>1. CASE ran[m] > 0  BY <1>12, <1>13, <2>1 DEF TypeOK
  <2>2. CASE m \in cleared \cup dropped \cup replaced  BY <1>1, <2>2
  <2>3. CASE Held(m) /\ m \in run  BY <1>1, <1>13, <2>3
  <2>4. CASE Held(m) /\ m \notin run
    <3>1. q = mapped /\ m \in Items(queue[q])  BY <1>9, <2>4, HeldIsMapped
    <3>2. m \in Items(queue'[q])  BY <1>11, <2>4, <3>1
    <3>3. rest # <<>>  BY <1>10, <3>2 DEF Items
    <3>4. mapped' = q  BY <1>6, <1>9, <3>3
    <3> QED  BY <3>2, <3>4 DEF Held
  <2> QED  BY <2>1, <2>2, <2>3, <2>4 DEF Inductive, NothingVanishes
<1> QED
  BY <1>9, <1>16, <1>17, <1>18, <1>19, <1>20, <1>21, <1>22, <1>23 DEF Inductive

-----------------------------------------------------------------------------
(* Messages *)

(* Runs that begin and end, and looks at what runs *)
LEMMA OwnKeeps ==
  ASSUME TypeOK, Inductive, NEW m \in Msgs, Arrive(m) \/ RunBegins(m) \/ RunEnds(m)
  PROVE  TypeOK' /\ Inductive'
<1>1. /\ UNCHANGED <<mapped, queue, ran, cleared, dropped, replaced, hit, upsets, agentRuns, behind>>
      /\ at[m] # "queued"
      /\ at[m] \in {"prepares", "runs", "closes"} => at'[m] \in {"prepares", "runs", "closes"}
      /\ \E w \in {"late", "prepares", "runs", "closes"} : at' = [at EXCEPT ![m] = w]
  <2>1. CASE Arrive(m)
    <3>1. PICK active \in Sees : at' = [at EXCEPT ![m] = IF active THEN "late" ELSE "prepares"]
      BY <2>1 DEF Arrive
    <3> QED  BY <2>1, <3>1 DEF Arrive, TypeOK, agent
  <2>2. CASE RunBegins(m)  BY <2>2 DEF RunBegins, TypeOK, agent
  <2>3. CASE RunEnds(m)  BY <2>3 DEF RunEnds, TypeOK, agent
  <2> QED  BY <2>1, <2>2, <2>3
<1>2. \A n \in Msgs : /\ at[n] = "queued" <=> at'[n] = "queued"
                      /\ at[n] \in {"prepares", "runs", "closes"} =>
                           at'[n] \in {"prepares", "runs", "closes"}
  BY <1>1 DEF TypeOK
<1>3. TypeOK'  BY <1>1 DEF TypeOK
<1>4. SameContent(queue, queue')  BY <1>1 DEF SameContent
<1>5. OnlyRunsName' /\ DrainsTheMapped'
  BY <1>1 DEF Inductive, OnlyRunsName, DrainsTheMapped
<1>6. NoneStranded'  BY <1>1, <1>2 DEF Inductive, NoneStranded, Ahead
<1>7. NothingVanishes'
  BY <1>1, <1>2 DEF Inductive, NothingVanishes, Held
<1> QED  BY <1>1, <1>2, <1>3, <1>4, <1>5, <1>6, <1>7, SameKeeps DEF Inductive

(* A run of the agent method touches no queue. *)
LEMMA AgentKeeps ==
  ASSUME TypeOK, Inductive, AgentRunBegins \/ AgentRunEnds
  PROVE  TypeOK' /\ Inductive'
<1>1. /\ UNCHANGED <<mapped, queue, at, ran, cleared, dropped, replaced, hit, upsets, behind>>
      /\ agentRuns' \in BOOLEAN
  BY DEF AgentRunBegins, AgentRunEnds
<1>2. TypeOK'  BY <1>1 DEF TypeOK
<1>3. SameContent(queue, queue')  BY <1>1 DEF SameContent
<1>4. OnlyRunsName' /\ DrainsTheMapped' /\ NoneStranded' /\ NothingVanishes'
  BY <1>1 DEF Inductive, OnlyRunsName, DrainsTheMapped, NoneStranded, Ahead, NothingVanishes, Held
<1> QED  BY <1>1, <1>2, <1>3, <1>4, SameKeeps DEF Inductive

(* The end of a message's own run, or of its preparations, begins a drain. *)
LEMMA FinalizeKeeps ==
  ASSUME TypeOK, Inductive, NEW m \in Msgs, FinalizeWithFollowup(m)
  PROVE  TypeOK' /\ Inductive'
<1> DEFINE new == Scheduled(queue, mapped)
<1>1. /\ UNCHANGED <<ran, cleared, dropped, replaced, hit, upsets, agentRuns, behind>>
      /\ at[m] # "queued" /\ at' = [at EXCEPT ![m] = "over"]
      /\ queue' = new.queue /\ mapped' = new.mapped
  BY DEF FinalizeWithFollowup, Becomes, Scheduled, agent
<1>2. queue \in [Queues -> Queue] /\ mapped \in Queues \cup {NoQueue}  BY DEF TypeOK
<1>3. Begun(queue, mapped, new)  BY <1>2, ScheduledBegins
<1> HIDE DEF new
<1>4. /\ queue' \in [Queues -> Queue] /\ SameContent(queue, queue')
      /\ mapped' \in {mapped, NoQueue}
      /\ mapped' # mapped => queue[mapped].items = <<>> /\ queue[mapped].drain = "no"
      /\ mapped' # NoQueue => queue'[mapped'].drain # "no"
      /\ \A q \in Queues :
           \/ queue'[q].drain = queue[q].drain
           \/ /\ q = mapped' /\ queue'[q].drain = "debounce" /\ queue[q].drain = "no"
  BY <1>1, <1>3 DEF Begun
<1>5. \A n \in Msgs : at[n] = "queued" <=> at'[n] = "queued"
  BY <1>1 DEF TypeOK
<1>6. TypeOK'  BY <1>1, <1>2, <1>4 DEF TypeOK
<1>7. OnlyRunsName' /\ DrainsTheMapped'
  <2>1. OnlyRunsName'
    BY <1>4 DEF Inductive, OnlyRunsName, Running, SameContent
  <2>2. DrainsTheMapped'
    BY <1>1, <1>4, FollowupAssumption DEF FollowupAssumption, Inductive, DrainsTheMapped
  <2> QED  BY <2>1, <2>2
<1>8. NoneStranded'  BY <1>4 DEF NoneStranded
<1>9. NothingVanishes'
  <2> SUFFICES ASSUME ~hit, NEW n \in Msgs, Held(n) PROVE Held(n)'
    BY <1>1, <1>5 DEF NothingVanishes, Inductive
  <2>1. mapped \in Queues /\ n \in Items(queue[mapped])  BY HeldIsMapped
  <2>2. mapped' = mapped  BY <1>4, <2>1 DEF Items
  <2> QED  BY <1>4, <2>1, <2>2 DEF Held, Items, SameContent
<1> QED  BY <1>1, <1>4, <1>5, <1>6, <1>7, <1>8, <1>9, SameKeeps DEF Inductive

(* A queue that is cleared is mapped no longer. *)
LEMMA ClearKeeps ==
  ASSUME TypeOK, Inductive, ClearSessionQueues
  PROVE  TypeOK' /\ Inductive'
<1> DEFINE q == mapped
<1>1. /\ q \in Queues /\ mapped' = NoQueue
      /\ queue' = [queue EXCEPT ![q].items = <<>>, ![q].count = 0]
      /\ cleared' = cleared \cup Items(queue[q])
      /\ hit' = (hit \/ queue[q].drain # "no")
      /\ upsets' \in 0 .. MaxUpsets
      /\ UNCHANGED <<at, ran, dropped, replaced, agentRuns, behind>>
  BY FollowupAssumption
  DEF FollowupAssumption, ClearSessionQueues, Becomes, Mapped, TypeOK, agent
<1>2. queue \in [Queues -> Queue]  BY DEF TypeOK
<1> HIDE DEF q
<1>3. \A r \in Queues : r # q => queue'[r] = queue[r]  BY <1>1, <1>2
<1>4. /\ queue'[q] \in Queue /\ queue'[q].items = <<>>
      /\ queue'[q].inRun = queue[q].inRun /\ queue'[q].drain = queue[q].drain
  <2> DEFINE half == [queue[q] EXCEPT !.items = <<>>]
  <2>1. queue'[q] = [half EXCEPT !.count = 0]  BY <1>1, <1>2
  <2>2. <<>> \in Short  BY FollowupAssumption DEF FollowupAssumption, Short
  <2>3. /\ half \in Queue /\ half.items = <<>> /\ half.inRun = queue[q].inRun
        /\ half.drain = queue[q].drain
    BY <1>1, <1>2, <2>2, QueueFields
  <2> HIDE DEF half
  <2> QED  BY <2>1, <2>3, QueueFields
<1>5. queue' \in [Queues -> Queue]
  <2>1. queue' = [r \in Queues |-> queue'[r]]  BY <1>1, <1>2
  <2> QED  BY <1>2, <1>3, <1>4, <2>1
<1>6. /\ Items(queue'[q]) = {} /\ Named(queue'[q]) = Named(queue[q])
      /\ \A r \in Queues : Items(queue[r]) \subseteq Msgs /\ Named(queue[r]) \subseteq Msgs
  <2>1. \A r \in Queues : queue[r].items \in Short /\ queue[r].inRun \in Short
    BY <1>2, QueueFields
  <2> QED  BY <1>4, <2>1 DEF Items, Named, Short
<1>7. TypeOK'  BY <1>1, <1>5, <1>6 DEF TypeOK
<1>8. HeldIsFresh' /\ AtMostOnce' /\ GivenUpForGood'
  <2>1. \A r \in Queues : /\ Items(queue'[r]) \subseteq Items(queue[r])
                          /\ Named(queue'[r]) \subseteq Named(queue[r])
    BY <1>3, <1>6
  <2>2. HeldIsFresh' /\ AtMostOnce'
    BY <1>1, <2>1 DEF Inductive, HeldIsFresh, AtMostOnce
  <2> SUFFICES ASSUME ~hit', NEW m \in cleared' \cup dropped' \cup replaced'
               PROVE  /\ at[m] = "queued" /\ ran[m] = 0
                      /\ \A r \in Queues : m \notin Items(queue'[r]) \cup Named(queue'[r])
    BY <1>1, <2>2 DEF GivenUpForGood
  <2>3. CASE m \in cleared \cup dropped \cup replaced
    BY <1>1, <2>1, <2>3 DEF Inductive, GivenUpForGood
  <2>4. CASE m \in Items(queue[q])
    <3>1. at[m] = "queued" /\ ran[m] = 0  BY <1>1, <2>4 DEF Inductive, HeldIsFresh
    <3>2. \A r \in Queues : r # q => m \notin Items(queue[r]) \cup Named(queue[r])
      BY <1>1, <2>4 DEF Inductive, InOneObject
    <3>3. queue[q].inRun = <<>>  BY <1>1 DEF Inductive, OnlyRunsName, Running
    <3>4. Named(queue[q]) = {}  BY <3>3 DEF Named
    <3> QED  BY <1>3, <1>6, <2>1, <3>1, <3>2, <3>4
  <2> QED  BY <1>1, <2>3, <2>4
<1>9. InOneObject'
  <2>1. \A r \in Queues : Items(queue'[r]) \cup Named(queue'[r])
                            \subseteq Items(queue[r]) \cup Named(queue[r])
    BY <1>3, <1>6
  <2>2. \A p, r \in Queues : p # r =>
          (Items(queue[p]) \cup Named(queue[p])) \cap (Items(queue[r]) \cup Named(queue[r])) = {}
    BY DEF Inductive, InOneObject
  <2> QED  BY <2>1, <2>2 DEF InOneObject
<1>10. NoItemTwice' /\ RunIsAhead'
  BY <1>3, <1>4 DEF Inductive, NoItemTwice, RunIsAhead
<1>11. OnlyRunsName'
  BY <1>3, <1>4 DEF Inductive, OnlyRunsName, Running
<1>12. RunIsThePrefix'
  <2>1. ~hit' => queue[q].inRun = <<>>
    BY <1>1 DEF Inductive, OnlyRunsName, Running
  <2>2. ~hit' => ~hit  BY <1>1
  <2> SUFFICES ASSUME ~hit', NEW r \in Queues, NEW i \in DOMAIN queue'[r].inRun
               PROVE  i \in DOMAIN queue'[r].items /\ queue'[r].items[i] = queue'[r].inRun[i]
    BY DEF RunIsThePrefix
  <2>3. CASE r # q
    BY <1>3, <2>2, <2>3 DEF Inductive, RunIsThePrefix
  <2>4. CASE r = q
    <3>1. queue'[r].inRun = <<>>  BY <1>4, <2>1, <2>4
    <3> QED  BY <3>1
  <2> QED  BY <2>3, <2>4
<1>13. DrainsTheMapped' /\ NoneStranded'
  BY <1>1, <1>3, <1>4 DEF q, Inductive, DrainsTheMapped, NoneStranded
<1>14. NothingVanishes'
  <2> SUFFICES ASSUME ~hit', NEW m \in Msgs, Held(m) PROVE m \in cleared'
    BY <1>1 DEF NothingVanishes, Inductive
  <2> QED  BY <1>1, HeldIsMapped DEF q
<1> QED
  BY <1>7, <1>8, <1>9, <1>10, <1>11, <1>12, <1>13, <1>14 DEF Inductive

(* What is put at q, the queue found or a new one, and drained unless something
   runs *)
Put(q, x, active) ==
    /\ queue' \in [Queues -> Queue]
    /\ \A r \in Queues : r # q => /\ queue'[r].items = queue[r].items
                                  /\ queue'[r].inRun = queue[r].inRun
                                  /\ queue'[r].drain = queue[r].drain
    /\ queue'[q].items = x.items /\ queue'[q].inRun = x.inRun
    /\ queue'[q].drain \in {x.drain, "debounce"}
    /\ x.drain # "no" => queue'[q].drain = x.drain
    /\ mapped' \in {q, NoQueue}
    /\ mapped' = NoQueue => x.items = <<>> /\ queue'[q].drain = "no"
    /\ ~active /\ mapped' = q => queue'[q].drain # "no"

LEMMA PutBegins ==
  ASSUME queue \in [Queues -> Queue], NEW q \in Queues, NEW x \in Queue, NEW active \in BOOLEAN,
         Becomes(IF active THEN Mapped([queue EXCEPT ![q] = x], q)
                 ELSE Scheduled([queue EXCEPT ![q] = x], q))
  PROVE  Put(q, x, active)
<1> USE FollowupAssumption DEF FollowupAssumption
<1> DEFINE a == [queue EXCEPT ![q] = x]
<1>1. a \in [Queues -> Queue] /\ a[q] = x /\ \A r \in Queues : r # q => a[r] = queue[r]
  OBVIOUS
<1>2. CASE active
  <2>1. queue' = a /\ mapped' = q  BY <1>2 DEF Becomes, Mapped
  <2> HIDE DEF a
  <2> QED  BY <1>1, <1>2, <2>1 DEF Put
<1>3. CASE ~active
  <2> DEFINE new == Scheduled(a, q)
  <2>1. queue' = new.queue /\ mapped' = new.mapped  BY <1>3 DEF Becomes
  <2> HIDE DEF a
  <2>2. Begun(a, q, new)  BY <1>1, ScheduledBegins
  <2> HIDE DEF new
  <2>3. /\ queue' \in [Queues -> Queue] /\ SameContent(a, queue')
        /\ mapped' \in {q, NoQueue}
        /\ mapped' # q => a[q].items = <<>> /\ a[q].drain = "no"
        /\ mapped' # NoQueue => queue'[mapped'].drain # "no"
        /\ \A r \in Queues :
             \/ queue'[r].drain = a[r].drain
             \/ /\ r = mapped' /\ queue'[r].drain = "debounce" /\ a[r].drain = "no"
    BY <2>1, <2>2 DEF Begun
  <2>4. queue'[q].drain \in {x.drain, "debounce"} /\ (x.drain # "no" => queue'[q].drain = x.drain)
    BY <1>1, <2>3
  <2>5. mapped' = NoQueue => x.items = <<>> /\ queue'[q].drain = "no"
    BY <1>1, <2>3
  <2>6. \A r \in Queues : r # q => /\ queue'[r].items = queue[r].items
                                   /\ queue'[r].inRun = queue[r].inRun
                                   /\ queue'[r].drain = queue[r].drain
    BY <1>1, <2>3 DEF SameContent
  <2>7. queue'[q].items = x.items /\ queue'[q].inRun = x.inRun
    BY <1>1, <2>3 DEF SameContent
  <2> QED  BY <1>1, <1>3, <2>3, <2>4, <2>5, <2>6, <2>7 DEF Put
<1> QED  BY <1>2, <1>3

(* The queue that a message finds is the mapped one or empty. *)
LEMMA FoundIs ==
  ASSUME TypeOK, Inductive, NEW q \in Queues, NEW set \in Settings, CanHold(q)
  PROVE  /\ Found(q, set) \in Queue
         /\ q = mapped => /\ Found(q, set).items = queue[q].items
                          /\ Found(q, set).inRun = queue[q].inRun
                          /\ Found(q, set).drain = queue[q].drain
         /\ q # mapped => /\ mapped = NoQueue /\ queue[q].drain = "no" /\ queue[q].inRun = <<>>
                          /\ Found(q, set).items = <<>> /\ Found(q, set).inRun = <<>>
                          /\ Found(q, set).drain = "no" /\ Found(q, set).count = 0
         /\ Found(q, set).policy = set.policy
<1>1. queue \in [Queues -> Queue] /\ queue[q] \in Queue  BY DEF TypeOK
<1>2. /\ set.mode \in {"followup", "collect"} /\ set.policy \in {"old", "new", "summarize"}
  BY FollowupAssumption DEF FollowupAssumption
<1>3. q # NoQueue  BY FollowupAssumption DEF FollowupAssumption
<1>4. CASE mapped = NoQueue
  <2>1. <<>> \in Short  BY FollowupAssumption DEF FollowupAssumption, Short
  <2>2. Found(q, set) = Created(set)  BY <1>4 DEF Found
  <2>3. Created(set) \in Queue  BY <1>2, <2>1, QueueFields DEF Created
  <2>4. queue[q].drain = "no"  BY <1>3, <1>4 DEF CanHold
  <2>5. queue[q].inRun = <<>>  BY <2>4 DEF Inductive, OnlyRunsName, Running
  <2> QED  BY <1>3, <1>4, <2>2, <2>3, <2>4, <2>5 DEF Created
<1>5. CASE mapped # NoQueue
  <2>1. q = mapped  BY <1>5 DEF CanHold
  <2> DEFINE half == [queue[q] EXCEPT !.mode = set.mode]
  <2>2. Found(q, set) = [half EXCEPT !.policy = set.policy]  BY <1>5 DEF Found
  <2>3. /\ half \in Queue /\ half.items = queue[q].items /\ half.inRun = queue[q].inRun
        /\ half.drain = queue[q].drain
    BY <1>1, <1>2, QueueFields
  <2> HIDE DEF half
  <2> QED  BY <1>2, <2>1, <2>2, <2>3, QueueFields
<1> QED  BY <1>4, <1>5

(* What runs, seen while the queue of no drain was changed, is a run of the mapped
   queue or one that a message or the agent method started. *)
LEMMA SeenRuns ==
  ASSUME TypeOK, Inductive, ~hit, TRUE \in Sees
  PROVE  \/ mapped \in Queues /\ queue[mapped].drain # "no"
         \/ agentRuns \/ \E m \in Msgs : at[m] = "runs"
<1>1. CASE Active  BY <1>1 DEF Active
<1>2. CASE \E q \in Queues : Running(queue[q])
  BY <1>2 DEF Running, Inductive, DrainsTheMapped
<1> QED  BY <1>1, <1>2 DEF Sees, Active

(* A message that is refused leaves the queue it found, or a new one, as it is. *)
LEMMA FoundKeeps ==
  ASSUME TypeOK, Inductive, NEW q \in Queues, NEW set \in Settings, NEW active \in Sees,
         CanHold(q), Put(q, Found(q, set), active),
         UNCHANGED <<ran, cleared, dropped, replaced, upsets, agentRuns, behind>>,
         hit => hit', hit' \in BOOLEAN,
         \A n \in Msgs : /\ at[n] = "queued" <=> at'[n] = "queued"
                         /\ at[n] \in {"prepares", "runs", "closes"} => at'[n] = at[n],
         at' \in [Msgs -> {"away", "late", "prepares", "runs", "closes", "over", "queued", "refused"}]
  PROVE  TypeOK' /\ Inductive'
<1> DEFINE x == Found(q, set)
<1>1. /\ queue' \in [Queues -> Queue] /\ mapped' \in {q, NoQueue}
      /\ \A r \in Queues : r # q => /\ queue'[r].items = queue[r].items
                                    /\ queue'[r].inRun = queue[r].inRun
                                    /\ queue'[r].drain = queue[r].drain
      /\ queue'[q].items = x.items /\ queue'[q].inRun = x.inRun
      /\ queue'[q].drain \in {x.drain, "debounce"}
      /\ x.drain # "no" => queue'[q].drain = x.drain
      /\ mapped' = NoQueue => x.items = <<>> /\ queue'[q].drain = "no"
      /\ ~active /\ mapped' = q => queue'[q].drain # "no"
  BY DEF Put
<1>2. /\ q = mapped => x.items = queue[q].items /\ x.inRun = queue[q].inRun /\ x.drain = queue[q].drain
      /\ q # mapped => /\ mapped = NoQueue /\ queue[q].drain = "no" /\ queue[q].inRun = <<>>
                       /\ x.items = <<>> /\ x.inRun = <<>> /\ x.drain = "no"
  BY FoundIs
<1> HIDE DEF x
<1>3. /\ \A r \in Queues : queue'[r].inRun = queue[r].inRun
      /\ \A r \in Queues : queue'[r].items = queue[r].items \/ (queue'[r].items = <<>> /\ r = q)
      /\ q = mapped => queue'[q].items = queue[q].items
  BY <1>1, <1>2
<1>4. \A r \in Queues : /\ Items(queue'[r]) \subseteq Items(queue[r])
                        /\ Named(queue'[r]) = Named(queue[r])
                        /\ Items(queue[r]) \subseteq Msgs /\ Named(queue[r]) \subseteq Msgs
  <2>1. \A r \in Queues : queue[r].items \in Short /\ queue[r].inRun \in Short
    BY QueueFields DEF TypeOK
  <2>2. \A r \in Queues : Items(queue[r]) \subseteq Msgs /\ Named(queue[r]) \subseteq Msgs
    BY <2>1 DEF Items, Named, Short
  <2>3. \A r \in Queues : Items(queue'[r]) \subseteq Items(queue[r])  BY <1>3 DEF Items
  <2>4. \A r \in Queues : Named(queue'[r]) = Named(queue[r])  BY <1>3 DEF Named
  <2> QED  BY <2>2, <2>3, <2>4
<1>5. TypeOK'
  <2>1. mapped' \in Queues \cup {NoQueue}  BY <1>1
  <2> QED  BY <1>1, <2>1 DEF TypeOK
<1>6. HeldIsFresh' /\ AtMostOnce'
  BY <1>4 DEF Inductive, HeldIsFresh, AtMostOnce
<1>7. GivenUpForGood'
  BY <1>4 DEF Inductive, GivenUpForGood, TypeOK
<1>8. InOneObject'
  <2>1. \A p, r \in Queues : p # r =>
          (Items(queue[p]) \cup Named(queue[p])) \cap (Items(queue[r]) \cup Named(queue[r])) = {}
    BY DEF Inductive, InOneObject
  <2>2. \A r \in Queues : Items(queue'[r]) \cup Named(queue'[r])
                            \subseteq Items(queue[r]) \cup Named(queue[r])
    BY <1>4
  <2> QED  BY <2>1, <2>2 DEF InOneObject
<1>9. NoItemTwice' /\ RunIsAhead'
  <2>1. NoItemTwice'  BY <1>3 DEF Inductive, NoItemTwice
  <2>2. RunIsAhead'  BY <1>3, <1>4 DEF Inductive, RunIsAhead
  <2> QED  BY <2>1, <2>2
<1>10. \A r \in Queues : \/ queue'[r].drain = queue[r].drain
                         \/ r = q /\ queue[r].drain = "no" /\ queue'[r].drain = "debounce"
  BY <1>1, <1>2
<1>11. OnlyRunsName'
  <2>1. \A r \in Queues : ~Running(queue'[r]) => ~Running(queue[r])  BY <1>10 DEF Running
  <2>2. \A r \in Queues : queue'[r].drain = "summary" => queue[r].drain = "summary"  BY <1>10
  <2> QED  BY <1>3, <2>1, <2>2 DEF Inductive, OnlyRunsName
<1>12. RunIsThePrefix'
  <2> SUFFICES ASSUME ~hit, NEW r \in Queues, NEW i \in DOMAIN queue[r].inRun
               PROVE  i \in DOMAIN queue'[r].items /\ queue'[r].items[i] = queue[r].inRun[i]
    BY <1>3 DEF RunIsThePrefix
  <2>1. CASE r = q /\ q # mapped
    <3>1. queue[r].inRun = <<>>  BY <1>2, <2>1
    <3> QED  BY <3>1
  <2>2. CASE r # q \/ q = mapped
    <3>1. queue'[r].items = queue[r].items  BY <1>1, <1>3, <2>2
    <3> QED  BY <3>1 DEF Inductive, RunIsThePrefix
  <2> QED  BY <2>1, <2>2
<1>13. DrainsTheMapped'
  <2> SUFFICES ASSUME ~hit, NEW r \in Queues, queue'[r].drain # "no" PROVE r = mapped'
    BY DEF DrainsTheMapped
  <2>1. CASE r = q
    BY <1>1, <2>1
  <2>2. CASE r # q
    <3>1. r = mapped  BY <1>1, <2>2 DEF Inductive, DrainsTheMapped
    <3> QED  BY <1>2, <2>2, <3>1, FollowupAssumption DEF FollowupAssumption
  <2> QED  BY <2>1, <2>2
<1>14. NoneStranded'
  <2> SUFFICES ASSUME ~hit, mapped' # NoQueue, queue'[mapped'].drain = "no"
               PROVE  Ahead' \/ Items(queue'[mapped']) \subseteq behind'
    BY DEF NoneStranded
  <2>1. mapped' = q /\ queue'[q].items = x.items  BY <1>1
  <2>2. CASE q = mapped
    <3>1. queue[mapped].drain = "no"  BY <1>10, <2>1, <2>2
    <3>2. Items(queue'[q]) = Items(queue[q])  BY <1>3, <2>2 DEF Items
    <3>3. Ahead \/ Items(queue[q]) \subseteq behind
      BY <2>2, <3>1, FollowupAssumption DEF FollowupAssumption, Inductive, NoneStranded
    <3>4. Ahead => Ahead'  BY DEF Ahead
    <3> QED  BY <2>1, <3>2, <3>3, <3>4
  <2>3. CASE q # mapped
    <3>1. Items(queue'[q]) = {}  BY <1>2, <2>1, <2>3 DEF Items
    <3> QED  BY <2>1, <3>1
  <2> QED  BY <2>2, <2>3
<1>15. NothingVanishes'
  <2> SUFFICES ASSUME ~hit, NEW n \in Msgs, Held(n) PROVE Held(n)'
    BY DEF NothingVanishes, Inductive
  <2>1. mapped \in Queues /\ n \in Items(queue[mapped])  BY HeldIsMapped
  <2>2. q = mapped  BY <1>2, <2>1, FollowupAssumption DEF FollowupAssumption
  <2>3. n \in Items(queue'[q])  BY <1>3, <2>1, <2>2 DEF Items
  <2>4. x.items # <<>>  BY <1>1, <2>3 DEF Items
  <2> QED  BY <1>1, <2>3, <2>4 DEF Held
<1> QED
  BY <1>5, <1>6, <1>7, <1>8, <1>9, <1>11, <1>12, <1>13, <1>14, <1>15 DEF Inductive

LEMMA RedeliverKeeps ==
  ASSUME TypeOK, Inductive, NEW m \in Msgs, Redeliver(m)
  PROVE  TypeOK' /\ Inductive'
<1>1. PICK q \in Queues, set \in Settings, active \in Sees :
        /\ CanHold(q)
        /\ Becomes(IF active THEN Mapped([queue EXCEPT ![q] = Found(q, set)], q)
                   ELSE Scheduled([queue EXCEPT ![q] = Found(q, set)], q))
        /\ hit' = (hit \/ Unsettles(q, set))
  BY DEF Redeliver
<1>2. UNCHANGED <<at, ran, cleared, dropped, replaced, upsets, agentRuns, behind>>  BY DEF Redeliver, agent
<1>3. active \in BOOLEAN  BY <1>1 DEF Sees, Active
<1>4. Found(q, set) \in Queue /\ queue \in [Queues -> Queue]  BY <1>1, FoundIs DEF TypeOK
<1>5. Put(q, Found(q, set), active)  BY <1>1, <1>3, <1>4, PutBegins
<1>6. (hit => hit') /\ hit' \in BOOLEAN  BY <1>1 DEF TypeOK
<1> QED  BY <1>1, <1>2, <1>5, <1>6, FoundKeeps DEF TypeOK

(* A message that is accepted is the last of the items; with no room left, the
   first one went. *)
LEMMA AcceptedIs ==
  ASSUME NEW f \in Queue, NEW m \in Msgs
  PROVE  LET x == Accepted(f, m)
             d == IF Len(f.items) >= Cap THEN 1 ELSE 0
         IN  /\ x \in Queue /\ x.inRun = f.inRun /\ x.drain = f.drain
             /\ x.items # <<>> /\ \E i \in DOMAIN x.items : x.items[i] = m
             /\ \A i \in DOMAIN x.items :
                  \/ i = Len(x.items) /\ x.items[i] = m
                  \/ i + d \in DOMAIN f.items /\ x.items[i] = f.items[i + d]
             /\ \A j \in DOMAIN f.items : j > d => /\ j - d \in DOMAIN x.items
                                                   /\ x.items[j - d] = f.items[j]
             /\ DOMAIN f.items \subseteq Nat \ {0} /\ DOMAIN x.items \subseteq Nat
             /\ d = 1 => 1 \in DOMAIN f.items /\ Head(f.items) = f.items[1]
<1> DEFINE s == f.items
           t == Append(IF Len(s) >= Cap THEN Tail(s) ELSE s, m)
           d == IF Len(s) >= Cap THEN 1 ELSE 0
           x == Accepted(f, m)
<1>1. s \in Short  BY QueueFields
<1>2. /\ x.items = t /\ x.inRun = f.inRun /\ x.drain = f.drain /\ x \in Queue
  <2>1. t \in Short  BY <1>1, AppendMakesRoom
  <2> DEFINE half == [f EXCEPT !.items = t]
             c    == IF Len(s) >= Cap /\ f.policy = "summarize" THEN f.count + 1 ELSE f.count
  <2>2. half \in Queue /\ half.items = t /\ half.inRun = f.inRun /\ half.drain = f.drain
    BY <2>1, QueueFields
  <2>3. c \in Nat
    <3>1. f.count \in Nat  BY QueueFields
    <3> QED  BY <3>1
  <2>4. x = [half EXCEPT !.count = c]
    BY QueueFields DEF Accepted
  <2> HIDE DEF half, c, x, t
  <2> QED  BY <2>2, <2>3, <2>4, QueueFields
<1> HIDE DEF x
<1>3. CASE Len(s) < Cap
  <2>1. /\ DOMAIN t = 1 .. Len(s) + 1 /\ t \in Short
        /\ \A i \in DOMAIN s : t[i] = s[i]
        /\ t[Len(s) + 1] = m
    BY <1>1, <1>3, AppendMakesRoom
  <2>2. Len(t) = Len(s) + 1 /\ DOMAIN s = 1 .. Len(s) /\ Len(s) \in Nat
    BY <1>1, <2>1 DEF Short
  <2>3. d = 0  BY <1>3, <2>2, FollowupAssumption DEF FollowupAssumption
  <2> HIDE DEF t, d, s
  <2>4. t # <<>>  BY <2>2
  <2>5. \E i \in DOMAIN t : t[i] = m  BY <2>1, <2>2
  <2>6. \A i \in DOMAIN t : \/ i = Len(t) /\ t[i] = m
                            \/ i + d \in DOMAIN s /\ t[i] = s[i + d]
    BY <2>1, <2>2, <2>3
  <2>7. \A j \in DOMAIN s : j > d => j - d \in DOMAIN t /\ t[j - d] = s[j]
    BY <2>1, <2>2, <2>3
  <2>8. DOMAIN s \subseteq Nat \ {0} /\ DOMAIN t \subseteq Nat  BY <2>1, <2>2
  <2> QED  BY <1>2, <2>3, <2>4, <2>5, <2>6, <2>7, <2>8 DEF s, d, x
<1>4. CASE Len(s) >= Cap
  <2>1. /\ Len(s) = Cap /\ s # <<>> /\ Head(s) = s[1] /\ t \in Short
        /\ DOMAIN t = 1 .. Cap
        /\ \A i \in 1 .. Cap - 1 : t[i] = s[i + 1]
        /\ t[Cap] = m
    BY <1>1, <1>4, AppendMakesRoom
  <2>2. Len(t) = Cap /\ DOMAIN s = 1 .. Cap /\ Cap \in Nat /\ Cap >= 1
    BY <1>1, <2>1, FollowupAssumption DEF FollowupAssumption, Short
  <2>3. d = 1  BY <1>4
  <2> HIDE DEF t, d, s
  <2>4. t # <<>>  BY <2>2
  <2>5. \E i \in DOMAIN t : t[i] = m  BY <2>1, <2>2
  <2>6. \A i \in DOMAIN t : \/ i = Len(t) /\ t[i] = m
                            \/ i + d \in DOMAIN s /\ t[i] = s[i + d]
    BY <2>1, <2>2, <2>3
  <2>7. \A j \in DOMAIN s : j > d => j - d \in DOMAIN t /\ t[j - d] = s[j]
    BY <2>1, <2>2, <2>3
  <2>8. DOMAIN s \subseteq Nat \ {0} /\ DOMAIN t \subseteq Nat  BY <2>1, <2>2
  <2> QED  BY <1>2, <2>1, <2>2, <2>3, <2>4, <2>5, <2>6, <2>7, <2>8 DEF s, d, x
<1> QED
  <2>1. Len(s) < Cap \/ Len(s) >= Cap
    BY <1>1, FollowupAssumption DEF FollowupAssumption, Short
  <2> QED  BY <1>3, <1>4, <2>1

LEMMA AcceptedKeeps ==
  ASSUME TypeOK, Inductive, NEW q \in Queues, NEW set \in Settings, NEW active \in Sees,
         NEW m \in Msgs, at[m] = "late", CanHold(q),
         Put(q, Accepted(Found(q, set), m), active),
         UNCHANGED <<ran, cleared, replaced, upsets, agentRuns>>,
         at' = [at EXCEPT ![m] = "queued"],
         dropped' = IF Len(Found(q, set).items) >= Cap THEN dropped \cup {Head(Found(q, set).items)}
                    ELSE dropped,
         hit' = (hit \/ (Len(Found(q, set).items) >= Cap /\ Running(Found(q, set)))
                     \/ Unsettles(q, set)),
         behind' = IF agentRuns /\ active /\ LeftAtRest(Found(q, set))
                   THEN behind \cup {m} ELSE behind
  PROVE  TypeOK' /\ Inductive'
<1> DEFINE f == Found(q, set)
           x == Accepted(f, m)
           s == f.items
           t == x.items
           d == IF Len(s) >= Cap THEN 1 ELSE 0
<1>1. /\ queue' \in [Queues -> Queue] /\ mapped' \in {q, NoQueue}
      /\ \A r \in Queues : r # q => /\ queue'[r].items = queue[r].items
                                    /\ queue'[r].inRun = queue[r].inRun
                                    /\ queue'[r].drain = queue[r].drain
      /\ queue'[q].items = t /\ queue'[q].inRun = x.inRun
      /\ queue'[q].drain \in {x.drain, "debounce"}
      /\ x.drain # "no" => queue'[q].drain = x.drain
      /\ mapped' = NoQueue => t = <<>> /\ queue'[q].drain = "no"
      /\ ~active /\ mapped' = q => queue'[q].drain # "no"
  BY DEF Put
<1>2. /\ f \in Queue
      /\ q = mapped => s = queue[q].items /\ f.inRun = queue[q].inRun /\ f.drain = queue[q].drain
      /\ q # mapped => /\ mapped = NoQueue /\ queue[q].drain = "no" /\ queue[q].inRun = <<>>
                       /\ s = <<>> /\ f.inRun = <<>> /\ f.drain = "no"
  BY FoundIs
<1>3. /\ x.inRun = f.inRun /\ x.drain = f.drain
      /\ t # <<>> /\ \E i \in DOMAIN t : t[i] = m
      /\ \A i \in DOMAIN t : \/ i = Len(t) /\ t[i] = m
                             \/ i + d \in DOMAIN s /\ t[i] = s[i + d]
      /\ \A j \in DOMAIN s : j > d => j - d \in DOMAIN t /\ t[j - d] = s[j]
      /\ DOMAIN s \subseteq Nat \ {0} /\ DOMAIN t \subseteq Nat
      /\ d = 1 => 1 \in DOMAIN s /\ Head(s) = s[1]
  BY <1>2, AcceptedIs
<1>4. /\ dropped' = IF d = 1 THEN dropped \cup {Head(s)} ELSE dropped
      /\ d \in {0, 1}
      /\ hit' \in BOOLEAN /\ (hit => hit')
      /\ ~hit' /\ d = 1 => ~Running(f)
  <2>1. hit \in BOOLEAN  BY DEF TypeOK
  <2> HIDE DEF f
  <2>2. d = 1 <=> Len(s) >= Cap  OBVIOUS
  <2>3. ~hit' /\ d = 1 => ~Running(f)  BY <2>2 DEF f
  <2>4. hit' \in BOOLEAN /\ (hit => hit')  BY <2>1
  <2>5. dropped' = IF d = 1 THEN dropped \cup {Head(s)} ELSE dropped  BY <2>2 DEF f
  <2> QED  BY <2>3, <2>4, <2>5
<1> HIDE DEF d, t, s, x, f
<1>5. /\ queue'[q].inRun = queue[q].inRun /\ mapped' = q
      /\ q # mapped => mapped = NoQueue /\ s = <<>> /\ queue[q].inRun = <<>>
      /\ q = mapped => s = queue[q].items
      /\ \A i \in DOMAIN s : q = mapped
  <2>1. \A i \in DOMAIN s : q = mapped  BY <1>2
  <2> QED  BY <1>1, <1>2, <1>3, <2>1
<1>6. \A r \in Queues : \/ queue'[r].drain = queue[r].drain
                        \/ r = q /\ queue[r].drain = "no" /\ queue'[r].drain = "debounce"
  BY <1>1, <1>2, <1>3
<1>7. \A r \in Queues : /\ Items(queue[r]) \subseteq Msgs /\ Named(queue[r]) \subseteq Msgs
                        /\ m \notin Items(queue[r]) \cup Named(queue[r])
                        /\ Named(queue'[r]) = Named(queue[r])
                        /\ r # q => Items(queue'[r]) = Items(queue[r])
  <2>1. \A r \in Queues : queue[r].items \in Short /\ queue[r].inRun \in Short
    BY QueueFields DEF TypeOK
  <2>2. \A r \in Queues : Items(queue[r]) \subseteq Msgs /\ Named(queue[r]) \subseteq Msgs
    BY <2>1 DEF Items, Named, Short
  <2>3. \A r \in Queues : m \notin Items(queue[r]) \cup Named(queue[r])
    BY DEF Inductive, HeldIsFresh
  <2>4. \A r \in Queues : Named(queue'[r]) = Named(queue[r])  BY <1>1, <1>5 DEF Named
  <2>5. \A r \in Queues : r # q => Items(queue'[r]) = Items(queue[r])  BY <1>1 DEF Items
  <2> QED  BY <2>2, <2>3, <2>4, <2>5
<1>8. Items(queue'[q]) \subseteq Items(queue[q]) \cup {m}
  <2> SUFFICES ASSUME NEW i \in DOMAIN t, t[i] # m PROVE t[i] \in Items(queue[q])
    BY <1>1 DEF Items
  <2>1. i + d \in DOMAIN s /\ t[i] = s[i + d]  BY <1>3
  <2> QED  BY <1>5, <2>1 DEF Items
<1>9. \A n \in Msgs : n # m => at'[n] = at[n]  BY DEF TypeOK
<1>10. at'[m] = "queued"  BY DEF TypeOK
<1>11. d = 1 => /\ Head(s) = s[1] /\ 1 \in DOMAIN queue[q].items /\ s = queue[q].items
               /\ Head(s) \in Items(queue[q]) /\ Head(s) \in Msgs
  BY <1>3, <1>5, <1>7 DEF Items
<1>12. TypeOK'
  <2>1. dropped' \subseteq Msgs  BY <1>4, <1>11 DEF TypeOK
  <2>2. at' \in [Msgs -> {"away", "late", "prepares", "runs", "closes", "over", "queued", "refused"}]
    BY DEF TypeOK
  <2> QED  BY <1>1, <1>4, <1>5, <2>1, <2>2 DEF TypeOK
<1>13. HeldIsFresh' /\ AtMostOnce'
  <2>1. ran[m] = 0  BY DEF Inductive, AtMostOnce
  <2>2. AtMostOnce'  BY <1>9, <2>1 DEF Inductive, AtMostOnce
  <2> SUFFICES ASSUME NEW r \in Queues, NEW n \in Items(queue'[r]) \cup Named(queue'[r])
               PROVE  at'[n] = "queued" /\ ran'[n] = 0
    BY <2>2 DEF HeldIsFresh
  <2>3. n = m \/ n \in Items(queue[r]) \cup Named(queue[r])  BY <1>7, <1>8
  <2>4. CASE n = m  BY <1>10, <2>1, <2>4
  <2>5. CASE n # m
    <3>1. at[n] = "queued" /\ ran[n] = 0 /\ n \in Msgs
      BY <1>7, <2>3, <2>5 DEF Inductive, HeldIsFresh
    <3> QED  BY <1>9, <2>5, <3>1
  <2> QED  BY <2>4, <2>5
<1>14. NoItemTwice'
  <2> SUFFICES ASSUME NEW i \in DOMAIN t, NEW j \in DOMAIN t, t[i] = t[j] PROVE i = j
    BY <1>1 DEF Inductive, NoItemTwice
  <2>1. s # <<>> => q = mapped  BY <1>5
  <2>2. \A k \in DOMAIN s : s[k] # m  BY <1>5, <1>7 DEF Items
  <2>3. CASE t[i] = m
    BY <1>3, <2>2, <2>3
  <2>4. CASE t[i] # m
    <3>1. /\ i + d \in DOMAIN s /\ j + d \in DOMAIN s /\ s[i + d] = s[j + d]
      BY <1>3, <2>4
    <3>2. i + d = j + d  BY <1>5, <3>1 DEF Inductive, NoItemTwice
    <3> QED  BY <1>3, <1>4, <3>2
  <2> QED  BY <2>3, <2>4
<1>15. InOneObject'
  <2>1. \A p, r \in Queues : p # r =>
          (Items(queue[p]) \cup Named(queue[p])) \cap (Items(queue[r]) \cup Named(queue[r])) = {}
    BY DEF Inductive, InOneObject
  <2>2. \A r \in Queues : Items(queue'[r]) \cup Named(queue'[r])
           \subseteq Items(queue[r]) \cup Named(queue[r]) \cup (IF r = q THEN {m} ELSE {})
    BY <1>7, <1>8
  <2>3. \A r \in Queues : m \notin Items(queue[r]) \cup Named(queue[r])  BY <1>7
  <2> QED  BY <2>1, <2>2, <2>3 DEF InOneObject
<1>16. RunIsAhead'
  <2> SUFFICES ASSUME NEW i \in DOMAIN t, t[i] \in Named(queue[q])
               PROVE  i <= Len(queue[q].inRun)
    BY <1>1, <1>5, <1>7 DEF Inductive, RunIsAhead
  <2>1. t[i] # m  BY <1>7
  <2>2. i + d \in DOMAIN s /\ t[i] = s[i + d]  BY <1>3, <2>1
  <2>3. i + d <= Len(queue[q].inRun)  BY <1>5, <2>2 DEF Inductive, RunIsAhead
  <2>4. i \in Nat /\ Len(queue[q].inRun) \in Nat
    <3>1. queue[q].inRun \in Short  BY QueueFields DEF TypeOK
    <3> QED  BY <1>3, <3>1 DEF Short
  <2> QED  BY <1>4, <2>3, <2>4
<1>17. OnlyRunsName'
  <2>1. \A r \in Queues : ~Running(queue'[r]) => ~Running(queue[r])  BY <1>6 DEF Running
  <2>2. \A r \in Queues : queue'[r].drain = "summary" => queue[r].drain = "summary"  BY <1>6
  <2> QED  BY <1>1, <1>5, <2>1, <2>2 DEF Inductive, OnlyRunsName
<1>18. ~hit' /\ d = 1 => queue[q].inRun = <<>>
  BY <1>2, <1>4, <1>11 DEF Inductive, OnlyRunsName, Running, s
<1>19. RunIsThePrefix'
  <2> SUFFICES ASSUME ~hit', NEW r \in Queues, NEW i \in DOMAIN queue[r].inRun
               PROVE  i \in DOMAIN queue'[r].items /\ queue'[r].items[i] = queue[r].inRun[i]
    BY <1>1, <1>5 DEF RunIsThePrefix
  <2>1. i \in DOMAIN queue[r].items /\ queue[r].items[i] = queue[r].inRun[i]
    BY <1>4 DEF Inductive, RunIsThePrefix
  <2>2. CASE r # q  BY <1>1, <2>1, <2>2
  <2>3. CASE r = q
    <3>1. queue[q].inRun # <<>>  BY <2>3
    <3>2. d = 0 /\ q = mapped /\ s = queue[q].items  BY <1>4, <1>5, <1>18, <3>1
    <3>3. i \in DOMAIN s /\ i \in Nat /\ i > 0  BY <1>3, <2>1, <2>3, <3>2
    <3>4. i - d \in DOMAIN t /\ t[i - d] = s[i] /\ i - d = i  BY <1>3, <3>2, <3>3
    <3> QED  BY <1>1, <2>1, <2>3, <3>2, <3>4
  <2> QED  BY <2>2, <2>3
<1>20. DrainsTheMapped'
  <2> SUFFICES ASSUME ~hit', NEW r \in Queues, queue'[r].drain # "no" PROVE r = q
    BY <1>5 DEF DrainsTheMapped
  <2>1. r # q => r = mapped  BY <1>1, <1>4 DEF Inductive, DrainsTheMapped
  <2> QED  BY <1>5, <2>1, FollowupAssumption DEF FollowupAssumption
<1>21. q # mapped => Items(queue'[q]) \subseteq {m}
  <2> SUFFICES ASSUME q # mapped, NEW i \in DOMAIN t PROVE t[i] = m
    BY <1>1 DEF Items
  <2> QED  BY <1>3, <1>5
<1>22. NoneStranded'
  <2> SUFFICES ASSUME ~hit', queue'[q].drain = "no"
               PROVE  Ahead' \/ Items(queue'[q]) \subseteq behind'
    BY <1>5 DEF NoneStranded
  <2>1. active  BY <1>1, <1>5
  <2>2. queue[mapped].drain = "no" \/ mapped \notin Queues
    BY <1>5, <1>6, FollowupAssumption DEF FollowupAssumption
  <2>3. agentRuns \/ \E n \in Msgs : at[n] = "runs"  BY <1>4, <2>1, <2>2, SeenRuns
  <2>4. CASE Ahead  BY <1>9, <2>4 DEF Ahead
  <2>5. CASE ~Ahead
    <3>1. agentRuns  BY <2>3, <2>5 DEF Ahead
    <3>2. f.drain = "no"  BY <1>1, <1>3
    <3>3. behind' = behind \cup {m}  BY <2>1, <2>5, <3>1, <3>2 DEF LeftAtRest, f
    <3>4. CASE q = mapped
      <4>1. Items(queue[q]) \subseteq behind
        BY <1>4, <2>2, <2>5, <3>4, FollowupAssumption
           DEF FollowupAssumption, Inductive, NoneStranded
      <4> QED  BY <1>8, <3>3, <4>1
    <3>5. CASE q # mapped  BY <1>21, <3>3, <3>5
    <3> QED  BY <3>4, <3>5
  <2> QED  BY <2>4, <2>5
<1>23. GivenUpForGood'
  <2> SUFFICES ASSUME ~hit', NEW n \in cleared' \cup dropped' \cup replaced'
               PROVE  /\ at'[n] = "queued" /\ ran'[n] = 0
                      /\ \A r \in Queues : n \notin Items(queue'[r]) \cup Named(queue'[r])
    BY DEF GivenUpForGood
  <2>1. CASE n \in cleared \cup dropped \cup replaced
    <3>1. /\ at[n] = "queued" /\ ran[n] = 0 /\ n \in Msgs /\ n # m
          /\ \A r \in Queues : n \notin Items(queue[r]) \cup Named(queue[r])
      BY <1>4, <2>1 DEF Inductive, GivenUpForGood, TypeOK
    <3> QED  BY <1>7, <1>8, <1>9, <3>1
  <2>2. CASE n \notin cleared \cup dropped \cup replaced
    <3>1. d = 1 /\ n = Head(s)  BY <1>4, <2>2
    <3>2. n \in Items(queue[q]) /\ n \in Msgs /\ n # m /\ s = queue[q].items /\ n = s[1] /\ 1 \in DOMAIN s
      BY <1>7, <1>11, <3>1
    <3>3. at[n] = "queued" /\ ran[n] = 0  BY <3>2 DEF Inductive, HeldIsFresh
    <3>4. \A r \in Queues : r # q => n \notin Items(queue[r]) \cup Named(queue[r])
      BY <3>2 DEF Inductive, InOneObject
    <3>5. n \notin Named(queue[q])
      <4>1. queue[q].inRun = <<>>  BY <1>18, <3>1
      <4> QED  BY <4>1 DEF Named
    <3>6. n \notin Items(queue'[q])
      <4> SUFFICES ASSUME NEW i \in DOMAIN t, t[i] = n PROVE FALSE
        BY <1>1 DEF Items
      <4>1. i + d \in DOMAIN s /\ s[i + d] = s[1]  BY <1>3, <3>2
      <4>2. i + d = 1  BY <3>2, <4>1 DEF Inductive, NoItemTwice
      <4>3. i + 0 \in Nat /\ i = 0  BY <1>3, <3>1, <4>2
      <4>4. i # 0
        <5>1. x \in Queue  BY <1>2, AcceptedIs DEF x
        <5>2. t \in Short  BY <5>1, QueueFields DEF t
        <5> QED  BY <5>2 DEF Short
      <4> QED  BY <4>3, <4>4
    <3> QED  BY <1>7, <1>9, <3>2, <3>3, <3>4, <3>5, <3>6
  <2> QED  BY <2>1, <2>2
<1>24. NothingVanishes'
  <2> SUFFICES ASSUME ~hit', NEW n \in Msgs, at'[n] = "queued"
               PROVE  Held(n)' \/ ran'[n] > 0 \/ n \in cleared' \cup dropped' \cup replaced'
    BY DEF NothingVanishes
  <2>1. CASE n = m
    <3>1. m \in Items(queue'[q])  BY <1>1, <1>3 DEF Items
    <3> QED  BY <1>5, <2>1, <3>1 DEF Held
  <2>2. CASE n # m
    <3>1. at[n] = "queued" /\ ~hit  BY <1>4, <1>9, <2>2
    <3>2. CASE Held(n)
      <4>1. mapped \in Queues /\ n \in Items(queue[mapped])  BY <3>1, <3>2, HeldIsMapped
      <4>2. q = mapped /\ s = queue[q].items
        BY <1>5, <4>1, FollowupAssumption DEF FollowupAssumption
      <4>3. PICK j \in DOMAIN s : n = s[j]  BY <4>1, <4>2 DEF Items
      <4>4. CASE j > d
        <5>1. j - d \in DOMAIN t /\ t[j - d] = n  BY <1>3, <4>3, <4>4
        <5>2. n \in Items(queue'[q])  BY <1>1, <5>1 DEF Items
        <5> QED  BY <1>5, <5>2 DEF Held
      <4>5. CASE ~(j > d)
        <5>1. d = 1 /\ j = 1  BY <1>3, <1>4, <4>5
        <5>2. n \in dropped'  BY <1>4, <1>11, <4>3, <5>1
        <5> QED  BY <5>2
      <4> QED  BY <4>4, <4>5
    <3>3. CASE ran[n] > 0  BY <3>3
    <3>4. CASE n \in cleared \cup dropped \cup replaced  BY <1>4, <3>4
    <3> QED  BY <3>1, <3>2, <3>3, <3>4 DEF Inductive, NothingVanishes
  <2> QED  BY <2>1, <2>2
<1> QED
  BY <1>12, <1>13, <1>14, <1>15, <1>16, <1>17, <1>19, <1>20, <1>22, <1>23, <1>24 DEF Inductive

LEMMA EnqueueKeeps ==
  ASSUME TypeOK, Inductive, NEW m \in Msgs, Enqueue(m)
  PROVE  TypeOK' /\ Inductive'
<1>1. PICK q \in Queues, set \in Settings, active \in Sees :
        LET o       == Found(q, set)
            full    == Len(o.items) >= Cap
            refused == full /\ set.policy = "new"
            after   == [queue EXCEPT ![q] = IF refused THEN o ELSE Accepted(o, m)]
        IN  /\ CanHold(q)
            /\ Becomes(IF active THEN Mapped(after, q) ELSE Scheduled(after, q))
            /\ at' = [at EXCEPT ![m] = IF refused THEN "refused" ELSE "queued"]
            /\ dropped' = IF full /\ ~refused THEN dropped \cup {Head(o.items)} ELSE dropped
            /\ hit' = (hit \/ (full /\ ~refused /\ Running(o)) \/ Unsettles(q, set))
            /\ behind' = IF agentRuns /\ active /\ ~refused /\ LeftAtRest(o)
                         THEN behind \cup {m} ELSE behind
  BY DEF Enqueue
<1>2. at[m] = "late" /\ UNCHANGED <<ran, cleared, replaced, upsets, agentRuns>>  BY DEF Enqueue
<1>3. active \in BOOLEAN  BY DEF Sees, Active
<1>4. Found(q, set) \in Queue /\ queue \in [Queues -> Queue]  BY <1>1, FoundIs DEF TypeOK
<1>5. CASE Len(Found(q, set).items) >= Cap /\ set.policy = "new"
  <2>1. /\ CanHold(q)
        /\ Becomes(IF active THEN Mapped([queue EXCEPT ![q] = Found(q, set)], q)
                   ELSE Scheduled([queue EXCEPT ![q] = Found(q, set)], q))
        /\ at' = [at EXCEPT ![m] = "refused"] /\ dropped' = dropped /\ behind' = behind
        /\ hit' = (hit \/ Unsettles(q, set))
    BY <1>1, <1>5
  <2>2. Put(q, Found(q, set), active)  BY <1>3, <1>4, <2>1, PutBegins
  <2>3. (hit => hit') /\ hit' \in BOOLEAN  BY <2>1 DEF TypeOK
  <2>4. /\ \A n \in Msgs : /\ at[n] = "queued" <=> at'[n] = "queued"
                           /\ at[n] \in {"prepares", "runs", "closes"} => at'[n] = at[n]
        /\ at' \in [Msgs -> {"away", "late", "prepares", "runs", "closes", "over", "queued", "refused"}]
    BY <1>2, <2>1 DEF TypeOK
  <2> QED  BY <1>2, <2>1, <2>2, <2>3, <2>4, FoundKeeps
<1>6. CASE ~(Len(Found(q, set).items) >= Cap /\ set.policy = "new")
  <2> DEFINE x == Accepted(Found(q, set), m)
  <2>1. /\ CanHold(q)
        /\ Becomes(IF active THEN Mapped([queue EXCEPT ![q] = x], q)
                   ELSE Scheduled([queue EXCEPT ![q] = x], q))
        /\ at' = [at EXCEPT ![m] = "queued"]
        /\ dropped' = IF Len(Found(q, set).items) >= Cap
                      THEN dropped \cup {Head(Found(q, set).items)} ELSE dropped
        /\ hit' = (hit \/ (Len(Found(q, set).items) >= Cap /\ Running(Found(q, set)))
                       \/ Unsettles(q, set))
        /\ behind' = IF agentRuns /\ active /\ LeftAtRest(Found(q, set))
                     THEN behind \cup {m} ELSE behind
    BY <1>1, <1>6
  <2>2. x \in Queue  BY <1>4, AcceptedIs
  <2>3. Put(q, x, active)
    <3> HIDE DEF x
    <3> QED  BY <1>3, <1>4, <2>1, <2>2, PutBegins
  <2> QED  BY <1>2, <2>1, <2>3, AcceptedKeeps
<1> QED  BY <1>5, <1>6

-----------------------------------------------------------------------------
LEMMA StepKeeps ==
  ASSUME TypeOK, Inductive, [Next]_vars
  PROVE  TypeOK' /\ Inductive'
<1>1. ASSUME NEW q \in Queues, Drain(q) \/ DrainRunFails(q) PROVE TypeOK' /\ Inductive'
  BY <1>1, DrainStepKeeps, DrainRunEndsKeeps, DrainRunFailsKeeps DEF Drain
<1>2. ASSUME NEW m \in Msgs, Arrive(m) \/ Enqueue(m) \/ Redeliver(m) \/ Own(m)
      PROVE  TypeOK' /\ Inductive'
  BY <1>2, OwnKeeps, FinalizeKeeps, EnqueueKeeps, RedeliverKeeps DEF Own
<1>3. CASE ClearSessionQueues \/ AgentRunBegins \/ AgentRunEnds
  BY <1>3, ClearKeeps, AgentKeeps
<1>4. CASE UNCHANGED vars
  BY <1>4 DEF vars, agent, TypeOK, Inductive, HeldIsFresh, NoItemTwice, InOneObject, RunIsAhead,
              OnlyRunsName, AtMostOnce, RunIsThePrefix, DrainsTheMapped, GivenUpForGood,
              NoneStranded, Ahead, NothingVanishes, Held
<1> QED  BY <1>1, <1>2, <1>3, <1>4 DEF Next

(* The type invariant and the inductive invariant hold whatever messages, runs and
   clears do to the queue of a session (src/auto-reply/reply/queue). *)
THEOREM FollowupInvariance == Spec => [](TypeOK /\ Inductive)
<1>1. TypeOK /\ Inductive /\ [Next]_vars => TypeOK' /\ Inductive'
  BY StepKeeps
<1> QED  BY InitHolds, <1>1, PTL DEF Spec

(* Queue objects, messages and what is noted of them keep their types: items never
   exceed the cap. *)
THEOREM FollowupTypes == Spec => []TypeOK
  BY FollowupInvariance, PTL

(* A message that was accepted is in the queue that will be drained, or was run,
   or was given up for a reason, unless a drain's queue was changed under it. *)
THEOREM AcceptedIsKept == Spec => []NothingVanishes
<1>1. Inductive => NothingVanishes  BY DEF Inductive
<1> QED  BY <1>1, FollowupInvariance, PTL

(* No message is run twice with success, whatever is done to the queue; and what
   was dropped or replaced is not run, unless the queue was changed under a drain. *)
THEOREM RunsOnce == Spec => []ServedOnce
<1>1. Inductive => ServedOnce
  BY DEF Inductive, AtMostOnce, GivenUpForGood, ServedOnce
<1> QED  BY <1>1, FollowupInvariance, PTL

(* A message in a queue at rest has one ahead of it that will drain the queue, except
   what was itself queued while only a run of the agent method was active. *)
THEOREM NothingIsStranded == Spec => []NoneStranded
<1>1. Inductive => NoneStranded  BY DEF Inductive
<1> QED  BY <1>1, FollowupInvariance, PTL

-----------------------------------------------------------------------------
(* The queue implements SessionInbox.  Until a drain's queue is changed under it,
   the line of the session is what the mapped queue holds: an object that leaves
   the map is empty, and so is the one that enters it. *)

Line    == IF mapped = NoQueue THEN <<>> ELSE queue[mapped].items
Queued  == {m \in Msgs : at[m] = "queued"}
Ran     == {m \in Msgs : ran[m] > 0}
GivenUp == cleared \cup dropped \cup replaced

InboxStep == Inbox!Next \/ UNCHANGED Inbox!vars

LEMMA StandsStill ==
  ASSUME UNCHANGED <<Line, Queued, Ran, GivenUp, hit>>
  PROVE  InboxStep
  BY DEF InboxStep, Inbox!vars, Line, Queued, Ran, GivenUp

(* An object enters or leaves the map while it is empty, or none does. *)
LEMMA LineStays ==
  ASSUME TypeOK, mapped' \in Queues \cup {NoQueue},
         \A q \in Queues : q \in {mapped, mapped'} => queue'[q].items = queue[q].items,
         mapped' # mapped =>
           /\ mapped # NoQueue => queue[mapped].items = <<>>
           /\ mapped' # NoQueue => queue[mapped'].items = <<>>
  PROVE  Line' = Line
  BY DEF Line, TypeOK

LEMMA InitOpensInbox == Init => Inbox!Init
<1> SUFFICES ASSUME Init PROVE Inbox!Init
  OBVIOUS
<1> QED  BY DEF Init, Inbox!Init

(* Once the promise is off everything is allowed. *)
LEMMA BrokenAllowsAll ==
  ASSUME hit'
  PROVE  InboxStep
  BY DEF InboxStep, Inbox!Next

LEMMA DrainStepStands ==
  ASSUME TypeOK, Inductive, ~hit, NEW q \in Queues, DrainStep(q)
  PROVE  InboxStep
<1>1. /\ queue[q].drain = "debounce"
      /\ UNCHANGED <<at, ran, cleared, dropped, replaced, hit, upsets>>
  BY DEF DrainStep
<1>2. queue \in [Queues -> Queue] /\ mapped \in Queues \cup {NoQueue}  BY DEF TypeOK
<1>3. q = mapped  BY <1>1 DEF Inductive, DrainsTheMapped
<1>4. Line' = Line
  <2>1. CASE Becomes(Finished(queue, q))
    <3> DEFINE new == Finished(queue, q)
    <3>1. Ended(queue, q, new)  BY <1>2, FinishedEnds
    <3>2. queue' = new.queue /\ mapped' = new.mapped  BY <2>1 DEF Becomes
    <3> HIDE DEF new
    <3> QED
      BY <1>2, <1>3, <3>1, <3>2, LineStays, FollowupAssumption
      DEF Ended, SameContent, FollowupAssumption
  <2>2. CASE ~Becomes(Finished(queue, q))
    <3>1. \E d, s, told, ind :
            queue' = [queue EXCEPT ![q].drain = d, ![q].inRun = s, ![q].told = told,
                                   ![q].individually = ind]
      <4> DEFINE o       == queue[q]
                 singly  == o.mode = "followup" \/ o.individually \/ Mixed(o)
                 summary == o.count > 0 /\ o.policy = "summarize"
                 what    == IF ~singly THEN "batch"
                            ELSE IF o.mode = "followup" /\ summary THEN "summary" ELSE "one"
                 run     == IF singly THEN <<Head(o.items)>> ELSE o.items
                 told    == summary /\ what # "one"
                 ind     == o.individually \/ (o.mode = "collect" /\ Mixed(o))
      <4>1. queue' = [queue EXCEPT ![q].drain = what, ![q].inRun = run, ![q].told = told,
                                   ![q].individually = ind]
        BY <2>2 DEF DrainStep
      <4> HIDE DEF what, run, told, ind
      <4> QED  BY <4>1
    <3>2. queue'[q].items = queue[q].items /\ mapped' = mapped
      <4>1. PICK d, s, told, ind :
              queue' = [queue EXCEPT ![q].drain = d, ![q].inRun = s, ![q].told = told,
                                     ![q].individually = ind]
        BY <3>1
      <4> DEFINE o1 == [queue[q] EXCEPT !.drain = d]
                 o2 == [o1 EXCEPT !.inRun = s]
                 o3 == [o2 EXCEPT !.told = told]
      <4>2. queue'[q] = [o3 EXCEPT !.individually = ind]  BY <1>2, <4>1
      <4>3. o3.items = queue[q].items  OBVIOUS
      <4>4. mapped' = mapped  BY <2>2 DEF DrainStep
      <4> HIDE DEF o3
      <4> QED  BY <4>2, <4>3, <4>4
    <3> QED  BY <1>2, <1>3, <3>2, LineStays
  <2> QED  BY <2>1, <2>2
<1> QED  BY <1>1, <1>4, StandsStill DEF Queued, Ran, GivenUp

LEMMA FailedRunStands ==
  ASSUME TypeOK, Inductive, ~hit, NEW q \in Queues, DrainRunFails(q)
  PROVE  InboxStep
<1> DEFINE o   == [queue EXCEPT ![q].inRun = <<>>]
           new == Finished(o, q)
<1>1. /\ queue[q].drain # "no" /\ queue' = new.queue /\ mapped' = new.mapped
      /\ UNCHANGED <<at, ran, cleared, dropped, replaced, hit>>
  BY DEF DrainRunFails, Running, Becomes
<1>2. queue \in [Queues -> Queue] /\ mapped \in Queues \cup {NoQueue}  BY DEF TypeOK
<1>3. q = mapped  BY <1>1 DEF Inductive, DrainsTheMapped
<1>4. o[q].items = queue[q].items /\ o \in [Queues -> Queue]
  <2>1. o[q] = [queue[q] EXCEPT !.inRun = <<>>]  BY <1>2
  <2>2. <<>> \in Short  BY FollowupAssumption DEF FollowupAssumption, Short
  <2>3. o[q] \in Queue /\ o[q].items = queue[q].items  BY <1>2, <2>1, <2>2, QueueFields
  <2>4. \A r \in Queues : r # q => o[r] = queue[r]  BY <1>2
  <2>5. o = [r \in Queues |-> o[r]]  BY <1>2
  <2> HIDE DEF o
  <2> QED  BY <1>2, <2>3, <2>4, <2>5
<1> HIDE DEF o
<1>5. Ended(o, q, new)  BY <1>2, <1>4, FinishedEnds
<1> HIDE DEF new
<1>6. Line' = Line
  BY <1>1, <1>2, <1>3, <1>4, <1>5, LineStays, FollowupAssumption
  DEF Ended, SameContent, FollowupAssumption
<1> QED  BY <1>1, <1>6, StandsStill DEF Queued, Ran, GivenUp

(* The run of the mapped queue ends: its messages are the first of the line. *)
LEMMA EndedRunServes ==
  ASSUME TypeOK, Inductive, ~hit, NEW q \in Queues, DrainRunEnds(q)
  PROVE  InboxStep
<1> DEFINE s    == queue[q].items
           k    == Len(queue[q].inRun)
           rest == SubSeq(s, k + 1, Len(s))
           left == [queue[q] EXCEPT !.items = rest,
                                    !.count = IF queue[q].told THEN 0 ELSE @, !.inRun = <<>>]
           o    == [queue EXCEPT ![q] = left]
           new  == RunsOn(o, q)
           run  == Named(queue[q])
           told == queue[q].drain = "summary"
<1>1. /\ queue[q].drain # "no" /\ queue' = new.queue /\ mapped' = new.mapped
      /\ ran' = [m \in Msgs |-> IF ~told /\ m \in run THEN ran[m] + 1 ELSE ran[m]]
      /\ replaced' = IF told THEN replaced \cup run ELSE replaced
      /\ UNCHANGED <<at, cleared, dropped, hit, upsets>>
  BY DEF DrainRunEnds, Running, Becomes, agent
<1>2. /\ queue \in [Queues -> Queue] /\ mapped \in Queues \cup {NoQueue} /\ q # NoQueue
      /\ q = mapped
  BY <1>1, FollowupAssumption DEF FollowupAssumption, TypeOK, Inductive, DrainsTheMapped
<1>3. s \in Short /\ queue[q].inRun \in Short /\ k \in Nat /\ <<>> \in Short
  BY <1>2, QueueFields, FollowupAssumption DEF FollowupAssumption, Short
<1>4. rest \in Short
  <2> HIDE DEF k
  <2> QED  BY <1>3, FrontTakenOff
<1>5. o[q].items = rest /\ o \in [Queues -> Queue]
  <2>1. \A r \in Queues : r # q => o[r] = queue[r]  BY <1>2
  <2>2. o[q] = left  BY <1>2
  <2>3. left \in Queue /\ left.items = rest
    <3> HIDE DEF rest
    <3> DEFINE half == [queue[q] EXCEPT !.items = rest]
               c    == IF queue[q].told THEN 0 ELSE half.count
               most == [half EXCEPT !.count = c]
    <3>1. half \in Queue /\ half.items = rest  BY <1>2, <1>4, QueueFields
    <3>2. c \in Nat  BY <3>1, QueueFields
    <3>3. half.count = queue[q].count /\ half.told = queue[q].told  BY <1>2, QueueFields
    <3>4. left = [most EXCEPT !.inRun = <<>>]  BY <1>2, <3>3, QueueFields
    <3> HIDE DEF half, c
    <3>5. most \in Queue /\ most.items = rest  BY <3>1, <3>2, QueueFields
    <3> HIDE DEF most, left
    <3> QED  BY <1>3, <3>4, <3>5, QueueFields
  <2>4. o = [r \in Queues |-> o[r]]  BY <1>2
  <2> HIDE DEF o, left
  <2> QED  BY <1>2, <2>1, <2>2, <2>3, <2>4
<1> HIDE DEF o, left
<1>6. Ended(o, q, new)  BY <1>2, <1>5, RunsOnEnds
<1> HIDE DEF new
<1>7. Line = s /\ Line' = rest
  <2>1. queue'[q].items = rest /\ mapped' \in {q, NoQueue}
    BY <1>1, <1>2, <1>5, <1>6 DEF Ended, SameContent
  <2>2. mapped' = NoQueue => rest = <<>>  BY <1>1, <1>2, <1>5, <1>6 DEF Ended
  <2> QED  BY <1>2, <2>1, <2>2 DEF Line
<1>8. k <= Len(s) /\ run = {s[i] : i \in 1 .. k}
  <2>1. DOMAIN queue[q].inRun = 1 .. k /\ DOMAIN s = 1 .. Len(s) /\ Len(s) \in Nat
    BY <1>3 DEF Short
  <2>2. \A i \in 1 .. k : i \in 1 .. Len(s) /\ s[i] = queue[q].inRun[i]
    BY <2>1 DEF Inductive, RunIsThePrefix
  <2>3. k <= Len(s)
    <3>1. CASE k = 0  BY <2>1, <3>1
    <3>2. CASE k # 0
      <4>1. k \in 1 .. k  BY <1>3, <3>2
      <4> QED  BY <2>1, <2>2, <4>1
    <3> QED  BY <3>1, <3>2
  <2>4. run = {queue[q].inRun[i] : i \in 1 .. k}  BY <2>1 DEF Named
  <2> HIDE DEF k, s, run
  <2> QED  BY <2>2, <2>3, <2>4
<1>9. Queued' = Queued  BY <1>1 DEF Queued
<1>10. run \subseteq Msgs
  BY <1>3 DEF Named, Short
<1>11. CASE told
  <2>1. k = 1  BY <1>11 DEF Inductive, OnlyRunsName
  <2>2. s # <<>> /\ run = {Head(s)} /\ rest = Tail(s)
    <3>1. s \in Seq(Msgs) /\ Len(s) >= 1  BY <1>3, <1>8, <2>1 DEF Short
    <3>2. s # <<>> /\ Head(s) = s[1] /\ SubSeq(s, 2, Len(s)) = Tail(s)  BY <3>1
    <3>3. 1 .. 1 = {1} /\ 1 + 1 = 2  OBVIOUS
    <3>4. run = {s[1]}  BY <1>8, <2>1, <3>3
    <3> QED  BY <2>1, <3>2, <3>3, <3>4
  <2>3. Ran' = Ran  BY <1>1, <1>11 DEF Ran, TypeOK
  <2>4. GivenUp' = GivenUp \cup {Head(s)}  BY <1>1, <1>11, <2>2 DEF GivenUp
  <2> HIDE DEF s, rest
  <2>5. Line # <<>> /\ Line' = Tail(Line) /\ GivenUp' = GivenUp \cup {Head(Line)}
    BY <1>7, <2>2, <2>4
  <2>6. Inbox!Summarise
    BY <1>1, <1>9, <2>3, <2>5 DEF Inbox!Summarise, Line, Queued, Ran, GivenUp
  <2> QED  BY <2>6 DEF InboxStep, Inbox!Next
<1>12. CASE ~told
  <2>1. GivenUp' = GivenUp  BY <1>1, <1>12 DEF GivenUp
  <2>2. \A m \in run : ran[m] = 0  BY DEF Inductive, HeldIsFresh
  <2>3. Ran' = Ran \cup run
    <3>1. \A m \in Msgs : ran[m] \in 0 .. 2  BY DEF TypeOK
    <3>2. \A m \in Msgs : ran'[m] = IF m \in run THEN ran[m] + 1 ELSE ran[m]  BY <1>1, <1>12
    <3> HIDE DEF run
    <3>3. \A m \in Msgs : ran'[m] > 0 <=> ran[m] > 0 \/ m \in run  BY <3>1, <3>2
    <3> QED  BY <1>10, <3>3 DEF Ran
  <2>4. run \cap (Ran \cup GivenUp) = {}
    <3>1. run \cap Ran = {}  BY <2>2 DEF Ran
    <3>2. run \cap GivenUp = {}  BY DEF Inductive, GivenUpForGood, GivenUp
    <3> QED  BY <3>1, <3>2
  <2>5. CASE k = 0
    <3>1. run = {} /\ rest = s
      <4>1. 1 .. k = {}  BY <2>5
      <4>2. SubSeq(s, 1, Len(s)) = s  BY <1>3 DEF Short
      <4> QED  BY <1>8, <2>5, <4>1, <4>2
    <3> HIDE DEF s, rest, run
    <3> QED  BY <1>1, <1>7, <1>9, <2>1, <2>3, <3>1, StandsStill
  <2>6. CASE k # 0
    <3>1. PICK n \in DOMAIN s : n = k  BY <1>3, <1>8, <2>6 DEF Short
    <3> HIDE DEF k, s, run
    <3>2. /\ n \in DOMAIN Line
          /\ run = {Line[i] : i \in 1 .. n}
          /\ Line' = SubSeq(Line, n + 1, Len(Line))
      BY <1>7, <1>8, <3>1
    <3>3. {Line[i] : i \in 1 .. n} \cap (Ran \cup GivenUp) = {}
      BY <2>4, <3>2
    <3>4. Ran' = Ran \cup {Line[i] : i \in 1 .. n}  BY <2>3, <3>2
    <3>5. Inbox!Serve(n)
      BY <1>1, <1>9, <2>1, <3>2, <3>3, <3>4 DEF Inbox!Serve, Line, Queued, Ran, GivenUp
    <3> QED  BY <3>2, <3>5 DEF InboxStep, Inbox!Next, Line
  <2> QED  BY <2>5, <2>6
<1> QED  BY <1>11, <1>12

(* A message is accepted at the end, and with no room left the oldest goes. *)
LEMMA EnqueueAccepts ==
  ASSUME TypeOK, Inductive, NEW m \in Msgs, Enqueue(m)
  PROVE  InboxStep
<1> SUFFICES ASSUME ~hit' PROVE InboxStep
  BY BrokenAllowsAll
<1>1. PICK q \in Queues, set \in Settings, active \in Sees :
        LET o       == Found(q, set)
            full    == Len(o.items) >= Cap
            refused == full /\ set.policy = "new"
            after   == [queue EXCEPT ![q] = IF refused THEN o ELSE Accepted(o, m)]
        IN  /\ CanHold(q)
            /\ Becomes(IF active THEN Mapped(after, q) ELSE Scheduled(after, q))
            /\ at' = [at EXCEPT ![m] = IF refused THEN "refused" ELSE "queued"]
            /\ dropped' = IF full /\ ~refused THEN dropped \cup {Head(o.items)} ELSE dropped
            /\ hit' = (hit \/ (full /\ ~refused /\ Running(o)) \/ Unsettles(q, set))
  BY ZenonT(40) DEF Enqueue
<1> DEFINE f       == Found(q, set)
           refused == Len(f.items) >= Cap /\ set.policy = "new"
           x       == IF refused THEN f ELSE Accepted(f, m)
<1>2. at[m] = "late" /\ UNCHANGED <<ran, cleared, replaced, upsets>>  BY DEF Enqueue
<1>3. active \in BOOLEAN /\ q # NoQueue
  BY FollowupAssumption DEF FollowupAssumption, Sees, Active
<1>4. /\ f \in Queue /\ queue \in [Queues -> Queue]
      /\ q = mapped => f.items = queue[q].items
      /\ q # mapped => mapped = NoQueue /\ f.items = <<>>
  BY <1>1, FoundIs DEF TypeOK
<1>5. f.items \in Short /\ Line = f.items
  BY <1>3, <1>4, QueueFields DEF Line
<1>6. UNCHANGED <<Ran, hit>>
  BY <1>1, <1>2 DEF Ran, TypeOK
<1>7. x \in Queue /\ Becomes(IF active THEN Mapped([queue EXCEPT ![q] = x], q)
                             ELSE Scheduled([queue EXCEPT ![q] = x], q))
  <2>1. Accepted(f, m) \in Queue
    <3> HIDE DEF f
    <3> QED  BY <1>4, AcceptedIs
  <2> QED  BY <1>1, <1>4, <2>1
<1>8. /\ at' = [at EXCEPT ![m] = IF refused THEN "refused" ELSE "queued"]
      /\ dropped' = IF Len(f.items) >= Cap /\ ~refused THEN dropped \cup {Head(f.items)} ELSE dropped
  BY <1>1
<1>9. x.items = IF refused THEN f.items
                ELSE Append(IF Len(f.items) >= Cap THEN Tail(f.items) ELSE f.items, m)
  <2> HIDE DEF f
  <2> QED  BY <1>4, QueueFields DEF Accepted
<1> HIDE DEF f, x, refused
<1>10. Put(q, x, active)  BY <1>3, <1>4, <1>7, PutBegins
<1>11. Line' = x.items
  BY <1>3, <1>10 DEF Put, Line
<1>12. CASE refused
  <2>1. Queued' = Queued  BY <1>2, <1>8, <1>12 DEF Queued, TypeOK
  <2>2. GivenUp' = GivenUp  BY <1>2, <1>8, <1>12 DEF GivenUp
  <2> QED  BY <1>5, <1>6, <1>9, <1>11, <1>12, <2>1, <2>2, StandsStill
<1>13. CASE ~refused
  <2>1. m \notin Queued /\ Queued' = Queued \cup {m}  BY <1>2, <1>8, <1>13 DEF Queued, TypeOK
  <2>2. Len(Line) \in Nat /\ Len(Line) <= Cap /\ Cap \in Nat
    BY <1>5, FollowupAssumption DEF FollowupAssumption, Short
  <2>3. \/ /\ Len(Line) < Cap
           /\ Line' = Append(Line, m) /\ GivenUp' = GivenUp
        \/ /\ Len(Line) = Cap
           /\ Line' = Append(Tail(Line), m) /\ GivenUp' = GivenUp \cup {Head(Line)}
    <3>1. CASE Len(Line) < Cap
      <4>1. ~(Len(f.items) >= Cap)  BY <1>5, <2>2, <3>1
      <4>2. dropped' = dropped /\ x.items = Append(f.items, m)  BY <1>8, <1>9, <1>13, <4>1
      <4> QED  BY <1>2, <1>5, <1>11, <3>1, <4>2 DEF GivenUp
    <3>2. CASE ~(Len(Line) < Cap)
      <4>1. Len(f.items) >= Cap /\ Len(Line) = Cap  BY <1>5, <2>2, <3>2
      <4>2. dropped' = dropped \cup {Head(f.items)} /\ x.items = Append(Tail(f.items), m)
        BY <1>8, <1>9, <1>13, <4>1
      <4>3. GivenUp' = GivenUp \cup {Head(Line)}  BY <1>2, <1>5, <4>2 DEF GivenUp
      <4> QED  BY <1>5, <1>11, <4>1, <4>2, <4>3
    <3> QED  BY <3>1, <3>2
  <2>4. Inbox!Accept(m)
    BY <1>6, <2>1, <2>3 DEF Inbox!Accept, Line, Queued, Ran, GivenUp
  <2> QED  BY <2>4 DEF InboxStep, Inbox!Next
<1> QED  BY <1>12, <1>13

LEMMA RedeliveryStands ==
  ASSUME TypeOK, Inductive, NEW m \in Msgs, Redeliver(m)
  PROVE  InboxStep
<1> SUFFICES ASSUME ~hit' PROVE InboxStep
  BY BrokenAllowsAll
<1>1. PICK q \in Queues, set \in Settings, active \in Sees :
        /\ CanHold(q)
        /\ Becomes(IF active THEN Mapped([queue EXCEPT ![q] = Found(q, set)], q)
                   ELSE Scheduled([queue EXCEPT ![q] = Found(q, set)], q))
        /\ hit' = (hit \/ Unsettles(q, set))
  BY DEF Redeliver
<1>2. UNCHANGED <<at, ran, cleared, dropped, replaced, upsets>>  BY DEF Redeliver
<1>3. active \in BOOLEAN /\ q # NoQueue
  BY FollowupAssumption DEF FollowupAssumption, Sees, Active
<1>4. /\ Found(q, set) \in Queue /\ queue \in [Queues -> Queue]
      /\ q = mapped => Found(q, set).items = queue[q].items
      /\ q # mapped => mapped = NoQueue /\ Found(q, set).items = <<>>
  BY <1>1, FoundIs DEF TypeOK
<1>5. Put(q, Found(q, set), active)  BY <1>1, <1>3, <1>4, PutBegins
<1>6. Line' = Line  BY <1>3, <1>4, <1>5 DEF Put, Line
<1>7. hit' = hit  BY <1>1 DEF TypeOK
<1> QED  BY <1>2, <1>6, <1>7, StandsStill DEF Queued, Ran, GivenUp

LEMMA OwnStands ==
  ASSUME TypeOK, NEW m \in Msgs, Arrive(m) \/ RunBegins(m) \/ RunEnds(m)
  PROVE  InboxStep
<1>1. /\ UNCHANGED <<mapped, queue, ran, cleared, dropped, replaced, hit, upsets>>
      /\ at[m] # "queued"
      /\ \E w \in {"late", "prepares", "runs", "closes"} : at' = [at EXCEPT ![m] = w]
  <2>1. CASE Arrive(m)
    <3>1. PICK active \in Sees : at' = [at EXCEPT ![m] = IF active THEN "late" ELSE "prepares"]
      BY <2>1 DEF Arrive
    <3> QED  BY <2>1, <3>1 DEF Arrive, TypeOK, agent
  <2>2. CASE RunBegins(m)  BY <2>2 DEF RunBegins, TypeOK, agent
  <2>3. CASE RunEnds(m)  BY <2>3 DEF RunEnds, TypeOK, agent
  <2> QED  BY <2>1, <2>2, <2>3
<1>2. Queued' = Queued  BY <1>1 DEF Queued, TypeOK
<1> QED  BY <1>1, <1>2, StandsStill DEF Line, Ran, GivenUp

LEMMA FinalizeStands ==
  ASSUME TypeOK, NEW m \in Msgs, FinalizeWithFollowup(m)
  PROVE  InboxStep
<1> DEFINE new == Scheduled(queue, mapped)
<1>1. /\ UNCHANGED <<ran, cleared, dropped, replaced, hit, upsets>>
      /\ at[m] # "queued" /\ at' = [at EXCEPT ![m] = "over"]
      /\ queue' = new.queue /\ mapped' = new.mapped
  BY DEF FinalizeWithFollowup, Becomes, Scheduled, agent
<1>2. queue \in [Queues -> Queue] /\ mapped \in Queues \cup {NoQueue}  BY DEF TypeOK
<1>3. Begun(queue, mapped, new)  BY <1>2, ScheduledBegins
<1> HIDE DEF new
<1>4. Line' = Line
  BY <1>1, <1>2, <1>3, LineStays DEF Begun, SameContent
<1>5. Queued' = Queued  BY <1>1 DEF Queued, TypeOK
<1> QED  BY <1>1, <1>4, <1>5, StandsStill DEF Ran, GivenUp

LEMMA ClearClears ==
  ASSUME TypeOK, ClearSessionQueues
  PROVE  InboxStep
<1> SUFFICES ASSUME ~hit' PROVE InboxStep
  BY BrokenAllowsAll
<1>1. /\ mapped # NoQueue /\ mapped' = NoQueue
      /\ cleared' = cleared \cup Items(queue[mapped])
      /\ UNCHANGED <<at, ran, dropped, replaced>>
      /\ hit' = (hit \/ queue[mapped].drain # "no")
  BY DEF ClearSessionQueues, Becomes, Mapped
<1>2. hit' = hit  BY <1>1 DEF TypeOK
<1>3. Line' = <<>> /\ Line = queue[mapped].items  BY <1>1 DEF Line
<1>4. GivenUp' = GivenUp \cup {Line[i] : i \in DOMAIN Line}
  BY <1>1, <1>3 DEF GivenUp, Items
<1>5. Inbox!Clear
  BY <1>1, <1>2, <1>3, <1>4 DEF Inbox!Clear, Inbox!Standing, Line, Queued, Ran, GivenUp
<1> QED  BY <1>5 DEF InboxStep, Inbox!Next

LEMMA StepKeepsPromise ==
  ASSUME TypeOK, Inductive, [Next]_vars
  PROVE  InboxStep
<1>1. CASE UNCHANGED vars
  BY <1>1, StandsStill DEF vars, Line, Queued, Ran, GivenUp
<1>2. CASE hit /\ Next
  <2>1. ASSUME NEW q \in Queues, Drain(q) \/ DrainRunFails(q) PROVE hit'
    BY <1>2, <2>1 DEF Drain, DrainStep, DrainRunEnds, DrainRunFails
  <2>2. ASSUME NEW m \in Msgs, Arrive(m) \/ Own(m) PROVE hit'
    BY <1>2, <2>2 DEF Arrive, Own, RunBegins, RunEnds, FinalizeWithFollowup
  <2>3. ASSUME NEW m \in Msgs, Enqueue(m) \/ Redeliver(m) PROVE hit'
    <3>1. CASE Enqueue(m)  BY <1>2, <3>1 DEF Enqueue
    <3>2. CASE Redeliver(m)  BY <1>2, <3>2 DEF Redeliver
    <3> QED  BY <2>3, <3>1, <3>2
  <2>4. ASSUME ClearSessionQueues \/ AgentRunBegins \/ AgentRunEnds PROVE hit'
    <3>1. CASE ClearSessionQueues
      <4>1. hit' = (hit \/ queue[mapped].drain # "no")  BY <3>1 DEF ClearSessionQueues
      <4> QED  BY <1>2, <4>1
    <3>2. CASE AgentRunBegins \/ AgentRunEnds
      BY <1>2, <3>2 DEF AgentRunBegins, AgentRunEnds
    <3> QED  BY <2>4, <3>1, <3>2
  <2>5. hit'  BY <1>2, <2>1, <2>2, <2>3, <2>4 DEF Next
  <2> QED  BY <2>5, BrokenAllowsAll
<1>3. ASSUME ~hit, NEW q \in Queues, Drain(q) \/ DrainRunFails(q) PROVE InboxStep
  BY <1>3, DrainStepStands, EndedRunServes, FailedRunStands DEF Drain
<1>4. ASSUME NEW m \in Msgs, Arrive(m) \/ Enqueue(m) \/ Redeliver(m) \/ Own(m)
      PROVE  InboxStep
  BY <1>4, OwnStands, FinalizeStands, EnqueueAccepts, RedeliveryStands DEF Own
<1>5. CASE ClearSessionQueues  BY <1>5, ClearClears
<1>6. CASE AgentRunBegins \/ AgentRunEnds
  BY <1>6, StandsStill DEF AgentRunBegins, AgentRunEnds, Line, Queued, Ran, GivenUp
<1> QED  BY <1>1, <1>2, <1>3, <1>4, <1>5, <1>6 DEF Next

(* The reply queue implements SessionInbox: while no drain's queue is changed under
   it, a session has one bounded line, whose messages are served from the front in
   the order of acceptance, once, and given up only for a reason. *)
THEOREM QueueIsAnInbox == Spec => KeepsOrder
<1>1. TypeOK /\ Inductive /\ [Next]_vars => [Inbox!Next]_(Inbox!vars)
  BY StepKeepsPromise DEF InboxStep
<1> QED
  BY InitOpensInbox, <1>1, FollowupInvariance, PTL DEF Spec, KeepsOrder, Inbox!Spec
=============================================================================
