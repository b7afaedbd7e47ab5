---------------------------- MODULE DeliveryQueue ----------------------------
(***************************************************************************)
(* The write-ahead queue of outbound messages (src/infra/outbound):        *)
(* a delivery stores its message in a file, sends its payloads one by one, *)
(* and removes the file (ack) or counts a failed attempt in it (fail).     *)
(* What a crash leaves in the directory, the next start of the gateway     *)
(* replays (delivery-queue-recovery.ts) beside the traffic of the day.     *)
(*                                                                         *)
(* Every owner of a message, its own delivery and each recovery, is a      *)
(* process; each action runs from one await to the next.  Abstracted: the  *)
(* clock (backoffs elapse, the recovery's time budget may run out once it  *)
(* sent something), payloads a plugin cancels (they count as sent), entries *)
(* of earlier versions of the program, and I/O errors other than a failed  *)
(* first write, a file that is gone and one that cannot be parsed.         *)
(*                                                                         *)
(* A definition marked `faulty' is the next one with a plausible bug; the  *)
(* README says which property refutes it.                                  *)
(***************************************************************************)
EXTENDS Naturals, Sequences

CONSTANTS
  Msgs,         \* messages
  Recoveries,   \* bound: recoveries, at most one per start, at once
  NPayloads,    \* payloads of a message
  MaxRetries,   \* failed attempts after which a message is given up
  BestEffort,   \* the messages whose payloads may fail one by one
  OnError,      \* those whose sender is told which payloads failed
  Notices,      \* the messages whose sender tries again itself
  MaxAttempts,  \* how often
  NoEntry,      \* no file
  Torn,         \* a file that does not hold a whole entry
  MaxCrashes    \* bound: crashes

ASSUME KindAssumption ==
  /\ Msgs \cap Recoveries = {}
  /\ BestEffort \subseteq Msgs /\ OnError \subseteq Msgs /\ Notices \subseteq Msgs
ASSUME NumberAssumption ==
  /\ NPayloads \in Nat \ {0} /\ MaxRetries \in Nat \ {0} /\ MaxAttempts \in Nat \ {0}
  /\ MaxCrashes \in Nat /\ NoEntry \notin Nat /\ Torn \notin Nat \cup {NoEntry}

VARIABLES
  file,      \* file[m]: failed attempts in the message's .json file, NoEntry or Torn
  tmp,       \* tmp[m]: the same for the .tmp file its failed attempts share
  late,      \* owners that have a .tmp file open which became the .json file since
  marker,    \* the messages with a .delivered file
  failed,    \* the messages in failed/
  waiting,   \* <<m, n>>: the backoff runs of an entry of m with n failed attempts
  sent,      \* sent[m]: the payloads that reached the channel
  log,       \* messages in the order they were stored
  own,       \* own[o]: where owner o is
  todo,      \* todo[r]: the entries recovery r has read and not picked
  budget,    \* budget[r]: what recovery r has of its time
  crashes,
  aborted    \* history: messages whose delivery ended in an AbortError

writes == <<tmp, late>>
disk == <<file, writes, marker, failed>>
vars == <<disk, waiting, sent, log, own, todo, budget, crashes, aborted>>

Owners == Msgs \cup Recoveries
Payloads == 1..NPayloads
Retries == 0..MaxRetries
Entries == Retries \cup {NoEntry, Torn}

\* A failed attempt more; from MaxRetries on it no longer matters how many.
BumpForgotten(n) == n                                                      \* faulty
Bump(n) == IF n = MaxRetries THEN n ELSE n + 1

\* An owner at a point where nothing is left of what it did before.
Fresh(point, m, stored) ==
  [at |-> point, msg |-> m, stored |-> stored, next |-> 1, partial |-> FALSE,
   attempt |-> 1, read |-> NoEntry]
Place(point) == Fresh(point, NoEntry, FALSE)

Owner ==
  [at : {"idle", "sending", "ack1", "ack2", "fail1", "fail2", "write", "rename", "move",
         "scan", "read", "pick", "done"},
   msg : Msgs \cup {NoEntry}, stored : BOOLEAN, next : 1..(NPayloads + 1),
   partial : BOOLEAN, attempt : 1..MaxAttempts, read : Entries]

TypeOK ==
  /\ file \in [Msgs -> Entries] /\ tmp \in [Msgs -> Entries]
  /\ late \subseteq Owners
  /\ marker \subseteq Msgs /\ failed \subseteq Msgs
  /\ waiting \subseteq Msgs \X Retries
  /\ aborted \subseteq Msgs
  /\ sent \in [Msgs -> SUBSET Payloads]
  /\ log \in Seq(Msgs)
  /\ own \in [Owners -> Owner]
  /\ todo \in [Recoveries -> [Msgs -> Entries]]
  /\ budget \in [Recoveries -> {"unspent", "spent", "over"}]
  /\ crashes \in 0..MaxCrashes

Init ==
  /\ file = [m \in Msgs |-> NoEntry]
  /\ tmp = [m \in Msgs |-> NoEntry] /\ late = {}
  /\ marker = {} /\ failed = {} /\ waiting = {}
  /\ sent = [m \in Msgs |-> {}]
  /\ log = <<>>
  /\ \E r \in Recoveries : own = [o \in Owners |-> IF o = r THEN Place("scan") ELSE Place("idle")]
  /\ todo = [r \in Recoveries |-> [m \in Msgs |-> NoEntry]]
  /\ budget = [r \in Recoveries |-> "unspent"]
  /\ crashes = 0
  /\ aborted = {}

At(o, point) == own[o].at = point
Msg(o) == own[o].msg

\* Owner o goes to a point where only its message matters.
Goto(o, point) == own' = [own EXCEPT ![o] = Fresh(point, Msg(o), FALSE)]

\* What follows the last step on a message: a delivery ends, a recovery goes
\* on to the next entry.
Return(o) == own' = [own EXCEPT ![o] = Place(IF o \in Msgs THEN "done" ELSE "pick")]

-----------------------------------------------------------------------------
(* Sending: deliverOutboundPayloads, called by a sender, by the restart     *)
(* sentinel for its notices, and by a recovery (which stores nothing).      *)

\* The message is stored, or cannot be and is sent all the same.
EnqueueDelivery(m) ==
  /\ At(m, "idle")
  /\ \E stored \in BOOLEAN :
       /\ own' = [own EXCEPT ![m] = Fresh("sending", m, stored)]
       /\ IF stored
          THEN /\ file' = [file EXCEPT ![m] = 0]
               /\ log' = Append(log, m)
          ELSE UNCHANGED <<file, log>>
  /\ UNCHANGED <<writes, marker, failed, waiting, sent, todo, budget, crashes, aborted>>

AllAndOneHandled(o) == own[o].next > NPayloads + 1                         \* faulty
AllHandled(o) == own[o].next > NPayloads

SendPayload(o) ==
  /\ At(o, "sending") /\ ~AllHandled(o)
  /\ sent' = [sent EXCEPT ![Msg(o)] = @ \cup {own[o].next}]
  /\ own' = [own EXCEPT ![o].next = @ + 1]
  /\ UNCHANGED <<disk, waiting, log, todo, budget, crashes, aborted>>

\* A payload fails under bestEffort: only a wrapped onError notices.
PayloadFails(o) ==
  /\ At(o, "sending") /\ ~AllHandled(o)
  /\ Msg(o) \in BestEffort
  /\ own' = [own EXCEPT ![o].next = @ + 1,
                        ![o].partial = @ \/ (o \in Msgs /\ o \in OnError)]
  /\ UNCHANGED <<disk, waiting, sent, log, todo, budget, crashes, aborted>>

\* All payloads were handled: the sender acks or fails what it stored, a
\* recovery acks.
DeliveryReturns(o) ==
  /\ At(o, "sending") /\ AllHandled(o)
  /\ CASE o \in Recoveries   -> Goto(o, "ack1")
       [] ~own[o].stored     -> Goto(o, "done")
       [] own[o].partial     -> Goto(o, "fail1")
       [] OTHER              -> Goto(o, "ack1")
  /\ UNCHANGED <<disk, waiting, sent, log, todo, budget, crashes, aborted>>

\* An exception: a payload failed, no handler for the channel at the start,
\* or no transcript to mirror to at the end.
MayThrow(o) == Msg(o) \notin BestEffort \/ own[o].next = 1 \/ AllHandled(o)

AfterErrorAcked(o) == {"ack1"}                                             \* faulty
AfterError(o) ==
  CASE o \in Recoveries -> {"fail1", "move"}    \* `move' if it is permanent
    [] own[o].stored    -> {"fail1"}
    [] OTHER            -> {"done"}

DeliveryThrows(o) ==
  /\ At(o, "sending") /\ MayThrow(o)
  /\ IF o \in Notices /\ own[o].attempt < MaxAttempts
     THEN own' = [own EXCEPT ![o].attempt = @ + 1, ![o].next = 1]
     ELSE \E point \in AfterError(o) : Goto(o, point)
  /\ UNCHANGED <<disk, waiting, sent, log, todo, budget, crashes, aborted>>

\* A send ends in an AbortError, because its sender called the delivery off or
\* because the channel's transport timed out: the code does not tell the two
\* apart and acks. Under bestEffort, and for a notice, it is an error like others.
DeliveryAborts(m) ==
  /\ At(m, "sending") /\ ~AllHandled(m)
  /\ m \notin BestEffort \cup Notices
  /\ aborted' = aborted \cup {Msg(m)}
  /\ Goto(m, IF own[m].stored THEN "ack1" ELSE "done")
  /\ UNCHANGED <<disk, waiting, sent, log, todo, budget, crashes>>

-----------------------------------------------------------------------------
(* The files: ackDelivery, failDelivery, moveToFailed.                      *)

\* Phase 1, the rename; without the file only a marker is looked for.
AckRename(o) ==
  /\ At(o, "ack1")
  /\ marker' = IF file[Msg(o)] # NoEntry THEN marker \cup {Msg(o)} ELSE marker
  /\ file' = [file EXCEPT ![Msg(o)] = NoEntry]
  /\ Goto(o, "ack2")
  /\ UNCHANGED <<writes, failed, waiting, sent, log, todo, budget, crashes, aborted>>

AckUnlink(o) ==
  /\ At(o, "ack2")
  /\ marker' = marker \ {Msg(o)}
  /\ Return(o)
  /\ UNCHANGED <<file, writes, failed, waiting, sent, log, todo, budget, crashes, aborted>>

FailReadAsNew(o) ==                                                        \* faulty
  /\ At(o, "fail1")
  /\ own' = [own EXCEPT ![o].at = "fail2",
                        ![o].read = IF file[Msg(o)] \in Retries THEN file[Msg(o)] ELSE 0]
  /\ UNCHANGED <<disk, waiting, sent, log, todo, budget, crashes, aborted>>

\* failDelivery reads the entry; a file that is gone or torn ends it.
FailRead(o) ==
  /\ At(o, "fail1")
  /\ IF file[Msg(o)] \in Retries
     THEN own' = [own EXCEPT ![o].at = "fail2", ![o].read = file[Msg(o)]]
     ELSE Return(o)
  /\ UNCHANGED <<disk, waiting, sent, log, todo, budget, crashes, aborted>>

\* It writes it back through a temporary file, whose name is the same for every
\* failed attempt of the process at this message: it empties that file,
FailOpen(o) ==
  /\ At(o, "fail2")
  /\ tmp' = [tmp EXCEPT ![Msg(o)] = Torn]
  /\ late' = late \ {o}
  /\ own' = [own EXCEPT ![o].at = "write"]
  /\ UNCHANGED <<file, marker, failed, waiting, sent, log, todo, budget, crashes, aborted>>

\* What is in a file that holds `before' once o wrote its entry over it: a
\* longer entry of another owner shows behind it.
Over(o, before) ==
  IF before = Torn THEN {Bump(own[o].read)} ELSE {Bump(own[o].read), Torn}

\* writes the entry to what it has opened, which may be the .json file by now
\* (or no file at all any more),
FailWrite(o) ==
  /\ At(o, "write")
  /\ waiting' = waiting \cup {<<Msg(o), n>> : n \in {Bump(own[o].read)} \ {MaxRetries}}
  /\ IF o \in late
     THEN /\ \/ /\ file[Msg(o)] # NoEntry
                /\ \E e \in Over(o, file[Msg(o)]) : file' = [file EXCEPT ![Msg(o)] = e]
             \/ file' = file
          /\ tmp' = tmp
     ELSE /\ \E e \in Over(o, tmp[Msg(o)]) : tmp' = [tmp EXCEPT ![Msg(o)] = e]
          /\ file' = file
  /\ Goto(o, "rename")
  /\ UNCHANGED <<late, marker, failed, sent, log, todo, budget, crashes, aborted>>

\* and renames the temporary file, be it its own, another's or gone.
FailRename(o) ==
  /\ At(o, "rename")
  /\ IF tmp[Msg(o)] = NoEntry
     THEN UNCHANGED <<file, writes>>
     ELSE /\ file' = [file EXCEPT ![Msg(o)] = tmp[Msg(o)]]
          /\ tmp' = [tmp EXCEPT ![Msg(o)] = NoEntry]
          /\ late' = late \cup {p \in Owners : At(p, "write") /\ Msg(p) = Msg(o)}
  /\ Return(o)
  /\ UNCHANGED <<marker, failed, waiting, sent, log, todo, budget, crashes, aborted>>

MoveToFailed(o) ==
  /\ At(o, "move")
  /\ failed' = IF file[Msg(o)] # NoEntry THEN failed \cup {Msg(o)} ELSE failed
  /\ file' = [file EXCEPT ![Msg(o)] = NoEntry]
  /\ Return(o)
  /\ UNCHANGED <<writes, marker, waiting, sent, log, todo, budget, crashes, aborted>>

-----------------------------------------------------------------------------
(* Recovery: recoverPendingDeliveries, once at every start.                 *)

\* loadPendingDeliveries lists the directory and removes the markers in it,
Scan(r) ==
  /\ At(r, "scan")
  /\ todo' = [todo EXCEPT ![r] = file]
  /\ marker' = {}
  /\ Goto(r, "read")
  /\ UNCHANGED <<file, writes, failed, waiting, sent, log, budget, crashes, aborted>>

\* and reads the entries it listed that are still there and whole.
Read(r) ==
  /\ At(r, "read")
  /\ todo' = [todo EXCEPT ![r] = 
                              [m \in Msgs |-> IF @[m] # NoEntry /\ file[m] \in Retries
                                              THEN file[m] ELSE NoEntry]]
  /\ budget' = [budget EXCEPT ![r] = "unspent"]
  /\ Goto(r, "pick")
  /\ UNCHANGED <<disk, waiting, sent, log, crashes, aborted>>

\* The entries left, of which the oldest is the next.
Pending(r) == {m \in Msgs : todo[r][m] # NoEntry}
Oldest(r, m) ==
  /\ m \in Pending(r)
  /\ \E i \in DOMAIN log : log[i] = m /\ \A j \in 1..(i - 1) : log[j] \notin Pending(r)

\* Entries that gave up, entries whose backoff has not elapsed, the others.
Judge(r, m) ==
  CASE todo[r][m] >= MaxRetries          -> "move"
    [] <<m, todo[r][m]>> \in waiting     -> "pick"
    [] OTHER                             -> "sending"

\* The next entry; once the time is up it and the rest only count an attempt.
Pick(r) ==
  /\ At(r, "pick")
  /\ \E m \in Msgs :
       /\ Oldest(r, m)
       /\ todo' = [todo EXCEPT ![r][m] = NoEntry]
       /\ \/ /\ budget[r] # "unspent"
             /\ budget' = [budget EXCEPT ![r] = "over"]
             /\ own' = [own EXCEPT ![r] = Fresh("fail1", m, FALSE)]
          \/ /\ budget[r] # "over"
             /\ budget' = IF Judge(r, m) = "sending"
                          THEN [budget EXCEPT ![r] = "spent"] ELSE budget
             /\ own' = [own EXCEPT ![r] = Fresh(Judge(r, m), m, FALSE)]
  /\ UNCHANGED <<disk, waiting, sent, log, crashes, aborted>>

RecoveryEnds(r) ==
  /\ At(r, "pick") /\ Pending(r) = {}
  /\ own' = [own EXCEPT ![r] = Place("idle")]
  /\ UNCHANGED <<disk, waiting, sent, log, todo, budget, crashes, aborted>>

-----------------------------------------------------------------------------
BackoffElapses(m) ==
  /\ \E n \in Retries : <<m, n>> \in waiting /\ waiting' = waiting \ {<<m, n>>}
  /\ UNCHANGED <<disk, sent, log, own, todo, budget, crashes, aborted>>

\* An in-process restart: what runs goes on beside the new recovery.
Restart ==
  /\ \E r \in Recoveries : At(r, "idle") /\ own' = [own EXCEPT ![r] = Place("scan")]
  /\ UNCHANGED <<disk, waiting, sent, log, todo, budget, crashes, aborted>>

\* The process dies and another starts: only the directory is left, and the
\* temporary files in it, named after the old process, are of no use.
Crash ==
  /\ crashes < MaxCrashes
  /\ crashes' = crashes + 1
  /\ \E r \in Recoveries :
       own' = [o \in Owners |-> Place(CASE o = r                         -> "scan"
                                        [] o \in Msgs /\ ~At(o, "idle")  -> "done"
                                        [] OTHER                         -> "idle")]
  /\ todo' = [r \in Recoveries |-> [m \in Msgs |-> NoEntry]]
  /\ tmp' = [m \in Msgs |-> NoEntry] /\ late' = {}
  /\ UNCHANGED <<file, marker, failed, waiting, sent, log, budget, aborted>>

Progress(o) ==
  \/ SendPayload(o) \/ PayloadFails(o) \/ DeliveryReturns(o) \/ DeliveryThrows(o)
  \/ AckRename(o) \/ AckUnlink(o) \/ MoveToFailed(o)
  \/ FailRead(o) \/ FailOpen(o) \/ FailWrite(o) \/ FailRename(o)

RecoveryStep(r) == Scan(r) \/ Read(r) \/ Pick(r) \/ RecoveryEnds(r) \/ Progress(r)

Next ==
  \/ \E m \in Msgs : EnqueueDelivery(m) \/ DeliveryAborts(m) \/ BackoffElapses(m) \/ Progress(m)
  \/ \E r \in Recoveries : RecoveryStep(r)
  \/ Restart \/ Crash

\* Sends and file operations come back, and time passes.
Fairness ==
  /\ \A m \in Msgs : WF_vars(Progress(m)) /\ WF_vars(BackoffElapses(m))
  /\ \A r \in Recoveries : WF_vars(RecoveryStep(r))

Spec == Init /\ [][Next]_vars /\ Fairness

-----------------------------------------------------------------------------
Stored(m) == \E i \in DOMAIN log : log[i] = m

(* A stored message whose payloads were not all sent has a file, in the    *)
(* queue or in failed/. Two kinds do not: one whose delivery ended in an    *)
(* AbortError (the sender called it off, or a transport timed out and the   *)
(* ack loses it), and one whose payloads may fail singly (bestEffort). The  *)
(* file may be torn, if failed attempts at it met (writeQueueEntry): then    *)
(* it stays where it is, but no recovery can read it.                       *)
NothingLost ==
  \A m \in Msgs : Stored(m) =>
    file[m] # NoEntry \/ m \in failed \cup aborted \cup BestEffort \/ sent[m] = Payloads

(* Why: whoever is about to remove a file has sent its message, but for the *)
(* two kinds, whatever the other owners of the message do meanwhile.        *)
Progressed(o) ==
  /\ own[o].at \in {"sending", "ack1", "ack2", "fail1", "fail2", "write", "rename", "move"} =>
       Msg(o) \in Msgs
  /\ At(o, "sending") /\ Msg(o) \notin BestEffort => 1..(own[o].next - 1) \subseteq sent[Msg(o)]
  /\ own[o].at \in {"fail2", "write"} => own[o].read \in Retries
  /\ At(o, "ack1") => Msg(o) \in aborted \cup BestEffort \/ sent[Msg(o)] = Payloads

Inductive == NothingLost /\ \A o \in Owners : Progressed(o)

\* A failDelivery has read its entry and not written it back yet.
WritesBack(o) == own[o].at \in {"fail2", "write", "rename"}

(* What left the queue does not come back: once the file of a message is    *)
(* gone and no failDelivery stands between its read and its last write, no  *)
(* owner stores it again, however many have it in hand; and once nobody     *)
(* sends it or has it on a list either, nobody takes it up again.           *)
Gone(m) ==
  /\ Stored(m) /\ file[m] = NoEntry
  /\ \A o \in Owners : WritesBack(o) => Msg(o) # m
InHand(m) ==
  \/ \E o \in Owners : At(o, "sending") /\ Msg(o) = m
  \/ \E r \in Recoveries : todo[r][m] # NoEntry

GoneForGood ==
  [][\A m \in Msgs : Gone(m) => Gone(m)' /\ (InHand(m)' => InHand(m))]_vars

(* Nothing that can be read stays in the queue for ever, whatever fails and *)
(* however short the recoveries' time is, if the gateway is restarted again *)
(* and again. (What cannot, loadPendingDeliveries skips: it stays.)         *)
QueueDrains ==
  []<><<Restart>>_vars => \A m \in Msgs : <>[](file[m] \notin Retries)
=============================================================================
