------------------------- MODULE DeliveryQueueProofs -------------------------
(***************************************************************************)
(* No stored message is lost, for any messages, payloads, recoveries and   *)
(* crashes: every owner of a message who is about to remove its file has   *)
(* sent it, and nothing another owner does meanwhile undoes that.          *)
(***************************************************************************)
EXTENDS DeliveryQueue, TLAPS

USE KindAssumption, NumberAssumption

Points == {"idle", "sending", "ack1", "ack2", "fail1", "fail2", "write", "rename", "move",
           "scan", "read", "pick", "done"}

-----------------------------------------------------------------------------
(* Types.                                                                   *)

LEMMA FreshType ==
  ASSUME NEW point \in Points, NEW m \in Msgs \cup {NoEntry}, NEW stored \in BOOLEAN
  PROVE  Fresh(point, m, stored) \in Owner
<1>1. 1 \in 1..(NPayloads + 1) /\ 1 \in 1..MaxAttempts  BY SMT
<1>2. NoEntry \in Entries  BY DEF Entries
<1> QED  BY <1>1, <1>2, Zenon DEF Fresh, Owner, Points

LEMMA PlaceType == ASSUME NEW point \in Points PROVE Place(point) \in Owner
<1>1. NoEntry \in Msgs \cup {NoEntry} /\ FALSE \in BOOLEAN  BY Zenon
<1> QED  BY <1>1, FreshType, Zenon DEF Place

LEMMA OwnerFields ==
  ASSUME NEW w \in Owner
  PROVE  /\ w.at \in Points /\ w.msg \in Msgs \cup {NoEntry} /\ w.stored \in BOOLEAN
         /\ w.next \in 1..(NPayloads + 1) /\ w.partial \in BOOLEAN
         /\ w.attempt \in 1..MaxAttempts /\ w.read \in Entries
  BY Zenon DEF Owner, Points

\* The records the actions make of an owner's.
LEMMA NextType ==
  ASSUME NEW w \in Owner, NEW n \in 1..(NPayloads + 1), NEW b \in BOOLEAN
  PROVE  [w EXCEPT !.next = n, !.partial = b] \in Owner /\ [w EXCEPT !.next = n] \in Owner
  BY Zenon DEF Owner

LEMMA AttemptType ==
  ASSUME NEW w \in Owner, NEW k \in 1..MaxAttempts, NEW n \in 1..(NPayloads + 1)
  PROVE  [w EXCEPT !.attempt = k, !.next = n] \in Owner
  BY Zenon DEF Owner

LEMMA ReadType ==
  ASSUME NEW w \in Owner, NEW e \in Entries
  PROVE  [w EXCEPT !.at = "fail2", !.read = e] \in Owner /\ [w EXCEPT !.at = "write"] \in Owner
  BY Zenon DEF Owner

LEMMA OwnChange ==
  ASSUME TypeOK, NEW o \in Owners, NEW w \in Owner, own' = [own EXCEPT ![o] = w]
  PROVE  own' \in [Owners -> Owner]
  BY DEF TypeOK

LEMMA GotoType ==
  ASSUME TypeOK, NEW o \in Owners, NEW point \in Points, Goto(o, point)
  PROVE  own' \in [Owners -> Owner]
<1>1. own[o] \in Owner  BY DEF TypeOK
<1>2. Fresh(point, Msg(o), FALSE) \in Owner  BY <1>1, OwnerFields, FreshType DEF Msg
<1> QED  BY <1>2, OwnChange DEF Goto

LEMMA ReturnType ==
  ASSUME TypeOK, NEW o \in Owners, Return(o)
  PROVE  own' \in [Owners -> Owner]
<1>1. (IF o \in Msgs THEN "done" ELSE "pick") \in Points  BY DEF Points
<1> QED  BY <1>1, PlaceType, OwnChange DEF Return

LEMMA BumpType ==
  ASSUME NEW e \in Retries
  PROVE  Bump(e) \in Retries
  BY DEF Retries, Bump

LEMMA RetriesAreEntries ==
  /\ Retries \subseteq Entries /\ Torn \in Entries /\ NoEntry \in Entries
  /\ NoEntry \notin Retries /\ Torn \notin Retries /\ Torn # NoEntry
  BY DEF Retries, Entries

\* What one write leaves in a file is an entry of the queue, whole or torn.
LEMMA OverType ==
  ASSUME NEW o, own[o].read \in Retries, NEW before, NEW e \in Over(o, before)
  PROVE  e \in Entries /\ e # NoEntry
<1>1. Bump(own[o].read) \in Retries  BY BumpType
<1>2. e = Bump(own[o].read) \/ e = Torn  BY DEF Over
<1> QED  BY <1>1, <1>2, RetriesAreEntries

\* What TypeOK says of the variables other than own.
RestType ==
  /\ file \in [Msgs -> Entries] /\ tmp \in [Msgs -> Entries]
  /\ late \subseteq Owners
  /\ marker \subseteq Msgs /\ failed \subseteq Msgs
  /\ waiting \subseteq Msgs \X Retries
  /\ aborted \subseteq Msgs
  /\ sent \in [Msgs -> SUBSET Payloads]
  /\ log \in Seq(Msgs)
  /\ todo \in [Recoveries -> [Msgs -> Entries]]
  /\ budget \in [Recoveries -> {"unspent", "spent", "over"}]
  /\ crashes \in 0..MaxCrashes

LEMMA TypeSplit ==
  /\ TypeOK <=> RestType /\ own \in [Owners -> Owner]
  /\ TypeOK' <=> RestType' /\ own' \in [Owners -> Owner]
  BY DEF TypeOK, RestType

LEMMA InitType == Init => TypeOK
<1> SUFFICES ASSUME Init PROVE TypeOK  OBVIOUS
<1>1. PICK r \in Recoveries :
        own = [o \in Owners |-> IF o = r THEN Place("scan") ELSE Place("idle")]
  BY DEF Init
<1>2. own \in [Owners -> Owner]  BY <1>1, PlaceType DEF Points
<1>3. RestType  BY RetriesAreEntries DEF Init, RestType
<1> QED  BY <1>2, <1>3, TypeSplit

-----------------------------------------------------------------------------
LEMMA SendingType ==
  ASSUME TypeOK, NEW o \in Owners, Msg(o) \in Msgs,
         SendPayload(o) \/ PayloadFails(o) \/ DeliveryReturns(o) \/ DeliveryThrows(o)
  PROVE  TypeOK'
<1>1. own[o] \in Owner  BY DEF TypeOK
<1>2. CASE SendPayload(o)
  <2>1. own[o].next \in Payloads /\ own[o].next + 1 \in 1..(NPayloads + 1)
    BY <1>1, <1>2, OwnerFields DEF SendPayload, AllHandled, Payloads
  <2>2. own' \in [Owners -> Owner]
    BY <1>1, <1>2, <2>1, NextType, OwnChange DEF SendPayload
  <2>3. RestType'  BY <1>2, <2>1 DEF SendPayload, TypeOK, RestType, disk, writes
  <2> QED  BY <2>2, <2>3, TypeSplit
<1>3. CASE PayloadFails(o)
  <2>1. own[o].next + 1 \in 1..(NPayloads + 1)
    BY <1>1, <1>3, OwnerFields DEF PayloadFails, AllHandled
  <2> DEFINE b == own[o].partial \/ (o \in Msgs /\ o \in OnError)
             w == [own[o] EXCEPT !.next = own[o].next + 1, !.partial = b]
  <2>2. b \in BOOLEAN  BY Zenon
  <2>3. own' \in [Owners -> Owner]
    <3>1. w \in Owner  BY <1>1, <2>1, <2>2, NextType
    <3>2. own' = [own EXCEPT ![o] = w]  BY <1>3, Zenon DEF PayloadFails
    <3> QED  BY <3>1, <3>2, OwnChange
  <2>4. RestType'  BY <1>3 DEF PayloadFails, TypeOK, RestType, disk, writes
  <2> QED  BY <2>3, <2>4, TypeSplit
<1>4. CASE DeliveryReturns(o)
  <2>1. \E point \in Points : Goto(o, point)  BY <1>4 DEF DeliveryReturns, Points
  <2>2. RestType'  BY <1>4 DEF DeliveryReturns, TypeOK, RestType, disk, writes
  <2> QED  BY <2>1, <2>2, GotoType, TypeSplit
<1>5. CASE DeliveryThrows(o)
  <2>1. RestType'  BY <1>5 DEF DeliveryThrows, TypeOK, RestType, disk, writes
  <2>2. CASE o \in Notices /\ own[o].attempt < MaxAttempts
    <3>1. own[o].attempt + 1 \in 1..MaxAttempts /\ 1 \in 1..(NPayloads + 1)
      BY <1>1, <2>2, OwnerFields
    <3>2. own' \in [Owners -> Owner]
      <4> DEFINE w == [own[o] EXCEPT !.attempt = own[o].attempt + 1, !.next = 1]
      <4>1. w \in Owner  BY <1>1, <3>1, AttemptType
      <4>2. own' = [own EXCEPT ![o] = w]  BY <1>5, <2>2, Zenon DEF DeliveryThrows
      <4> QED  BY <4>1, <4>2, OwnChange
    <3> QED  BY <2>1, <3>2, TypeSplit
  <2>3. CASE ~(o \in Notices /\ own[o].attempt < MaxAttempts)
    <3>1. \E point \in AfterError(o) : Goto(o, point)  BY <1>5, <2>3 DEF DeliveryThrows
    <3>2. AfterError(o) \subseteq Points  BY DEF AfterError, Points
    <3> QED  BY <2>1, <3>1, <3>2, GotoType, TypeSplit
  <2> QED  BY <2>2, <2>3
<1> QED  BY <1>2, <1>3, <1>4, <1>5

LEMMA FileType ==
  ASSUME TypeOK, NEW o \in Owners, Msg(o) \in Msgs, Progressed(o),
         \/ AckRename(o) \/ AckUnlink(o) \/ MoveToFailed(o)
         \/ FailRead(o) \/ FailOpen(o) \/ FailWrite(o) \/ FailRename(o)
  PROVE  TypeOK'
<1>1. own[o] \in Owner /\ own[o].read \in Entries /\ file[Msg(o)] \in Entries
  BY OwnerFields DEF TypeOK
<1>2. CASE AckRename(o)
  <2>1. Goto(o, "ack2") /\ "ack2" \in Points  BY <1>2 DEF AckRename, Points
  <2>2. RestType'  BY <1>2 DEF AckRename, TypeOK, RestType, Entries, writes
  <2> QED  BY <2>1, <2>2, GotoType, TypeSplit
<1>3. CASE AckUnlink(o)
  <2>1. RestType'  BY <1>3 DEF AckUnlink, TypeOK, RestType, writes
  <2> QED  BY <1>3, <2>1, ReturnType, TypeSplit DEF AckUnlink
<1>4. CASE FailRead(o)
  <2>1. RestType'  BY <1>4 DEF FailRead, TypeOK, RestType, disk, writes
  <2>2. CASE file[Msg(o)] \notin Retries
    BY <1>4, <2>1, <2>2, ReturnType, TypeSplit DEF FailRead
  <2>3. CASE file[Msg(o)] \in Retries
    <3> DEFINE w == [own[o] EXCEPT !.at = "fail2", !.read = file[Msg(o)]]
    <3>1. w \in Owner  BY <1>1, ReadType
    <3>2. own' = [own EXCEPT ![o] = w]  BY <1>4, <2>3, Zenon DEF FailRead
    <3> QED  BY <2>1, <3>1, <3>2, OwnChange, TypeSplit
  <2> QED  BY <2>2, <2>3
<1>5. CASE FailOpen(o)
  <2>1. RestType'  BY <1>5, RetriesAreEntries DEF FailOpen, TypeOK, RestType
  <2> DEFINE w == [own[o] EXCEPT !.at = "write"]
  <2>2. w \in Owner  BY <1>1, ReadType
  <2>3. own' = [own EXCEPT ![o] = w]  BY <1>5, Zenon DEF FailOpen
  <2> QED  BY <2>1, <2>2, <2>3, OwnChange, TypeSplit
<1>6. CASE FailWrite(o)
  <2>1. own[o].read \in Retries  BY <1>6 DEF FailWrite, Progressed, At
  <2>2. file' \in [Msgs -> Entries] /\ tmp' \in [Msgs -> Entries]
    <3>1. CASE o \in late
      <4>1. /\ tmp' = tmp
            /\ \/ file' = file
               \/ \E e \in Over(o, file[Msg(o)]) : file' = [file EXCEPT ![Msg(o)] = e]
        BY <1>6, <3>1 DEF FailWrite
      <4> QED  BY <2>1, <4>1, OverType DEF TypeOK
    <3>2. CASE o \notin late
      <4>1. file' = file /\ \E e \in Over(o, tmp[Msg(o)]) : tmp' = [tmp EXCEPT ![Msg(o)] = e]
        BY <1>6, <3>2 DEF FailWrite
      <4> QED  BY <2>1, <4>1, OverType DEF TypeOK
    <3> QED  BY <3>1, <3>2
  <2>3. waiting' \subseteq Msgs \X Retries
    BY <1>6, <2>1, BumpType DEF FailWrite, TypeOK
  <2>4. UNCHANGED <<late, marker, failed, sent, log, todo, budget, crashes, aborted>>
    BY <1>6 DEF FailWrite
  <2>5. RestType'  BY <2>2, <2>3, <2>4 DEF TypeOK, RestType
  <2>6. Goto(o, "rename") /\ "rename" \in Points  BY <1>6 DEF FailWrite, Points
  <2> QED  BY <2>5, <2>6, GotoType, TypeSplit
<1>7. CASE FailRename(o)
  <2>1. file' \in [Msgs -> Entries] /\ tmp' \in [Msgs -> Entries]
    <3>1. \/ file' = file /\ tmp' = tmp
          \/ file' = [file EXCEPT ![Msg(o)] = tmp[Msg(o)]] /\ tmp' = [tmp EXCEPT ![Msg(o)] = NoEntry]
      BY <1>7 DEF FailRename, writes
    <3> QED  BY <3>1, RetriesAreEntries DEF TypeOK
  <2>2. late' \subseteq Owners  BY <1>7 DEF FailRename, TypeOK, writes
  <2>3. UNCHANGED <<marker, failed, waiting, sent, log, todo, budget, crashes, aborted>>
    BY <1>7 DEF FailRename
  <2>4. RestType'  BY <2>1, <2>2, <2>3 DEF TypeOK, RestType
  <2> QED  BY <1>7, <2>4, ReturnType, TypeSplit DEF FailRename
<1>8. CASE MoveToFailed(o)
  <2>1. RestType'  BY <1>8 DEF MoveToFailed, TypeOK, RestType, Entries, writes
  <2> QED  BY <1>8, <2>1, ReturnType, TypeSplit DEF MoveToFailed
<1> QED  BY <1>2, <1>3, <1>4, <1>5, <1>6, <1>7, <1>8

LEMMA RecoveryType ==
  ASSUME TypeOK, NEW r \in Recoveries,
         Scan(r) \/ Read(r) \/ Pick(r) \/ RecoveryEnds(r)
  PROVE  TypeOK'
<1>1. r \in Owners  BY DEF Owners
<1>2. CASE Scan(r)
  <2>1. Goto(r, "read") /\ "read" \in Points  BY <1>2 DEF Scan, Points
  <2>2. RestType'  BY <1>2 DEF Scan, TypeOK, RestType, writes
  <2> QED  BY <1>1, <2>1, <2>2, GotoType, TypeSplit
<1>3. CASE Read(r)
  <2>1. Goto(r, "pick") /\ "pick" \in Points  BY <1>3 DEF Read, Points
  <2>2. RestType'  BY <1>3 DEF Read, TypeOK, RestType, disk, writes, Entries
  <2> QED  BY <1>1, <2>1, <2>2, GotoType, TypeSplit
<1>4. CASE Pick(r)
  <2>1. PICK m \in Msgs : \E point \in Points :
          own' = [own EXCEPT ![r] = Fresh(point, m, FALSE)]
    BY <1>4 DEF Pick, Judge, Points
  <2>2. own' \in [Owners -> Owner]  BY <1>1, <2>1, FreshType, OwnChange
  <2>3. todo' \in [Recoveries -> [Msgs -> Entries]]
    BY <1>4 DEF Pick, TypeOK, Entries
  <2>4. budget' \in [Recoveries -> {"unspent", "spent", "over"}]
    BY <1>4 DEF Pick, TypeOK
  <2>5. RestType'  BY <1>4, <2>3, <2>4 DEF Pick, TypeOK, RestType, disk, writes
  <2> QED  BY <2>2, <2>5, TypeSplit
<1>5. CASE RecoveryEnds(r)
  <2>1. RestType'  BY <1>5 DEF RecoveryEnds, TypeOK, RestType, disk, writes
  <2>2. own' \in [Owners -> Owner]
    BY <1>1, <1>5, PlaceType, OwnChange DEF RecoveryEnds, Points
  <2> QED  BY <2>1, <2>2, TypeSplit
<1> QED  BY <1>2, <1>3, <1>4, <1>5

LEMMA OtherType ==
  ASSUME TypeOK, Inductive,
         \/ \E m \in Msgs : EnqueueDelivery(m) \/ DeliveryAborts(m) \/ BackoffElapses(m)
         \/ Restart \/ Crash \/ UNCHANGED vars
  PROVE  TypeOK'
<1>1. ASSUME NEW m \in Msgs, EnqueueDelivery(m) PROVE TypeOK'
  <2>1. m \in Owners  BY DEF Owners
  <2>2. own' \in [Owners -> Owner]
    <3>1. PICK stored \in BOOLEAN : own' = [own EXCEPT ![m] = Fresh("sending", m, stored)]
      BY <1>1, Zenon DEF EnqueueDelivery
    <3>2. Fresh("sending", m, stored) \in Owner  BY FreshType DEF Points
    <3> QED  BY <2>1, <3>1, <3>2, OwnChange
  <2>3. file' \in [Msgs -> Entries]
    BY <1>1 DEF EnqueueDelivery, TypeOK, Entries, Retries
  <2>4. log' \in Seq(Msgs)
    <3>1. log' = log \/ log' = Append(log, m)  BY <1>1 DEF EnqueueDelivery
    <3>2. log \in Seq(Msgs)  BY DEF TypeOK
    <3> QED  BY <3>1, <3>2
  <2>5. RestType'  BY <1>1, <2>3, <2>4 DEF EnqueueDelivery, TypeOK, RestType, writes
  <2> QED  BY <2>2, <2>5, TypeSplit
<1>2. ASSUME NEW m \in Msgs, DeliveryAborts(m) PROVE TypeOK'
  <2>0. Msg(m) \in Msgs
    BY <1>2 DEF DeliveryAborts, Inductive, Progressed, At, Owners
  <2>1. RestType'  BY <1>2, <2>0 DEF DeliveryAborts, TypeOK, RestType, disk, writes
  <2>2. \E point \in Points : Goto(m, point)  BY <1>2 DEF DeliveryAborts, Points
  <2> QED  BY <2>1, <2>2, GotoType, TypeSplit DEF Owners
<1>3. ASSUME NEW m \in Msgs, BackoffElapses(m) PROVE TypeOK'
  <2>1. RestType'  BY <1>3 DEF BackoffElapses, TypeOK, RestType, disk, writes
  <2> QED  BY <1>3, <2>1, TypeSplit DEF BackoffElapses
<1>4. CASE Restart
  <2>1. RestType'  BY <1>4 DEF Restart, TypeOK, RestType, disk, writes
  <2>2. own' \in [Owners -> Owner]
    BY <1>4, PlaceType, OwnChange DEF Restart, Points, Owners
  <2> QED  BY <2>1, <2>2, TypeSplit
<1>5. CASE Crash
  <2>1. RestType'  BY <1>5 DEF Crash, TypeOK, RestType, disk, writes, Entries
  <2>2. own' \in [Owners -> Owner]
    <3>1. PICK at \in [Owners -> Points] : own' = [o \in Owners |-> Place(at[o])]
      <4>1. PICK r \in Recoveries :
              own' = [o \in Owners |-> Place(CASE o = r                         -> "scan"
                                               [] o \in Msgs /\ ~At(o, "idle")  -> "done"
                                               [] OTHER                         -> "idle")]
        BY <1>5 DEF Crash
      <4> DEFINE f == [o \in Owners |-> CASE o = r                         -> "scan"
                                          [] o \in Msgs /\ ~At(o, "idle")  -> "done"
                                          [] OTHER                         -> "idle"]
      <4>2. f \in [Owners -> Points]  BY DEF Points
      <4>3. own' = [o \in Owners |-> Place(f[o])]  BY <4>1
      <4> QED  BY <4>2, <4>3
    <3> QED  BY <3>1, PlaceType
  <2> QED  BY <2>1, <2>2, TypeSplit
<1>6. CASE UNCHANGED vars
  BY <1>6 DEF vars, disk, writes, TypeOK
<1> QED  BY <1>1, <1>2, <1>3, <1>4, <1>5, <1>6

-----------------------------------------------------------------------------
(* The inductive invariant.                                                 *)

\* What a step must not do: every owner keeps its place or still has sent what
\* it says, and a file goes only when its message is safe.
LEMMA Safe ==
  ASSUME TypeOK, TypeOK', Inductive,
         \A m \in Msgs : sent[m] \subseteq sent'[m],
         aborted \subseteq aborted', failed \subseteq failed',
         \A o \in Owners : own'[o] = own[o] \/ Progressed(o)',
         \A m \in Msgs : Stored(m)' => Stored(m) \/ file'[m] # NoEntry,
         \A m \in Msgs : file[m] # NoEntry /\ file'[m] = NoEntry =>
           m \in failed' \cup aborted \cup BestEffort \/ sent[m] = Payloads
  PROVE  Inductive'
<1>1. \A m \in Msgs : sent[m] = Payloads => sent'[m] = Payloads
  <2>1. sent' \in [Msgs -> SUBSET Payloads]  BY DEF TypeOK
  <2> QED  BY <2>1
<1>2. NothingLost'  BY <1>1 DEF Inductive, NothingLost
<1>3. ASSUME NEW o \in Owners PROVE Progressed(o)'
  <2>1. CASE own'[o] = own[o]
    <3>1. Progressed(o)  BY DEF Inductive
    <3> QED  BY <1>1, <2>1, <3>1 DEF Progressed, At, Msg
  <2> QED  BY <2>1
<1> QED  BY <1>2, <1>3 DEF Inductive

\* Where a delivery or a recovery goes next, with no message or with its own.
LEMMA Lands ==
  ASSUME TypeOK, NEW o \in Owners, NEW point \in Points
  PROVE  /\ Goto(o, point) => /\ own'[o].at = point /\ own'[o].msg = Msg(o)
                              /\ \A p \in Owners \ {o} : own'[p] = own[p]
         /\ Return(o) => /\ own'[o].at \in {"done", "pick"}
                         /\ \A p \in Owners \ {o} : own'[p] = own[p]
<1>1. ASSUME NEW m, NEW q PROVE Fresh(q, m, FALSE).at = q /\ Fresh(q, m, FALSE).msg = m
  BY DEF Fresh
<1>2. ASSUME Goto(o, point)
      PROVE  /\ own'[o].at = point /\ own'[o].msg = Msg(o)
             /\ \A p \in Owners \ {o} : own'[p] = own[p]
  <2> DEFINE w == Fresh(point, Msg(o), FALSE)
  <2>1. own' = [own EXCEPT ![o] = w]  BY <1>2 DEF Goto
  <2>2. w.at = point /\ w.msg = Msg(o)  BY <1>1
  <2> HIDE DEF w
  <2> QED  BY <2>1, <2>2 DEF TypeOK
<1>3. ASSUME Return(o)
      PROVE  /\ own'[o].at \in {"done", "pick"}
             /\ \A p \in Owners \ {o} : own'[p] = own[p]
  <2> DEFINE q == IF o \in Msgs THEN "done" ELSE "pick"
             w == Fresh(q, NoEntry, FALSE)
  <2>1. own' = [own EXCEPT ![o] = w]  BY <1>3 DEF Return, Place
  <2>2. w.at = q  BY <1>1
  <2>3. q \in {"done", "pick"}  OBVIOUS
  <2> HIDE DEF w, q
  <2> QED  BY <2>1, <2>2, <2>3 DEF TypeOK
<1> QED  BY <1>2, <1>3

LEMMA SendingKeeps ==
  ASSUME TypeOK, TypeOK', Inductive, NEW o \in Owners,
         SendPayload(o) \/ PayloadFails(o) \/ DeliveryReturns(o) \/ DeliveryThrows(o)
  PROVE  Inductive'
<1>1. At(o, "sending") /\ Msg(o) \in Msgs /\ Progressed(o)
  BY DEF SendPayload, PayloadFails, DeliveryReturns, DeliveryThrows, Inductive, Progressed, At
<1>2. own[o] \in Owner /\ own[o].next \in 1..(NPayloads + 1)  BY OwnerFields DEF TypeOK
<1>3. /\ UNCHANGED <<file, failed, log, aborted>>
      /\ \A m \in Msgs : sent[m] \subseteq sent'[m]
  BY DEF SendPayload, PayloadFails, DeliveryReturns, DeliveryThrows, disk, writes, TypeOK
<1>4. \A m \in Msgs : Stored(m)' => Stored(m)  BY <1>3 DEF Stored
<1>5. SUFFICES /\ \A p \in Owners \ {o} : own'[p] = own[p]
               /\ Progressed(o)'
  BY <1>3, <1>4, Safe
<1>6. CASE SendPayload(o)
  <2>1. own' = [own EXCEPT ![o].next = own[o].next + 1]  BY <1>6, Zenon DEF SendPayload
  <2>2. own'[o].at = own[o].at /\ own'[o].msg = own[o].msg /\ own'[o].next = own[o].next + 1
    BY <1>2, <2>1 DEF TypeOK, Owner
  <2>3. own[o].next \in sent'[Msg(o)]  BY <1>1, <1>6 DEF SendPayload, TypeOK
  <2>4. Progressed(o)'
    BY <1>1, <1>2, <1>3, <2>2, <2>3 DEF Progressed, At, Msg
  <2> QED  BY <2>1, <2>4 DEF TypeOK
<1>7. CASE PayloadFails(o)
  <2> DEFINE b == own[o].partial \/ (o \in Msgs /\ o \in OnError)
  <2>1. own' = [own EXCEPT ![o] = [own[o] EXCEPT !.next = own[o].next + 1, !.partial = b]]
    BY <1>7, Zenon DEF PayloadFails
  <2> HIDE DEF b
  <2>2. own'[o].at = own[o].at /\ own'[o].msg = own[o].msg
    BY <1>2, <2>1 DEF TypeOK, Owner
  <2>3. Progressed(o)'
    BY <1>1, <1>7, <2>2 DEF PayloadFails, Progressed, At, Msg
  <2> QED  BY <2>1, <2>3 DEF TypeOK
<1>8. CASE DeliveryReturns(o)
  <2>1. PICK point \in {"ack1", "done", "fail1"} : Goto(o, point)
    BY <1>8 DEF DeliveryReturns
  <2>2. point \in Points /\ point \notin {"sending", "fail2", "write"}  BY <2>1 DEF Points
  <2>3. Msg(o) \in BestEffort \/ sent[Msg(o)] = Payloads
    <3>1. own[o].next - 1 = NPayloads  BY <1>2, <1>8 DEF DeliveryReturns, AllHandled
    <3>2. Msg(o) \notin BestEffort => Payloads \subseteq sent[Msg(o)]
      BY <1>1, <3>1 DEF Progressed, Payloads
    <3>3. sent[Msg(o)] \subseteq Payloads  BY <1>1 DEF TypeOK
    <3> QED  BY <3>2, <3>3
  <2>4. own'[o].at = point /\ own'[o].msg = Msg(o)  BY <2>1, <2>2, Lands
  <2>5. sent' = sent  BY <1>8 DEF DeliveryReturns
  <2>6. Progressed(o)'
    BY <1>1, <1>3, <2>2, <2>3, <2>4, <2>5 DEF Progressed, At, Msg
  <2> QED  BY <2>1, <2>2, <2>6, Lands
<1>9. CASE DeliveryThrows(o)
  <2>1. CASE o \in Notices /\ own[o].attempt < MaxAttempts
    <3>1. own' = [own EXCEPT ![o].attempt = own[o].attempt + 1, ![o].next = 1]
      BY <1>9, <2>1, Zenon DEF DeliveryThrows
    <3>2. own'[o].at = own[o].at /\ own'[o].msg = own[o].msg /\ own'[o].next = 1
      BY <1>2, <3>1 DEF TypeOK, Owner
    <3>3. Progressed(o)'  BY <1>1, <3>2 DEF Progressed, At, Msg
    <3> QED  BY <3>1, <3>3 DEF TypeOK
  <2>2. CASE ~(o \in Notices /\ own[o].attempt < MaxAttempts)
    <3>1. PICK point \in {"fail1", "move", "done"} : Goto(o, point)
      BY <1>9, <2>2 DEF DeliveryThrows, AfterError
    <3>2. point \in Points /\ point \notin {"sending", "fail2", "write", "ack1"}  BY <3>1 DEF Points
    <3>3. own'[o].at = point /\ own'[o].msg = Msg(o)  BY <3>1, <3>2, Lands
    <3>4. Progressed(o)'  BY <1>1, <3>2, <3>3 DEF Progressed, At, Msg
    <3> QED  BY <3>1, <3>2, <3>4, Lands
  <2> QED  BY <2>1, <2>2
<1> QED  BY <1>6, <1>7, <1>8, <1>9

LEMMA FileKeeps ==
  ASSUME TypeOK, TypeOK', Inductive, NEW o \in Owners,
         \/ AckRename(o) \/ AckUnlink(o) \/ MoveToFailed(o)
         \/ FailRead(o) \/ FailOpen(o) \/ FailWrite(o) \/ FailRename(o)
  PROVE  Inductive'
<1>1. Progressed(o) /\ Msg(o) \in Msgs /\ own[o] \in Owner
  BY DEF AckRename, AckUnlink, FailRead, FailOpen, FailWrite, FailRename, MoveToFailed,
         Inductive, Progressed, At, TypeOK
<1>2. /\ UNCHANGED <<sent, log, aborted>> /\ failed \subseteq failed'
  BY DEF AckRename, AckUnlink, FailRead, FailOpen, FailWrite, FailRename, MoveToFailed, disk
<1>3. \A m \in Msgs : Stored(m)' => Stored(m)  BY <1>2 DEF Stored
<1>4. \A m \in Msgs : file[m] # NoEntry /\ file'[m] = NoEntry =>
        m \in failed' \cup aborted \cup BestEffort \/ sent[m] = Payloads
  <2>1. CASE AckRename(o)
    BY <1>1, <2>1 DEF AckRename, Progressed, At, TypeOK
  <2>2. CASE AckUnlink(o) \/ FailRead(o) \/ FailOpen(o)
    BY <2>2 DEF AckUnlink, FailRead, FailOpen, disk
  <2>3. CASE FailWrite(o)
    <3>1. own[o].read \in Retries  BY <1>1, <2>3 DEF FailWrite, Progressed, At
    <3>2. \/ file' = file
          \/ \E e \in Over(o, file[Msg(o)]) : file' = [file EXCEPT ![Msg(o)] = e]
      BY <2>3 DEF FailWrite
    <3> QED  BY <1>1, <3>1, <3>2, OverType DEF TypeOK
  <2>4. CASE FailRename(o)
    <3>1. \/ file' = file
          \/ tmp[Msg(o)] # NoEntry /\ file' = [file EXCEPT ![Msg(o)] = tmp[Msg(o)]]
      BY <2>4 DEF FailRename
    <3> QED  BY <1>1, <3>1 DEF TypeOK
  <2>5. CASE MoveToFailed(o)
    BY <1>1, <2>5 DEF MoveToFailed, TypeOK
  <2> QED  BY <2>1, <2>2, <2>3, <2>4, <2>5
<1>5. SUFFICES /\ \A p \in Owners \ {o} : own'[p] = own[p]
               /\ Progressed(o)'
  BY <1>2, <1>3, <1>4, Safe
<1>6. CASE \E point \in {"ack2", "rename"} : Goto(o, point)
  <2>1. PICK point \in {"ack2", "rename"} : Goto(o, point)  BY <1>6
  <2>2. point \in Points  BY <2>1 DEF Points
  <2> QED  BY <1>1, <2>1, <2>2, Lands DEF Progressed, At, Msg
<1>7. CASE Return(o)
  BY <1>7, Lands DEF Progressed, At, Points
<1>8. CASE FailRead(o) /\ file[Msg(o)] \in Retries
  <2>1. own' = [own EXCEPT ![o].at = "fail2", ![o].read = file[Msg(o)]]
    BY <1>8, Zenon DEF FailRead
  <2>2. own'[o].at = "fail2" /\ own'[o].msg = Msg(o) /\ own'[o].read = file[Msg(o)]
    BY <1>1, <2>1 DEF TypeOK, Owner, Msg
  <2>3. Progressed(o)'  BY <1>1, <1>8, <2>2 DEF Progressed, At, Msg
  <2> QED  BY <2>1, <2>3 DEF TypeOK
<1>9. CASE FailOpen(o)
  <2>1. own' = [own EXCEPT ![o].at = "write"]  BY <1>9, Zenon DEF FailOpen
  <2>2. own'[o].at = "write" /\ own'[o].msg = Msg(o) /\ own'[o].read = own[o].read
    BY <1>1, <2>1 DEF TypeOK, Owner, Msg
  <2>3. own[o].read \in Retries  BY <1>1, <1>9 DEF FailOpen, Progressed, At
  <2>4. Progressed(o)'  BY <1>1, <2>2, <2>3 DEF Progressed, At, Msg
  <2> QED  BY <2>1, <2>4 DEF TypeOK
<1> QED
  BY <1>6, <1>7, <1>8, <1>9 DEF AckRename, AckUnlink, FailRead, FailWrite, FailRename, MoveToFailed

LEMMA RecoveryKeeps ==
  ASSUME TypeOK, TypeOK', Inductive, NEW r \in Recoveries,
         Scan(r) \/ Read(r) \/ Pick(r) \/ RecoveryEnds(r)
  PROVE  Inductive'
<1>1. r \in Owners  BY DEF Owners
<1>2. UNCHANGED <<file, failed, sent, log, aborted>>
  BY DEF Scan, Read, Pick, RecoveryEnds, disk, writes
<1>3. \A m \in Msgs : Stored(m)' => Stored(m)  BY <1>2 DEF Stored
<1>4. SUFFICES /\ \A p \in Owners \ {r} : own'[p] = own[p]
               /\ Progressed(r)'
  BY <1>2, <1>3, Safe
<1>5. CASE Scan(r) \/ Read(r)
  <2>1. PICK point \in {"read", "pick"} : Goto(r, point)  BY <1>5 DEF Scan, Read
  <2>2. point \in Points  BY <2>1 DEF Points
  <2> QED  BY <1>1, <2>1, <2>2, Lands DEF Progressed, At
<1>6. CASE Pick(r)
  <2>1. PICK m \in Msgs, point \in {"fail1", "move", "pick", "sending"} :
          own' = [own EXCEPT ![r] = Fresh(point, m, FALSE)]
    BY <1>6 DEF Pick, Judge
  <2>2. own'[r].at = point /\ own'[r].msg = m /\ own'[r].next = 1
    <3> DEFINE w == Fresh(point, m, FALSE)
    <3>1. w.at = point /\ w.msg = m /\ w.next = 1  BY DEF Fresh
    <3>2. own' = [own EXCEPT ![r] = w]  BY <2>1
    <3> HIDE DEF w
    <3> QED  BY <1>1, <3>1, <3>2 DEF TypeOK
  <2>3. Progressed(r)'
    <3>1. 1..(own'[r].next - 1) = {}  BY <2>2
    <3>2. point \notin {"fail2", "write", "ack1"}  OBVIOUS
    <3> QED  BY <2>1, <2>2, <3>1, <3>2 DEF Progressed, At, Msg
  <2> QED  BY <2>1, <2>3 DEF TypeOK
<1>7. CASE RecoveryEnds(r)
  <2> DEFINE w == Place("idle")
  <2>1. own' = [own EXCEPT ![r] = w]  BY <1>7 DEF RecoveryEnds
  <2>2. w.at = "idle"  BY DEF Place, Fresh
  <2> HIDE DEF w
  <2> QED  BY <1>1, <2>1, <2>2 DEF Progressed, At, TypeOK
<1> QED  BY <1>5, <1>6, <1>7

LEMMA InitKeeps == Init => Inductive
<1> SUFFICES ASSUME Init PROVE Inductive  OBVIOUS
<1>1. PICK r \in Recoveries :
        own = [o \in Owners |-> IF o = r THEN Place("scan") ELSE Place("idle")]
  BY DEF Init
<1>2. Place("scan").at = "scan" /\ Place("idle").at = "idle"  BY DEF Place, Fresh
<1>3. \A o \in Owners : Progressed(o)  BY <1>1, <1>2 DEF Progressed, At
<1>4. NothingLost  BY DEF Init, NothingLost, Stored
<1> QED  BY <1>3, <1>4 DEF Inductive

LEMMA OtherKeeps ==
  ASSUME TypeOK, TypeOK', Inductive,
         \/ \E m \in Msgs : EnqueueDelivery(m) \/ DeliveryAborts(m) \/ BackoffElapses(m)
         \/ Restart \/ Crash \/ UNCHANGED vars
  PROVE  Inductive'
<1>1. ASSUME NEW m \in Msgs, EnqueueDelivery(m) PROVE Inductive'
  <2>1. m \in Owners  BY DEF Owners
  <2>2. PICK stored \in BOOLEAN : own' = [own EXCEPT ![m] = Fresh("sending", m, stored)]
    BY <1>1, Zenon DEF EnqueueDelivery
  <2>3. /\ own'[m].at = "sending" /\ own'[m].msg = m /\ own'[m].next = 1
        /\ \A p \in Owners \ {m} : own'[p] = own[p]
    <3> DEFINE w == Fresh("sending", m, stored)
    <3>1. w.at = "sending" /\ w.msg = m /\ w.next = 1  BY DEF Fresh
    <3>2. own' = [own EXCEPT ![m] = w]  BY <2>2
    <3> HIDE DEF w
    <3> QED  BY <2>1, <3>1, <3>2 DEF TypeOK
  <2>4. Progressed(m)'
    <3>1. 1..(own'[m].next - 1) = {}  BY <2>3
    <3> QED  BY <2>3, <3>1 DEF Progressed, At, Msg
  <2>5. UNCHANGED <<sent, failed, aborted>>  BY <1>1 DEF EnqueueDelivery
  <2>6. \/ UNCHANGED <<file, log>>
        \/ file' = [file EXCEPT ![m] = 0] /\ log' = Append(log, m)
    BY <1>1 DEF EnqueueDelivery
  <2>7. \A n \in Msgs : Stored(n)' => Stored(n) \/ file'[n] # NoEntry
    <3>1. CASE UNCHANGED <<file, log>>  BY <3>1 DEF Stored
    <3>2. CASE file' = [file EXCEPT ![m] = 0] /\ log' = Append(log, m)
      <4>1. log \in Seq(Msgs)  BY DEF TypeOK
      <4>2. \A n \in Msgs : Stored(n)' => Stored(n) \/ n = m
        BY <3>2, <4>1 DEF Stored
      <4>3. file'[m] # NoEntry  BY <3>2 DEF TypeOK
      <4> QED  BY <4>2, <4>3
    <3> QED  BY <2>6, <3>1, <3>2
  <2>8. \A n \in Msgs : file[n] # NoEntry => file'[n] # NoEntry
    BY <2>6 DEF TypeOK
  <2> QED  BY <2>3, <2>4, <2>5, <2>7, <2>8, Safe
<1>2. ASSUME NEW m \in Msgs, DeliveryAborts(m) PROVE Inductive'
  <2>1. m \in Owners /\ Progressed(m)  BY DEF Owners, Inductive
  <2>2. PICK point \in {"ack1", "done"} : Goto(m, point)  BY <1>2 DEF DeliveryAborts
  <2>3. point \in Points  BY <2>2 DEF Points
  <2>4. Msg(m) \in Msgs  BY <1>2, <2>1 DEF DeliveryAborts, Progressed, At
  <2>5. UNCHANGED <<file, failed, sent, log>> /\ aborted \subseteq aborted'
    BY <1>2 DEF DeliveryAborts, disk, writes
  <2>6. Msg(m) \in aborted'  BY <1>2 DEF DeliveryAborts
  <2>7. \A n \in Msgs : Stored(n)' => Stored(n)  BY <2>5 DEF Stored
  <2>8. Progressed(m)'
    BY <2>1, <2>2, <2>3, <2>4, <2>6, Lands DEF Progressed, At, Msg
  <2> QED  BY <2>1, <2>2, <2>3, <2>5, <2>7, <2>8, Lands, Safe
<1>3. ASSUME NEW m \in Msgs, BackoffElapses(m) PROVE Inductive'
  BY <1>3, Safe DEF BackoffElapses, disk, writes, Stored
<1>4. CASE Restart
  <2>1. UNCHANGED <<file, failed, sent, log, aborted>>  BY <1>4 DEF Restart, disk, writes
  <2>2. PICK r \in Recoveries : own' = [own EXCEPT ![r] = Place("scan")]
    BY <1>4 DEF Restart
  <2>3. r \in Owners  BY DEF Owners
  <2>4. own'[r].at = "scan" /\ \A p \in Owners \ {r} : own'[p] = own[p]
    <3> DEFINE w == Place("scan")
    <3>1. w.at = "scan"  BY DEF Place, Fresh
    <3>2. own' = [own EXCEPT ![r] = w]  BY <2>2
    <3> HIDE DEF w
    <3> QED  BY <2>3, <3>1, <3>2 DEF TypeOK
  <2>5. Progressed(r)'  BY <2>4 DEF Progressed, At
  <2>6. \A n \in Msgs : Stored(n)' => Stored(n)  BY <2>1 DEF Stored
  <2> QED  BY <2>1, <2>4, <2>5, <2>6, Safe
<1>5. CASE Crash
  <2>1. UNCHANGED <<file, failed, sent, log, aborted>>  BY <1>5 DEF Crash, disk, writes
  <2>2. ASSUME NEW o \in Owners PROVE Progressed(o)'
    <3>1. PICK point \in {"scan", "done", "idle"} : own'[o] = Place(point)
      BY <1>5 DEF Crash
    <3>2. Place(point).at = point  BY DEF Place, Fresh
    <3> QED  BY <3>1, <3>2 DEF Progressed, At
  <2>3. \A n \in Msgs : Stored(n)' => Stored(n)  BY <2>1 DEF Stored
  <2> QED  BY <2>1, <2>2, <2>3, Safe
<1>6. CASE UNCHANGED vars
  BY <1>6, Safe DEF vars, disk, writes, Stored
<1> QED  BY <1>1, <1>2, <1>3, <1>4, <1>5, <1>6

-----------------------------------------------------------------------------
LEMMA Step == TypeOK /\ Inductive /\ [Next]_vars => TypeOK' /\ Inductive'
<1> SUFFICES ASSUME TypeOK, Inductive, [Next]_vars PROVE TypeOK' /\ Inductive'
  OBVIOUS
<1>1. ASSUME NEW o \in Owners, Progress(o) PROVE TypeOK' /\ Inductive'
  <2>1. Progressed(o)  BY DEF Inductive
  <2>2. Msg(o) \in Msgs
    BY <1>1, <2>1 DEF Progress, SendPayload, PayloadFails, DeliveryReturns, DeliveryThrows,
                      AckRename, AckUnlink, FailRead, FailOpen, FailWrite, FailRename,
                      MoveToFailed, Progressed, At
  <2>3. CASE SendPayload(o) \/ PayloadFails(o) \/ DeliveryReturns(o) \/ DeliveryThrows(o)
    BY <2>2, <2>3, SendingType, SendingKeeps
  <2>4. CASE \/ AckRename(o) \/ AckUnlink(o) \/ MoveToFailed(o)
            \/ FailRead(o) \/ FailOpen(o) \/ FailWrite(o) \/ FailRename(o)
    BY <2>1, <2>2, <2>4, FileType, FileKeeps
  <2> QED  BY <1>1, <2>3, <2>4 DEF Progress
<1>2. ASSUME NEW r \in Recoveries, RecoveryStep(r) PROVE TypeOK' /\ Inductive'
  <2>1. CASE Progress(r)  BY <1>1, <2>1 DEF Owners
  <2>2. CASE Scan(r) \/ Read(r) \/ Pick(r) \/ RecoveryEnds(r)
    BY <2>2, RecoveryType, RecoveryKeeps
  <2> QED  BY <1>2, <2>1, <2>2 DEF RecoveryStep
<1>3. CASE \/ \E m \in Msgs : EnqueueDelivery(m) \/ DeliveryAborts(m) \/ BackoffElapses(m)
           \/ Restart \/ Crash \/ UNCHANGED vars
  BY <1>3, OtherType, OtherKeeps
<1>4. CASE \E m \in Msgs : Progress(m)  BY <1>1, <1>4 DEF Owners
<1> QED  BY <1>2, <1>3, <1>4 DEF Next

(* The type invariant and the inductive invariant hold throughout.          *)
THEOREM DeliveryInvariance == Spec => [](TypeOK /\ Inductive)
  BY InitType, InitKeeps, Step, PTL DEF Spec

(* The directories, the in-memory state and each owner's progress keep their
   types (delivery-queue-storage.ts, delivery-queue-recovery.ts).              *)
THEOREM DeliveryTypes == Spec => []TypeOK
  BY DeliveryInvariance, PTL

(* A stored message whose payloads were not all sent is in the queue or in  *)
(* failed/ (deliver.ts, delivery-queue-storage.ts).                         *)
THEOREM NoMessageIsLost == Spec => []NothingLost
<1>1. Inductive => NothingLost  BY DEF Inductive
<1> QED  BY <1>1, DeliveryInvariance, PTL

-----------------------------------------------------------------------------
(* What left the queue stays away.                                          *)

\* A message is stored once: its sender is past that.
Begun == \A m \in Msgs : Stored(m) => ~At(m, "idle")

StaysAway(m) == Gone(m) => Gone(m)' /\ (InHand(m)' => InHand(m))

\* What is enough of a step of one owner.
LEMMA OwnerStaysAway ==
  ASSUME TypeOK, Begun, NEW o \in Owners, UNCHANGED log,
         \A p \in Owners \ {o} : own'[p] = own[p],
         o \in Msgs => own'[o].at # "idle",
         WritesBack(o)' => \/ WritesBack(o) /\ own'[o].msg = Msg(o)
                           \/ file[own'[o].msg] # NoEntry,
         own'[o].at = "sending" => InHand(own'[o].msg),
         \A m \in Msgs : file[m] = NoEntry /\ file'[m] # NoEntry => WritesBack(o) /\ Msg(o) = m,
         \A r \in Recoveries, m \in Msgs :
           todo'[r][m] # NoEntry => todo[r][m] # NoEntry \/ file[m] # NoEntry
  PROVE  Begun' /\ \A m \in Msgs : StaysAway(m)
<1>1. \A m \in Msgs : Stored(m)' <=> Stored(m)  BY DEF Stored
<1>2. Begun'  BY <1>1 DEF Begun, At, Owners
<1>3. ASSUME NEW m \in Msgs, Gone(m) PROVE Gone(m)' /\ (InHand(m)' => InHand(m))
  <2>1. file'[m] = NoEntry  BY <1>3 DEF Gone
  <2>2. ASSUME NEW p \in Owners, WritesBack(p)' PROVE Msg(p)' # m
    <3>1. CASE p = o  BY <1>3, <2>2, <3>1 DEF Gone, Msg
    <3>2. CASE p # o  BY <1>3, <2>2, <3>2 DEF Gone, WritesBack, Msg
    <3> QED  BY <3>1, <3>2
  <2>3. Gone(m)'  BY <1>1, <1>3, <2>1, <2>2 DEF Gone
  <2>4. ASSUME NEW p \in Owners, At(p, "sending")', Msg(p)' = m PROVE InHand(m)
    <3>1. CASE p = o  BY <2>4, <3>1 DEF At, Msg
    <3>2. CASE p # o  BY <2>4, <3>2 DEF InHand, At, Msg
    <3> QED  BY <3>1, <3>2
  <2>5. ASSUME NEW r \in Recoveries, todo'[r][m] # NoEntry PROVE InHand(m)
    BY <1>3, <2>5 DEF Gone, InHand
  <2> QED  BY <2>3, <2>4, <2>5 DEF InHand
<1> QED  BY <1>2, <1>3 DEF StaysAway

LEMMA SendingStaysAway ==
  ASSUME TypeOK, Begun, NEW o \in Owners,
         SendPayload(o) \/ PayloadFails(o) \/ DeliveryReturns(o) \/ DeliveryThrows(o)
  PROVE  Begun' /\ \A m \in Msgs : StaysAway(m)
<1>1. /\ At(o, "sending") /\ UNCHANGED <<file, log, todo>>
      /\ own[o] \in Owner
  BY DEF SendPayload, PayloadFails, DeliveryReturns, DeliveryThrows, disk, writes, TypeOK
<1>2. /\ \A p \in Owners \ {o} : own'[p] = own[p]
      /\ \/ own'[o].at = "sending" /\ own'[o].msg = Msg(o)
         \/ own'[o].at \in {"ack1", "done", "fail1", "move"}
  <2>1. CASE SendPayload(o)
    <3>1. own' = [own EXCEPT ![o].next = own[o].next + 1]  BY <2>1, Zenon DEF SendPayload
    <3> QED  BY <1>1, <3>1 DEF TypeOK, Owner, At, Msg
  <2>2. CASE PayloadFails(o)
    <3> DEFINE b == own[o].partial \/ (o \in Msgs /\ o \in OnError)
    <3>1. own' = [own EXCEPT ![o] = [own[o] EXCEPT !.next = own[o].next + 1, !.partial = b]]
      BY <2>2, Zenon DEF PayloadFails
    <3> HIDE DEF b
    <3> QED  BY <1>1, <3>1 DEF TypeOK, Owner, At, Msg
  <2>3. CASE DeliveryReturns(o)
    <3>1. PICK point \in {"ack1", "done", "fail1"} : Goto(o, point)
      BY <2>3 DEF DeliveryReturns
    <3>2. point \in Points  BY <3>1 DEF Points
    <3> QED  BY <3>1, <3>2, Lands
  <2>4. CASE DeliveryThrows(o) /\ o \in Notices /\ own[o].attempt < MaxAttempts
    <3>1. own' = [own EXCEPT ![o].attempt = own[o].attempt + 1, ![o].next = 1]
      BY <2>4, Zenon DEF DeliveryThrows
    <3> QED  BY <1>1, <3>1 DEF TypeOK, Owner, At, Msg
  <2>5. CASE DeliveryThrows(o) /\ ~(o \in Notices /\ own[o].attempt < MaxAttempts)
    <3>1. PICK point \in {"fail1", "move", "done"} : Goto(o, point)
      BY <2>5 DEF DeliveryThrows, AfterError
    <3>2. point \in Points  BY <3>1 DEF Points
    <3> QED  BY <3>1, <3>2, Lands
  <2> QED  BY <2>1, <2>2, <2>3, <2>4, <2>5
<1>3. own'[o].at = "sending" => InHand(own'[o].msg)  BY <1>1, <1>2 DEF InHand
<1>4. ~WritesBack(o)'  BY <1>2 DEF WritesBack
<1> QED  BY <1>1, <1>2, <1>3, <1>4, OwnerStaysAway

LEMMA FileStaysAway ==
  ASSUME TypeOK, Begun, NEW o \in Owners,
         \/ AckRename(o) \/ AckUnlink(o) \/ MoveToFailed(o)
         \/ FailRead(o) \/ FailOpen(o) \/ FailWrite(o) \/ FailRename(o)
  PROVE  Begun' /\ \A m \in Msgs : StaysAway(m)
<1>1. UNCHANGED <<log, todo>> /\ own[o] \in Owner
  BY DEF AckRename, AckUnlink, FailRead, FailOpen, FailWrite, FailRename, MoveToFailed, disk,
         TypeOK
<1>2. /\ \A p \in Owners \ {o} : own'[p] = own[p]
      /\ \/ own'[o].at \in {"ack2", "done", "pick"}
         \/ own'[o].at \in {"write", "rename"} /\ WritesBack(o) /\ own'[o].msg = Msg(o)
         \/ own'[o].at = "fail2" /\ file[own'[o].msg] # NoEntry
  <2>1. CASE AckRename(o)
    <3>1. Goto(o, "ack2") /\ "ack2" \in Points  BY <2>1 DEF AckRename, Points
    <3> QED  BY <3>1, Lands
  <2>2. CASE Return(o)
    <3>1. "done" \in Points  BY DEF Points
    <3> QED  BY <2>2, <3>1, Lands
  <2>3. CASE FailRead(o) /\ file[Msg(o)] \in Retries
    <3>1. own' = [own EXCEPT ![o].at = "fail2", ![o].read = file[Msg(o)]]
      BY <2>3, Zenon DEF FailRead
    <3>2. own'[o].at = "fail2" /\ own'[o].msg = Msg(o)
      BY <1>1, <3>1 DEF TypeOK, Owner, Msg
    <3> QED  BY <2>3, <3>1, <3>2, RetriesAreEntries DEF TypeOK
  <2>4. CASE FailOpen(o)
    <3>1. own' = [own EXCEPT ![o].at = "write"]  BY <2>4, Zenon DEF FailOpen
    <3>2. own'[o].at = "write" /\ own'[o].msg = Msg(o)
      BY <1>1, <3>1 DEF TypeOK, Owner, Msg
    <3>3. WritesBack(o)  BY <2>4 DEF FailOpen, WritesBack, At
    <3> QED  BY <3>1, <3>2, <3>3 DEF TypeOK
  <2>5. CASE FailWrite(o)
    <3>1. Goto(o, "rename") /\ "rename" \in Points  BY <2>5 DEF FailWrite, Points
    <3>2. WritesBack(o)  BY <2>5 DEF FailWrite, WritesBack, At
    <3> QED  BY <3>1, <3>2, Lands
  <2> QED
    BY <2>1, <2>2, <2>3, <2>4, <2>5 DEF AckUnlink, FailRead, FailRename, MoveToFailed
<1>3. \A m \in Msgs : file[m] = NoEntry /\ file'[m] # NoEntry => WritesBack(o) /\ Msg(o) = m
  <2>1. CASE FailWrite(o)  BY <2>1 DEF FailWrite, TypeOK
  <2>2. CASE FailRename(o)  BY <2>2 DEF FailRename, WritesBack, At, TypeOK
  <2>3. CASE AckRename(o) \/ MoveToFailed(o)  BY <2>3 DEF AckRename, MoveToFailed, TypeOK
  <2>4. CASE AckUnlink(o) \/ FailRead(o) \/ FailOpen(o)
    BY <2>4 DEF AckUnlink, FailRead, FailOpen, disk
  <2> QED  BY <2>1, <2>2, <2>3, <2>4
<1>4. /\ own'[o].at # "idle" /\ own'[o].at # "sending"
      /\ WritesBack(o)' => \/ WritesBack(o) /\ own'[o].msg = Msg(o)
                           \/ file[own'[o].msg] # NoEntry
  BY <1>2 DEF WritesBack
<1> QED  BY <1>1, <1>2, <1>3, <1>4, OwnerStaysAway

LEMMA RecoveryStaysAway ==
  ASSUME TypeOK, Begun, NEW r \in Recoveries,
         Scan(r) \/ Read(r) \/ Pick(r) \/ RecoveryEnds(r)
  PROVE  Begun' /\ \A m \in Msgs : StaysAway(m)
<1>1. r \in Owners /\ r \notin Msgs  BY DEF Owners
<1>2. UNCHANGED <<file, log>>  BY DEF Scan, Read, Pick, RecoveryEnds, disk, writes
<1>3. /\ \A p \in Owners \ {r} : own'[p] = own[p]
      /\ own'[r].at = "sending" => InHand(own'[r].msg)
      /\ ~WritesBack(r)'
  <2>1. CASE Scan(r) \/ Read(r)
    <3>1. PICK point \in {"read", "pick"} : Goto(r, point)  BY <2>1 DEF Scan, Read
    <3>2. point \in Points  BY <3>1 DEF Points
    <3> QED  BY <1>1, <3>1, <3>2, Lands DEF WritesBack
  <2>2. CASE Pick(r)
    <3>1. PICK m \in Msgs, point \in {"fail1", "move", "pick", "sending"} :
            /\ Oldest(r, m) /\ own' = [own EXCEPT ![r] = Fresh(point, m, FALSE)]
      BY <2>2 DEF Pick, Judge
    <3> DEFINE w == Fresh(point, m, FALSE)
    <3>2. w.at = point /\ w.msg = m  BY DEF Fresh
    <3>3. own' = [own EXCEPT ![r] = w]  BY <3>1
    <3>4. InHand(m)  BY <3>1 DEF Oldest, Pending, InHand
    <3> HIDE DEF w
    <3> QED  BY <1>1, <3>2, <3>3, <3>4 DEF TypeOK, WritesBack
  <2>3. CASE RecoveryEnds(r)
    <3> DEFINE w == Place("idle")
    <3>1. own' = [own EXCEPT ![r] = w]  BY <2>3 DEF RecoveryEnds
    <3>2. w.at = "idle"  BY DEF Place, Fresh
    <3> HIDE DEF w
    <3> QED  BY <1>1, <3>1, <3>2 DEF TypeOK, WritesBack
  <2> QED  BY <2>1, <2>2, <2>3
<1>4. \A s \in Recoveries, m \in Msgs :
        todo'[s][m] # NoEntry => todo[s][m] # NoEntry \/ file[m] # NoEntry
  <2>1. todo \in [Recoveries -> [Msgs -> Entries]]  BY DEF TypeOK
  <2>2. CASE Scan(r)  BY <2>1, <2>2 DEF Scan
  <2>3. CASE Read(r)  BY <2>1, <2>3 DEF Read
  <2>4. CASE Pick(r)  BY <2>1, <2>4 DEF Pick
  <2>5. CASE RecoveryEnds(r)  BY <2>5 DEF RecoveryEnds
  <2> QED  BY <2>2, <2>3, <2>4, <2>5
<1> QED  BY <1>1, <1>2, <1>3, <1>4, OwnerStaysAway

LEMMA OtherStaysAway ==
  ASSUME TypeOK, Begun,
         \/ \E m \in Msgs : EnqueueDelivery(m) \/ DeliveryAborts(m) \/ BackoffElapses(m)
         \/ Restart \/ Crash \/ UNCHANGED vars
  PROVE  Begun' /\ \A m \in Msgs : StaysAway(m)
<1>1. ASSUME NEW n \in Msgs, EnqueueDelivery(n) PROVE Begun' /\ \A m \in Msgs : StaysAway(m)
  <2>1. n \in Owners /\ ~Stored(n)  BY <1>1 DEF Owners, EnqueueDelivery, Begun
  <2>2. PICK stored \in BOOLEAN : own' = [own EXCEPT ![n] = Fresh("sending", n, stored)]
    BY <1>1, Zenon DEF EnqueueDelivery
  <2>3. /\ own'[n].at = "sending" /\ own'[n].msg = n
        /\ \A p \in Owners \ {n} : own'[p] = own[p]
    <3> DEFINE w == Fresh("sending", n, stored)
    <3>1. w.at = "sending" /\ w.msg = n  BY DEF Fresh
    <3>2. own' = [own EXCEPT ![n] = w]  BY <2>2
    <3> HIDE DEF w
    <3> QED  BY <2>1, <3>1, <3>2 DEF TypeOK
  <2>4. /\ \A m \in Msgs \ {n} : (Stored(m)' <=> Stored(m)) /\ file'[m] = file[m]
        /\ UNCHANGED todo
    <3>1. log \in Seq(Msgs)  BY DEF TypeOK
    <3>2. log' = log \/ log' = Append(log, n)  BY <1>1 DEF EnqueueDelivery
    <3>3. \A m \in Msgs \ {n} : Stored(m)' <=> Stored(m)  BY <3>1, <3>2 DEF Stored
    <3>4. \A m \in Msgs \ {n} : file'[m] = file[m]  BY <1>1 DEF EnqueueDelivery, TypeOK
    <3> QED  BY <1>1, <3>3, <3>4 DEF EnqueueDelivery
  <2>5. Begun'
    <3> SUFFICES ASSUME NEW m \in Msgs, Stored(m)' PROVE ~At(m, "idle")'  BY DEF Begun
    <3>1. CASE m = n  BY <2>3, <3>1 DEF At
    <3>2. CASE m # n  BY <2>3, <2>4, <3>2 DEF Begun, At, Owners
    <3> QED  BY <3>1, <3>2
  <2>6. ASSUME NEW m \in Msgs, Gone(m) PROVE Gone(m)' /\ (InHand(m)' => InHand(m))
    <3>1. m # n  BY <2>1, <2>6 DEF Gone
    <3>2. Gone(m)'  BY <2>3, <2>4, <2>6, <3>1 DEF Gone, WritesBack, Msg
    <3>3. InHand(m)' => InHand(m)  BY <2>3, <2>4, <3>1 DEF InHand, At, Msg
    <3> QED  BY <3>2, <3>3
  <2> QED  BY <2>5, <2>6 DEF StaysAway
<1>2. ASSUME NEW n \in Msgs, DeliveryAborts(n) PROVE Begun' /\ \A m \in Msgs : StaysAway(m)
  <2>1. n \in Owners /\ UNCHANGED <<file, log, todo>>  BY <1>2 DEF Owners, DeliveryAborts, disk, writes
  <2>2. PICK point \in {"ack1", "done"} : Goto(n, point)  BY <1>2 DEF DeliveryAborts
  <2>3. point \in Points  BY <2>2 DEF Points
  <2>4. own'[n].at = point /\ \A p \in Owners \ {n} : own'[p] = own[p]
    BY <2>1, <2>2, <2>3, Lands
  <2>5. own'[n].at \notin {"idle", "fail2", "write", "rename", "sending"}  BY <2>2, <2>4
  <2> QED  BY <2>1, <2>4, <2>5, OwnerStaysAway DEF WritesBack
<1>3. ASSUME UNCHANGED <<own, file, log, todo>> PROVE Begun' /\ \A m \in Msgs : StaysAway(m)
  BY <1>3 DEF Begun, StaysAway, Gone, InHand, Stored, At, Msg, WritesBack
<1>4. CASE Restart
  <2>1. UNCHANGED <<file, log, todo>>  BY <1>4 DEF Restart, disk, writes
  <2>2. PICK r \in Recoveries : own' = [own EXCEPT ![r] = Place("scan")]  BY <1>4 DEF Restart
  <2>3. r \in Owners /\ r \notin Msgs  BY DEF Owners
  <2>4. own'[r].at = "scan" /\ \A p \in Owners \ {r} : own'[p] = own[p]
    <3> DEFINE w == Place("scan")
    <3>1. w.at = "scan"  BY DEF Place, Fresh
    <3>2. own' = [own EXCEPT ![r] = w]  BY <2>2
    <3> HIDE DEF w
    <3> QED  BY <2>3, <3>1, <3>2 DEF TypeOK
  <2> QED  BY <2>1, <2>3, <2>4, OwnerStaysAway DEF WritesBack
<1>5. CASE Crash
  <2>1. UNCHANGED <<file, log>> /\ \A r \in Recoveries, m \in Msgs : todo'[r][m] = NoEntry
    BY <1>5 DEF Crash, disk, writes
  <2>2. ASSUME NEW o \in Owners
        PROVE  /\ own'[o].at \notin {"sending", "fail2", "write", "rename"}
               /\ o \in Msgs /\ ~At(o, "idle") => own'[o].at # "idle"
    <3>1. PICK point \in {"scan", "done", "idle"} :
            /\ own'[o] = Place(point)
            /\ o \in Msgs /\ ~At(o, "idle") => point # "idle"
      <4>1. PICK r \in Recoveries :
              own' = [p \in Owners |-> Place(CASE p = r                         -> "scan"
                                               [] p \in Msgs /\ ~At(p, "idle")  -> "done"
                                               [] OTHER                         -> "idle")]
        BY <1>5 DEF Crash
      <4>2. CASE o = r  BY <4>1, <4>2
      <4>3. CASE o # r /\ o \in Msgs /\ ~At(o, "idle")  BY <4>1, <4>3
      <4>4. CASE o # r /\ ~(o \in Msgs /\ ~At(o, "idle"))  BY <4>1, <4>4
      <4> QED  BY <4>2, <4>3, <4>4
    <3>2. Place(point).at = point  BY DEF Place, Fresh
    <3> QED  BY <3>1, <3>2
  <2>3. Begun'  BY <2>1, <2>2 DEF Begun, Stored, At, Owners
  <2>4. ASSUME NEW m \in Msgs, Gone(m) PROVE Gone(m)' /\ ~InHand(m)'
    BY <2>1, <2>2, <2>4 DEF Gone, InHand, Stored, At, WritesBack
  <2> QED  BY <2>3, <2>4 DEF StaysAway
<1> QED  BY <1>1, <1>2, <1>3, <1>4, <1>5 DEF BackoffElapses, disk, writes, vars

LEMMA StepStaysAway ==
  ASSUME TypeOK, Begun, [Next]_vars
  PROVE  Begun' /\ \A m \in Msgs : StaysAway(m)
<1>1. ASSUME NEW o \in Owners, Progress(o) PROVE Begun' /\ \A m \in Msgs : StaysAway(m)
  BY <1>1, SendingStaysAway, FileStaysAway DEF Progress
<1>2. ASSUME NEW r \in Recoveries, RecoveryStep(r)
      PROVE  Begun' /\ \A m \in Msgs : StaysAway(m)
  BY <1>1, <1>2, RecoveryStaysAway DEF RecoveryStep, Owners
<1>3. CASE \/ \E m \in Msgs : EnqueueDelivery(m) \/ DeliveryAborts(m) \/ BackoffElapses(m)
           \/ Restart \/ Crash \/ UNCHANGED vars
  BY <1>3, OtherStaysAway
<1>4. CASE \E m \in Msgs : Progress(m)  BY <1>1, <1>4 DEF Owners
<1> QED  BY <1>2, <1>3, <1>4 DEF Next

(* No step stores a message again whose file is gone, or takes it up when   *)
(* nobody has it in hand (failDelivery and loadPendingDeliveries of          *)
(* delivery-queue-storage.ts, beside ackDelivery and moveToFailed).         *)
THEOREM MessagesStayGone == Spec => GoneForGood
<1>1. Init => Begun  BY DEF Init, Begun, Stored
<1>2. TypeOK /\ Begun /\ [Next]_vars => Begun'  BY StepStaysAway
<1>3. TypeOK /\ Begun /\ [Next]_vars =>
        [\A m \in Msgs : Gone(m) => Gone(m)' /\ (InHand(m)' => InHand(m))]_vars
  BY StepStaysAway DEF StaysAway
<1> QED  BY <1>1, <1>2, <1>3, DeliveryTypes, PTL DEF Spec, GoneForGood
=============================================================================
