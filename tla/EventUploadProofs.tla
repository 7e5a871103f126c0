-------------------------- MODULE EventUploadProofs --------------------------
(* Proofs about EventUpload, for any machines, users, stamps, parsers and    *)
(* number of events: the types, whose rows the events become, and that       *)
(* parser, vector, uploader and tables implement EventLife.                  *)
EXTENDS EventUpload, TLAPS

(* The fields of an event.                                                   *)
LEMMA EventFields ==
    ASSUME NEW e \in Event
    PROVE  /\ e.id \in Id /\ e.machine \in Machine /\ e.user \in User
           /\ e.stamp \in Stamp /\ e.known \in BOOLEAN /\ e # NoEvent
  BY NoEventAssumption DEF Event

(* The newest event of the vector, and the vector without it.                *)
LEMMA LastAndFront ==
    ASSUME NEW s \in Seq(Event), s # <<>>
    PROVE  /\ Last(s) \in Event /\ Last(s) = s[Len(s)] /\ Len(s) \in DOMAIN s
           /\ Front(s) \in Seq(Event)
           /\ \A i \in DOMAIN Front(s) : i \in DOMAIN s /\ Front(s)[i] = s[i]
<1>1. Len(s) \in Nat \ {0} /\ DOMAIN s = 1..Len(s)
  OBVIOUS
<1>2. s[Len(s)] \in Event
  BY <1>1
<1>3. Front(s) = SubSeq(s, 1, Len(s) - 1)
  BY DEF Front
<1>4. Front(s) = [i \in 1..(Len(s) - 1) |-> s[i]]
  BY <1>1, <1>3
<1>5. QED
  BY <1>1, <1>2, <1>3, <1>4 DEF Last

(* The ids of what is in memory are ids.                                     *)
LEMMA IdsInMemory ==
    ASSUME TypeOK
    PROVE  QueueIds \subseteq Id /\ ParserIds \subseteq Id /\ HandIds \subseteq Id
<1>1. QueueIds \subseteq Id
  <2>1. \A e \in Range(queue) : e \in Event
    BY DEF Range, TypeOK
  <2>2. QED
    BY <2>1, EventFields DEF QueueIds
<1>2. ParserIds \subseteq Id
  <2>1. \A e \in Range(pev) \ {NoEvent} : e \in Event
    BY DEF Range, TypeOK
  <2>2. QED
    BY <2>1, EventFields DEF ParserIds
<1>3. HandIds \subseteq Id
  BY EventFields DEF HandIds, TypeOK
<1>4. QED
  BY <1>1, <1>2, <1>3

----------------------------------------------------------------------------
(* The vector, the uploader and the tables start well typed.                 *)
LEMMA TypeInit == Init => TypeOK
  BY UploadAssumption DEF Init, TypeOK, UploadAssumption, Id

(* The parser's steps keep the types.                                        *)
LEMMA TypeParse ==
    ASSUME TypeOK, NEW p \in Parser, ParseEvent(p) \/ PushEvent(p)
    PROVE  TypeOK'
<1>1. CASE ParseEvent(p)
  <2>1. PICK m \in Machine, u \in User, s \in Stamp :
           pev' = [pev EXCEPT ![p] = [id |-> parsed + 1, machine |-> m, user |-> u,
                                      stamp |-> s, known |-> m \in machines]]
    BY <1>1 DEF ParseEvent
  <2>2. parsed + 1 \in Id /\ parsed' \in 0..MaxParsed
    BY <1>1, UploadAssumption DEF ParseEvent, TypeOK, Id, UploadAssumption
  <2>3. [id |-> parsed + 1, machine |-> m, user |-> u, stamp |-> s,
         known |-> m \in machines] \in Event
    BY <2>2 DEF Event
  <2>4. pev' \in [Parser -> Event \union {NoEvent}]
    BY <2>1, <2>3 DEF TypeOK
  <2>5. QED
    BY <1>1, <2>2, <2>4 DEF ParseEvent, TypeOK, uvars, dvars, gone
<1>2. CASE PushEvent(p)
  <2>1. pev[p] \in Event /\ queue' = Append(queue, pev[p])
    BY <1>2 DEF PushEvent, TypeOK
  <2>2. queue' \in Seq(Event) /\ queue' # <<>>
    BY <2>1 DEF TypeOK
  <2>3. pev' \in [Parser -> Event \union {NoEvent}]
    BY <1>2 DEF PushEvent, TypeOK
  <2>4. QED
    BY <1>2, <2>2, <2>3 DEF PushEvent, TypeOK, uvars, dvars, gone
<1>3. QED
  BY <1>1, <1>2

(* A statement leaves the uploader's values well typed, whether it ends the  *)
(* iteration or not.                                                         *)
LEMMA TypeStatement ==
    ASSUME TypeOK, NEW ok \in BOOLEAN, Statement(ok)
    PROVE  TypeOK'
<1>1. upc \in {"user", "adduser", "newuser", "machine", "event"} /\ hand \in Event
  BY DEF Statement, UploadSelectUser, UploadInsertUser, UploadReselectUser,
         UploadSelectMachine, UploadInsertEvent, TypeOK
<1>2. /\ hand.id \in Id /\ hand.machine \in Machine /\ hand.user \in User
      /\ mutex = "uploader"
  BY <1>1, EventFields DEF TypeOK
<1> USE <1>1, <1>2 DEF TypeOK, qvars, dvars, gone, Finish, GiveUp, Continue
<1>3. CASE UploadSelectUser(ok)
  BY <1>3 DEF UploadSelectUser
<1>4. CASE UploadInsertUser(ok)
  BY <1>4 DEF UploadInsertUser
<1>5. CASE UploadReselectUser(ok)
  BY <1>5 DEF UploadReselectUser
<1>6. CASE UploadSelectMachine(ok)
  BY <1>6 DEF UploadSelectMachine
<1>7. CASE UploadInsertEvent(ok)
  <2>1. \A r \in rows' : r.of \in Event
    BY <1>7 DEF UploadInsertEvent
  <2>2. rejected' \subseteq Id /\ lost' \subseteq Id
    BY <1>7 DEF UploadInsertEvent
  <2>3. QED
    BY <1>7, <2>1, <2>2 DEF UploadInsertEvent
<1>8. QED
  BY <1>3, <1>4, <1>5, <1>6, <1>7 DEF Statement

(* The uploader's steps keep the types.                                      *)
LEMMA TypeUpload == ASSUME TypeOK, Upload PROVE TypeOK'
<1>1. CASE UploadLock
  BY <1>1 DEF UploadLock, TypeOK, qvars, dvars, gone
<1>2. CASE UploadBack
  <2>1. hand' \in Event /\ hand' # NoEvent
    BY <1>2, LastAndFront, NoEventAssumption DEF UploadBack, TypeOK
  <2>2. QED
    BY <1>2, <2>1 DEF UploadBack, TypeOK, qvars, dvars, gone
<1>3. CASE UploadPop
  <2>1. queue' \in Seq(Event)
    BY <1>3, LastAndFront DEF UploadPop, TypeOK
  <2>2. QED
    BY <1>3, <2>1 DEF UploadPop, TypeOK, dvars, gone
<1>4. CASE \E ok \in BOOLEAN : Statement(ok)
  BY <1>4, TypeStatement
<1>5. QED
  BY <1>1, <1>2, <1>3, <1>4 DEF Upload

(* Every step keeps the types.                                               *)
LEMMA TypeStep == TypeOK /\ [Next]_vars => TypeOK'
<1> SUFFICES ASSUME TypeOK, [Next]_vars PROVE TypeOK'
  OBVIOUS
<1>1. CASE \E p \in Parser : ParseEvent(p) \/ PushEvent(p)
  BY <1>1, TypeParse
<1>2. CASE Upload
  BY <1>2, TypeUpload
<1>3. CASE SessionLost
  BY <1>3 DEF SessionLost, TypeOK, qvars, uvars, dvars, gone
<1>4. CASE \E m \in Machine : MachineRow(m)
  BY <1>4 DEF MachineRow, TypeOK, qvars, uvars, gone
<1>5. CASE Restart
  <2>1. lost' \subseteq Id
    BY <1>5, IdsInMemory DEF Restart, TypeOK
  <2>2. QED
    BY <1>5, <2>1 DEF Restart, TypeOK, dvars
<1>6. CASE UNCHANGED vars
  BY <1>6 DEF TypeOK, vars, qvars, uvars, dvars, gone
<1>7. QED
  BY <1>1, <1>2, <1>3, <1>4, <1>5, <1>6 DEF Next

(* The vector, the threads, the ids and the tables of upload_task are well   *)
(* typed in every reachable state.                                           *)
THEOREM TypeCorrect == Spec => []TypeOK
  BY TypeInit, TypeStep, PTL DEF Spec

----------------------------------------------------------------------------
(* The invariant behind RowsOwned.  Known events stay known, because rows of *)
(* machines are never deleted; and from the statement that determines it up  *)
(* to the INSERT, each id is the one of the event in hand, whatever the slot *)
(* held before.                                                              *)
Grounded(e) == e.known => e.machine \in machines

IdsInv ==
    /\ TypeOK
    /\ \A p \in Parser : pev[p] # NoEvent => Grounded(pev[p])
    /\ \A i \in DOMAIN queue : Grounded(queue[i])
    /\ hand # NoEvent => Grounded(hand)
    /\ upc \in {"machine", "event"} /\ hand.user \notin LongUser => userId = hand.user
    /\ upc = "newuser" => hand.user \in users
    /\ upc = "event" /\ hand.known => machineId = hand.machine
    /\ RowsOwned

(* Nothing is parsed and no row is there at the start.                       *)
LEMMA IdsInit == Init => IdsInv
  BY TypeInit DEF Init, IdsInv, RowsOwned

(* The parser pushes events that are grounded.                               *)
LEMMA IdsParse ==
    ASSUME IdsInv, NEW p \in Parser, ParseEvent(p) \/ PushEvent(p)
    PROVE  IdsInv'
<1>1. TypeOK' /\ TypeOK
  BY TypeParse DEF IdsInv
<1>2. UNCHANGED <<uvars, dvars>>
  BY DEF ParseEvent, PushEvent
<1>3. \A q \in Parser : pev'[q] # NoEvent => Grounded(pev[q])'
  <2>1. CASE ParseEvent(p)
    <3> DEFINE Parsed(m, u, s) == [id |-> parsed + 1, machine |-> m, user |-> u,
                                   stamp |-> s, known |-> m \in machines]
    <3>1. PICK m \in Machine, u \in User, s \in Stamp :
              pev' = [pev EXCEPT ![p] = Parsed(m, u, s)]
      BY <2>1 DEF ParseEvent
    <3> DEFINE e == Parsed(m, u, s)
    <3>2. e.known => e.machine \in machines
      OBVIOUS
    <3>3. pev' = [pev EXCEPT ![p] = e]
      BY <3>1
    <3> HIDE DEF e, Parsed
    <3>4. \A q \in Parser : pev'[q] = e \/ pev'[q] = pev[q]
      BY <3>3, <1>1 DEF TypeOK
    <3>5. QED
      BY <3>2, <3>4, <1>2 DEF IdsInv, Grounded, dvars
  <2>2. CASE PushEvent(p)
    BY <2>2, <1>1, <1>2 DEF PushEvent, IdsInv, TypeOK, Grounded, dvars
  <2>3. QED
    BY <2>1, <2>2
<1>4. \A i \in DOMAIN queue' : Grounded(queue[i])'
  <2>1. CASE ParseEvent(p)
    BY <2>1, <1>2 DEF ParseEvent, IdsInv, Grounded, dvars
  <2>2. CASE PushEvent(p)
    <3>1. pev[p] \in Event /\ Grounded(pev[p]) /\ queue' = Append(queue, pev[p])
      BY <2>2, <1>1 DEF PushEvent, IdsInv, TypeOK
    <3>2. \A i \in DOMAIN queue' : queue'[i] = pev[p] \/ (i \in DOMAIN queue /\ queue'[i] = queue[i])
      BY <3>1, <1>1 DEF TypeOK
    <3>3. QED
      BY <3>1, <3>2, <1>2 DEF IdsInv, Grounded, dvars
  <2>3. QED
    BY <2>1, <2>2
<1>5. QED
  BY <1>1, <1>2, <1>3, <1>4 DEF IdsInv, Grounded, RowsOwned, KeyOf, uvars, dvars

(* A statement that goes on has determined its id, or left it to the next.   *)
LEMMA IdsStatement ==
    ASSUME IdsInv, NEW ok \in BOOLEAN, Statement(ok)
    PROVE  IdsInv'
<1>1. TypeOK' /\ TypeOK
  BY TypeStatement DEF IdsInv
<1>2. UNCHANGED <<pev, queue, machines>> /\ hand' \in {hand, NoEvent} /\ hand # NoEvent
  BY <1>1 DEF Statement, UploadSelectUser, UploadInsertUser, UploadReselectUser,
         UploadSelectMachine, UploadInsertEvent, TypeOK, qvars, dvars, Finish,
         GiveUp, Continue
<1>3. /\ \A p \in Parser : pev'[p] # NoEvent => Grounded(pev[p])'
      /\ \A i \in DOMAIN queue' : Grounded(queue[i])'
      /\ hand' # NoEvent => Grounded(hand)'
  BY <1>2 DEF IdsInv, Grounded
<1>4. CASE UploadSelectUser(ok)
  BY <1>1, <1>3, <1>4 DEF UploadSelectUser, IdsInv, UserFound, RowsOwned, dvars,
         Finish, GiveUp, Continue
<1>5. CASE UploadInsertUser(ok)
  BY <1>1, <1>3, <1>5 DEF UploadInsertUser, IdsInv, RowsOwned, Finish, GiveUp, Continue
<1>6. CASE UploadReselectUser(ok)
  BY <1>1, <1>3, <1>6 DEF UploadReselectUser, IdsInv, UserFound, RowsOwned, dvars,
         Finish, GiveUp, Continue
<1>7. CASE UploadSelectMachine(ok)
  BY <1>1, <1>2, <1>3, <1>7 DEF UploadSelectMachine, IdsInv, Grounded, RowsOwned,
         dvars, Finish, GiveUp, Continue
<1>8. CASE UploadInsertEvent(ok)
  <2>1. upc = "event" /\ upc' = "idle"
    BY <1>8 DEF UploadInsertEvent, Finish, GiveUp
  <2>2. \A r \in rows' : r \in rows \/ r = [key |-> HandKey, of |-> hand]
    BY <1>8 DEF UploadInsertEvent
  <2>3. hand.known /\ hand.user \notin LongUser =>
            HandKey = KeyOf(hand.machine, hand.user, hand.stamp)
    BY <2>1 DEF IdsInv, HandKey
  <2>4. RowsOwned'
    BY <2>2, <2>3 DEF IdsInv, RowsOwned, KeyOf
  <2>5. QED
    BY <1>1, <1>3, <2>1, <2>4 DEF IdsInv
<1>9. QED
  BY <1>4, <1>5, <1>6, <1>7, <1>8 DEF Statement

(* back() takes a grounded event into the hand, pop_back() drops it from the *)
(* vector.                                                                   *)
LEMMA IdsUpload == ASSUME IdsInv, Upload PROVE IdsInv'
<1>1. TypeOK' /\ TypeOK
  BY TypeUpload DEF IdsInv
<1>2. CASE UploadLock
  BY <1>1, <1>2 DEF UploadLock, IdsInv, Grounded, RowsOwned, KeyOf, qvars, dvars
<1>3. CASE UploadBack
  <2>1. hand' = queue[Len(queue)] /\ Len(queue) \in DOMAIN queue
    BY <1>1, <1>3, LastAndFront DEF UploadBack, TypeOK
  <2>2. Grounded(hand)'
    BY <1>3, <2>1 DEF UploadBack, IdsInv, Grounded, dvars
  <2>3. QED
    BY <1>1, <1>3, <2>2 DEF UploadBack, IdsInv, Grounded, RowsOwned, KeyOf, qvars, dvars
<1>4. CASE UploadPop
  <2>1. \A i \in DOMAIN queue' : i \in DOMAIN queue /\ queue'[i] = queue[i]
    BY <1>1, <1>4, LastAndFront DEF UploadPop, TypeOK
  <2>2. \A i \in DOMAIN queue' : Grounded(queue[i])'
    BY <1>4, <2>1 DEF UploadPop, IdsInv, Grounded, dvars
  <2>3. QED
    BY <1>1, <1>4, <2>2 DEF UploadPop, IdsInv, Grounded, RowsOwned, KeyOf, dvars
<1>5. CASE \E ok \in BOOLEAN : Statement(ok)
  BY <1>5, IdsStatement
<1>6. QED
  BY <1>2, <1>3, <1>4, <1>5 DEF Upload

(* Every step keeps the invariant; a machine's row only grounds more events. *)
LEMMA IdsStep == IdsInv /\ [Next]_vars => IdsInv'
<1> SUFFICES ASSUME IdsInv, [Next]_vars PROVE IdsInv'
  OBVIOUS
<1>0. TypeOK'
  BY TypeStep DEF IdsInv
<1>1. CASE \E p \in Parser : ParseEvent(p) \/ PushEvent(p)
  BY <1>1, IdsParse
<1>2. CASE Upload
  BY <1>2, IdsUpload
<1>3. CASE SessionLost
  BY <1>0, <1>3 DEF SessionLost, IdsInv, Grounded, RowsOwned, KeyOf, qvars, uvars, dvars
<1>4. CASE \E m \in Machine : MachineRow(m)
  BY <1>0, <1>4 DEF MachineRow, IdsInv, Grounded, RowsOwned, KeyOf, qvars, uvars
<1>5. CASE Restart
  BY <1>0, <1>5 DEF Restart, IdsInv, RowsOwned, KeyOf, dvars
<1>6. CASE UNCHANGED vars
  BY <1>0, <1>6 DEF vars, IdsInv, Grounded, RowsOwned, KeyOf, qvars, uvars, dvars
<1>7. QED
  BY <1>1, <1>2, <1>3, <1>4, <1>5, <1>6 DEF Next

(* Although user_id and machine_id start uninitialized, an event whose       *)
(* machine had its row when it was parsed, and whose user name fits the      *)
(* column, is stored under its own machine and user.                         *)
THEOREM RowsAreOwned == Spec => []RowsOwned
<1>1. IdsInv => RowsOwned
  BY DEF IdsInv
<1>2. QED
  BY <1>1, IdsInit, IdsStep, PTL DEF Spec

----------------------------------------------------------------------------
(* Parser, vector, uploader and tables implement EventLife: HandedOnOnce.    *)

Used == QueueIds \union ParserIds \union HandIds \union RowIds \union rejected \union lost

\* An id is used once, and only by an event that was parsed.
Fresh == \A n \in Used : n <= parsed

\* No event is in the vector twice, or with two parsers.
NoCopies ==
    /\ \A i, j \in DOMAIN queue : queue[i].id = queue[j].id => i = j
    /\ \A p, q \in Parser :
          pev[p] # NoEvent /\ pev[q] # NoEvent /\ pev[p].id = pev[q].id => p = q

\* Only between back() and pop_back() is an event in two places, as the newest
\* one of the vector and in the uploader's hand.
Apart ==
    /\ QueueIds \intersect ParserIds = {}
    /\ HandIds \intersect ParserIds = {}
    /\ upc # "pop" => HandIds \intersect QueueIds = {}
    /\ upc = "pop" => hand = Last(queue)
    /\ upc \in {"idle", "back"} => hand = NoEvent
    /\ (QueueIds \union ParserIds \union HandIds)
          \intersect (RowIds \union rejected \union lost) = {}
    /\ RowIds \intersect rejected = {} /\ RowIds \intersect lost = {}
    /\ rejected \intersect lost = {}

LifeInv == TypeOK /\ Fresh /\ NoCopies /\ Apart

Map == [n \in Id |-> PlaceOf(n)]

----------------------------------------------------------------------------
(* How the ids in memory change.                                             *)

(* The ids of the events in the vector, with the parsers and in the hand.    *)
LEMMA IdSets ==
    ASSUME TypeOK
    PROVE  /\ \A n : n \in QueueIds <=> \E i \in DOMAIN queue : queue[i].id = n
           /\ \A n : n \in ParserIds <=> \E p \in Parser : pev[p] # NoEvent /\ pev[p].id = n
           /\ HandIds = IF hand = NoEvent THEN {} ELSE {hand.id}
  BY DEF QueueIds, ParserIds, HandIds, Range, TypeOK

(* The same after a step.                                                    *)
LEMMA IdSetsAfter ==
    ASSUME TypeOK'
    PROVE  /\ \A n : n \in QueueIds' <=> \E i \in DOMAIN queue' : queue'[i].id = n
           /\ \A n : n \in ParserIds' <=> \E p \in Parser : pev'[p] # NoEvent /\ pev'[p].id = n
           /\ HandIds' = IF hand' = NoEvent THEN {} ELSE {hand'.id}
  BY DEF QueueIds, ParserIds, HandIds, Range, TypeOK

(* The ids in use are ids.                                                   *)
LEMMA UsedIds == ASSUME TypeOK PROVE Used \subseteq Id /\ Id \subseteq Nat /\ RowIds \subseteq Id
<1>1. RowIds \subseteq Id
  BY EventFields DEF RowIds, TypeOK
<1>2. Id \subseteq Nat
  BY DEF Id
<1>3. QED
  BY <1>1, <1>2, IdsInMemory DEF Used, TypeOK

(* A parsed event has a new id.                                              *)
LEMMA ParseIds ==
    ASSUME TypeOK, TypeOK', NEW p \in Parser, ParseEvent(p)
    PROVE  /\ ParserIds' = ParserIds \union {parsed + 1}
           /\ UNCHANGED <<QueueIds, HandIds, RowIds>>
           /\ pev'[p].id = parsed + 1 /\ \A q \in Parser \ {p} : pev'[q] = pev[q]
<1>1. /\ pev'[p] # NoEvent /\ pev[p] = NoEvent
      /\ pev'[p].id = parsed + 1 /\ \A q \in Parser \ {p} : pev'[q] = pev[q]
  <2>1. PICK m \in Machine, u \in User, s \in Stamp :
           pev' = [pev EXCEPT ![p] = [id |-> parsed + 1, machine |-> m, user |-> u,
                                      stamp |-> s, known |-> m \in machines]]
    BY DEF ParseEvent
  <2>2. [id |-> parsed + 1, machine |-> m, user |-> u, stamp |-> s,
         known |-> m \in machines] \in Event
    <3>1. parsed + 1 \in Id
      BY UploadAssumption DEF ParseEvent, TypeOK, Id, UploadAssumption
    <3>2. QED
      BY <3>1 DEF Event
  <2>3. pev[p] = NoEvent
    BY DEF ParseEvent
  <2>4. QED
    BY <2>1, <2>2, <2>3, NoEventAssumption DEF TypeOK
<1>2. \A n : n \in ParserIds' <=> n \in ParserIds \/ n = parsed + 1
  <2>1. \A n : n \in ParserIds' <=> \E q \in Parser : pev'[q] # NoEvent /\ pev'[q].id = n
    BY IdSetsAfter
  <2>2. \A n : n \in ParserIds <=> \E q \in Parser : pev[q] # NoEvent /\ pev[q].id = n
    BY IdSets
  <2>3. QED
    BY <1>1, <2>1, <2>2
<1>3. UNCHANGED <<QueueIds, HandIds, RowIds>>
  BY DEF ParseEvent, QueueIds, HandIds, RowIds, Range, uvars, dvars
<1>4. QED
  BY <1>1, <1>2, <1>3

(* A pushed event goes from its parser to the end of the vector.             *)
LEMMA PushIds ==
    ASSUME LifeInv, TypeOK', NEW p \in Parser, PushEvent(p)
    PROVE  /\ pev[p] \in Event
           /\ ParserIds' = ParserIds \ {pev[p].id} /\ pev[p].id \in ParserIds
           /\ QueueIds' = QueueIds \union {pev[p].id}
           /\ UNCHANGED <<HandIds, RowIds>>
           /\ Len(queue') = Len(queue) + 1 /\ DOMAIN queue' = 1..Len(queue')
           /\ queue'[Len(queue')] = pev[p]
           /\ \A i \in DOMAIN queue : i \in DOMAIN queue' /\ queue'[i] = queue[i]
           /\ \A i \in DOMAIN queue' : i = Len(queue') \/ i \in DOMAIN queue
<1>1. /\ pev[p] \in Event /\ pev[p] # NoEvent /\ queue' = Append(queue, pev[p])
      /\ pev'[p] = NoEvent /\ \A q \in Parser \ {p} : pev'[q] = pev[q]
  BY DEF PushEvent, LifeInv, TypeOK
<1>2. /\ Len(queue') = Len(queue) + 1 /\ DOMAIN queue' = 1..Len(queue')
      /\ queue'[Len(queue')] = pev[p]
      /\ \A i \in DOMAIN queue : i \in DOMAIN queue' /\ queue'[i] = queue[i]
      /\ \A i \in DOMAIN queue' : i = Len(queue') \/ i \in DOMAIN queue
  BY <1>1 DEF LifeInv, TypeOK
<1>3. \A n : n \in QueueIds' <=> n \in QueueIds \/ n = pev[p].id
  <2>1. \A n : n \in QueueIds' <=> \E i \in DOMAIN queue' : queue'[i].id = n
    BY IdSetsAfter
  <2>2. \A n : n \in QueueIds <=> \E i \in DOMAIN queue : queue[i].id = n
    BY IdSets DEF LifeInv
  <2>3. Len(queue') \in DOMAIN queue'
    BY <1>1 DEF LifeInv, TypeOK
  <2>4. QED
    BY <1>2, <2>1, <2>2, <2>3
<1>4. \A n : n \in ParserIds' <=> n \in ParserIds /\ n # pev[p].id
  <2>1. \A n : n \in ParserIds' <=> \E q \in Parser : pev'[q] # NoEvent /\ pev'[q].id = n
    BY IdSetsAfter
  <2>2. \A n : n \in ParserIds <=> \E q \in Parser : pev[q] # NoEvent /\ pev[q].id = n
    BY IdSets DEF LifeInv
  <2>3. \A q \in Parser \ {p} : pev[q] # NoEvent => pev[q].id # pev[p].id
    BY <1>1 DEF LifeInv, NoCopies
  <2>4. QED
    BY <1>1, <2>1, <2>2, <2>3
<1>5. pev[p].id \in ParserIds
  BY <1>1, IdSets DEF LifeInv
<1>6. UNCHANGED <<HandIds, RowIds>>
  BY DEF PushEvent, HandIds, RowIds, uvars, dvars
<1>7. QED
  BY <1>1, <1>2, <1>3, <1>4, <1>5, <1>6

(* pop_back() takes the event in hand out of the vector.                     *)
LEMMA PopIds ==
    ASSUME LifeInv, TypeOK', UploadPop
    PROVE  /\ QueueIds' = QueueIds \ {hand.id} /\ hand.id \in QueueIds
           /\ HandIds = {hand.id} /\ hand \in Event
           /\ UNCHANGED <<ParserIds, HandIds, RowIds>>
           /\ \A i \in DOMAIN queue' : i \in DOMAIN queue /\ queue'[i] = queue[i]
<1>1. /\ hand = queue[Len(queue)] /\ Len(queue) \in DOMAIN queue
      /\ hand \in Event /\ hand # NoEvent /\ queue' = Front(queue)
      /\ DOMAIN queue = 1..Len(queue)
  BY LastAndFront DEF UploadPop, LifeInv, TypeOK, Apart
<1>2. DOMAIN queue' = 1..(Len(queue) - 1) /\ \A i \in DOMAIN queue' : queue'[i] = queue[i]
  BY <1>1 DEF Front, LifeInv, TypeOK
<1>3. \A n : n \in QueueIds' <=> n \in QueueIds /\ n # hand.id
  <2>1. \A n : n \in QueueIds' <=> \E i \in DOMAIN queue' : queue'[i].id = n
    BY IdSetsAfter
  <2>2. \A n : n \in QueueIds <=> \E i \in DOMAIN queue : queue[i].id = n
    BY IdSets DEF LifeInv
  <2>3. \A i \in DOMAIN queue : i \in DOMAIN queue' <=> i # Len(queue)
    BY <1>1, <1>2 DEF LifeInv, TypeOK
  <2>4. \A i \in DOMAIN queue : i # Len(queue) <=> queue[i].id # hand.id
    BY <1>1 DEF LifeInv, NoCopies
  <2>5. \A i \in DOMAIN queue' : i \in DOMAIN queue
    BY <1>1, <1>2 DEF LifeInv, TypeOK
  <2>6. QED
    BY <1>2, <2>1, <2>2, <2>3, <2>4, <2>5
<1>4. hand.id \in QueueIds /\ HandIds = {hand.id}
  BY <1>1, IdSets DEF LifeInv
<1>5. UNCHANGED <<ParserIds, HandIds, RowIds>>
  BY DEF UploadPop, ParserIds, HandIds, RowIds, dvars
<1>6. \A i \in DOMAIN queue' : i \in DOMAIN queue
  BY <1>1, <1>2 DEF LifeInv, TypeOK
<1>7. QED
  BY <1>1, <1>2, <1>3, <1>4, <1>5, <1>6
(* back() copies the newest event of the vector into the hand.               *)
LEMMA BackIds ==
    ASSUME LifeInv, TypeOK', UploadBack
    PROVE  /\ hand' = Last(queue) /\ hand'.id \in QueueIds /\ HandIds' = {hand'.id}
           /\ HandIds = {} /\ UNCHANGED <<QueueIds, ParserIds, RowIds>>
<1>1. hand' = Last(queue) /\ hand' \in Event /\ hand' # NoEvent
      /\ hand' = queue[Len(queue)] /\ Len(queue) \in DOMAIN queue
  BY LastAndFront, NoEventAssumption DEF UploadBack, LifeInv, TypeOK
<1>2. hand'.id \in QueueIds
  BY <1>1, IdSets DEF LifeInv
<1>3. HandIds' = {hand'.id}
  BY <1>1, IdSetsAfter
<1>4. HandIds = {}
  BY IdSets DEF LifeInv, Apart, UploadBack
<1>5. UNCHANGED <<QueueIds, ParserIds, RowIds>>
  BY DEF UploadBack, QueueIds, ParserIds, RowIds, Range, qvars, dvars
<1>6. QED
  BY <1>1, <1>2, <1>3, <1>4, <1>5

(* A statement goes on with the same event, or settles it: in the table, as  *)
(* refused, or given up.                                                     *)
LEMMA StatementIds ==
    ASSUME LifeInv, TypeOK', NEW ok \in BOOLEAN, Statement(ok)
    PROVE  /\ upc \notin {"idle", "back", "pop"} /\ upc' \notin {"back", "pop"}
           /\ HandIds = {hand.id}
           /\ UNCHANGED <<parsed, pev, queue, QueueIds, ParserIds>>
           /\ upc' = "idle" => hand' = NoEvent
           /\ \/ UNCHANGED <<HandIds, RowIds, rejected, lost>>
              \/ /\ HandIds' = {}
                 /\ \/ lost' = lost \union {hand.id} /\ UNCHANGED <<RowIds, rejected>>
                    \/ rejected' = rejected \union {hand.id} /\ UNCHANGED <<RowIds, lost>>
                    \/ RowIds' = RowIds \union {hand.id} /\ UNCHANGED <<rejected, lost>>
<1>1. /\ upc \notin {"idle", "back", "pop"} /\ upc' \notin {"back", "pop"}
      /\ UNCHANGED <<parsed, pev, queue>>
      /\ upc' = "idle" => hand' = NoEvent
  BY DEF Statement, UploadSelectUser, UploadInsertUser, UploadReselectUser,
         UploadSelectMachine, UploadInsertEvent, Finish, GiveUp, Continue, qvars
<1>2. UNCHANGED <<QueueIds, ParserIds>>
  BY <1>1 DEF QueueIds, ParserIds, Range
<1>3. HandIds = {hand.id} /\ hand # NoEvent
  BY <1>1, IdSets DEF LifeInv, TypeOK
<1>4. \/ UNCHANGED <<hand, rows, gone>>
      \/ hand' = NoEvent /\ lost' = lost \union {hand.id} /\ UNCHANGED <<rows, rejected>>
      \/ hand' = NoEvent /\ rejected' = rejected \union {hand.id} /\ UNCHANGED <<rows, lost>>
      \/ hand' = NoEvent /\ rows' = rows \union {[key |-> HandKey, of |-> hand]} /\ UNCHANGED gone
  BY DEF Statement, UploadSelectUser, UploadInsertUser, UploadReselectUser,
         UploadSelectMachine, UploadInsertEvent, Finish, GiveUp, Continue, dvars
<1>5. rows' = rows => RowIds' = RowIds
  BY DEF RowIds
<1>6. rows' = rows \union {[key |-> HandKey, of |-> hand]} => RowIds' = RowIds \union {hand.id}
  <2> DEFINE r == [key |-> HandKey, of |-> hand]
  <2>1. r.of.id = hand.id
    OBVIOUS
  <2> HIDE DEF r
  <2>2. rows' = rows \union {r} => RowIds' = RowIds \union {r.of.id}
    BY DEF RowIds
  <2>3. QED
    BY <2>1, <2>2 DEF r
<1>7. hand' = NoEvent => HandIds' = {}
  BY IdSetsAfter
<1>8. hand' = hand => HandIds' = HandIds
  BY DEF HandIds
<1>9. QED
  BY <1>1, <1>2, <1>3, <1>4, <1>5, <1>6, <1>7, <1>8 DEF gone

(* A step that touches neither vector, parsers, hand nor tables.             *)
LEMMA QuietIds ==
    ASSUME UNCHANGED <<pev, queue, hand, rows, gone>>
    PROVE  UNCHANGED <<QueueIds, ParserIds, HandIds, RowIds, rejected, lost>>
  BY DEF QueueIds, ParserIds, HandIds, RowIds, Range, gone

(* A restart gives up what is in memory.                                     *)
LEMMA RestartIds ==
    ASSUME TypeOK', Restart
    PROVE  /\ QueueIds' = {} /\ ParserIds' = {} /\ HandIds' = {}
           /\ lost' = lost \union QueueIds \union ParserIds \union HandIds
           /\ UNCHANGED <<RowIds, rejected>>
<1>1. queue' = <<>> /\ hand' = NoEvent /\ \A p \in Parser : pev'[p] = NoEvent
  BY DEF Restart
<1>2. DOMAIN queue' = {}
  BY <1>1
<1>3. QueueIds' = {} /\ ParserIds' = {} /\ HandIds' = {}
  BY <1>1, <1>2, IdSetsAfter
<1>4. QED
  BY <1>3 DEF Restart, RowIds, dvars

----------------------------------------------------------------------------
(* The invariant.                                                            *)

(* At the start no id is used.                                               *)
LEMMA LifeInit == Init => LifeInv /\ Used = {}
<1> SUFFICES ASSUME Init PROVE LifeInv /\ Used = {}
  OBVIOUS
<1>1. TypeOK
  BY TypeInit
<1>2. DOMAIN queue = {} /\ hand = NoEvent /\ \A p \in Parser : pev[p] = NoEvent
  BY DEF Init
<1>3. QueueIds = {} /\ ParserIds = {} /\ HandIds = {}
  BY <1>1, <1>2, IdSets
<1>4. RowIds = {} /\ rejected = {} /\ lost = {}
  BY DEF Init, RowIds
<1>5. QED
  BY <1>1, <1>2, <1>3, <1>4 DEF LifeInv, Fresh, NoCopies, Apart, Used, Init

(* Every step keeps it.                                                      *)
LEMMA LifeInvStep == LifeInv /\ [Next]_vars => LifeInv'
<1> SUFFICES ASSUME LifeInv, [Next]_vars PROVE LifeInv'
  OBVIOUS
<1>0. TypeOK /\ TypeOK'
  BY TypeStep DEF LifeInv
<1>u. Used \subseteq Nat /\ parsed \in Nat
  BY <1>0, UsedIds DEF TypeOK
<1>q. ASSUME UNCHANGED <<parsed, pev, queue, hand, rows, gone>>,
             \/ upc' = upc
             \/ upc = "idle" /\ upc' = "back"
      PROVE  LifeInv'
  BY <1>0, <1>q, QuietIds DEF LifeInv, Fresh, NoCopies, Apart, Used
<1>1. ASSUME NEW p \in Parser, ParseEvent(p) PROVE LifeInv'
  <2>1. /\ ParserIds' = ParserIds \union {parsed + 1}
        /\ UNCHANGED <<QueueIds, HandIds, RowIds>>
        /\ pev'[p].id = parsed + 1 /\ \A q \in Parser \ {p} : pev'[q] = pev[q]
    BY <1>0, <1>1, ParseIds
  <2>2. parsed' = parsed + 1 /\ UNCHANGED <<queue, upc, hand, rejected, lost>>
    BY <1>1 DEF ParseEvent, uvars, gone
  <2>3. parsed + 1 \notin Used
    BY <1>u DEF LifeInv, Fresh
  <2>4. Fresh'
    BY <1>u, <2>1, <2>2 DEF LifeInv, Fresh, Used
  <2>5. NoCopies'
    <3>1. \A q \in Parser : pev[q] # NoEvent => pev[q].id # parsed + 1
      BY <1>0, <2>3, IdSets DEF Used
    <3>2. QED
      BY <2>1, <2>2, <3>1 DEF LifeInv, NoCopies
  <2>6. Apart'
    BY <2>1, <2>2, <2>3 DEF LifeInv, Apart, Used
  <2>7. QED
    BY <1>0, <2>4, <2>5, <2>6 DEF LifeInv
<1>2. ASSUME NEW p \in Parser, PushEvent(p) PROVE LifeInv'
  <2>1. /\ ParserIds' = ParserIds \ {pev[p].id} /\ pev[p].id \in ParserIds
        /\ QueueIds' = QueueIds \union {pev[p].id}
        /\ UNCHANGED <<HandIds, RowIds>>
    BY <1>0, <1>2, PushIds
  <2>2. UNCHANGED <<parsed, upc, hand, rejected, lost>> /\ upc = "idle"
    BY <1>0, <1>2 DEF PushEvent, TypeOK, uvars, gone
  <2>3. Fresh'
    BY <2>1, <2>2 DEF LifeInv, Fresh, Used
  <2>4. NoCopies'
    <3>1. \A i \in DOMAIN queue : queue[i].id # pev[p].id
      BY <1>0, <2>1, IdSets DEF LifeInv, Apart
    <3>2. \A i, j \in DOMAIN queue' : queue'[i].id = queue'[j].id => i = j
      <4>1. /\ queue'[Len(queue')] = pev[p]
            /\ \A i \in DOMAIN queue : queue'[i] = queue[i]
            /\ \A i \in DOMAIN queue' : i = Len(queue') \/ i \in DOMAIN queue
        BY <1>0, <1>2, PushIds
      <4>2. QED
        BY <3>1, <4>1 DEF LifeInv, NoCopies
    <3>3. \A q \in Parser : pev'[q] = pev[q] \/ pev'[q] = NoEvent
      BY <1>0, <1>2 DEF PushEvent, TypeOK
    <3>4. \A q, r \in Parser :
             pev'[q] # NoEvent /\ pev'[r] # NoEvent /\ pev'[q].id = pev'[r].id => q = r
      BY <3>3 DEF LifeInv, NoCopies
    <3>5. QED
      BY <3>2, <3>4 DEF NoCopies
  <2>5. Apart'
    BY <2>1, <2>2 DEF LifeInv, Apart
  <2>6. QED
    BY <1>0, <2>3, <2>4, <2>5 DEF LifeInv
<1>3. CASE UploadLock
  BY <1>3, <1>q DEF UploadLock, qvars, dvars
<1>4. CASE UploadBack
  <2>1. /\ hand' = Last(queue) /\ hand'.id \in QueueIds /\ HandIds' = {hand'.id}
        /\ HandIds = {} /\ UNCHANGED <<QueueIds, ParserIds, RowIds>>
    BY <1>0, <1>4, BackIds
  <2>2. UNCHANGED <<parsed, pev, queue, rejected, lost>> /\ upc' = "pop"
    BY <1>4 DEF UploadBack, qvars, gone
  <2>3. Fresh' /\ NoCopies' /\ Apart'
    BY <2>1, <2>2 DEF LifeInv, Fresh, NoCopies, Apart, Used
  <2>4. QED
    BY <1>0, <2>3 DEF LifeInv
<1>5. CASE UploadPop
  <2>1. /\ QueueIds' = QueueIds \ {hand.id} /\ hand.id \in QueueIds
        /\ HandIds = {hand.id}
        /\ UNCHANGED <<ParserIds, HandIds, RowIds>>
        /\ \A i \in DOMAIN queue' : i \in DOMAIN queue /\ queue'[i] = queue[i]
    BY <1>0, <1>5, PopIds
  <2>2. UNCHANGED <<parsed, pev, hand, rejected, lost>> /\ upc' = "user"
    BY <1>5 DEF UploadPop, gone
  <2>3. Fresh'
    BY <2>1, <2>2 DEF LifeInv, Fresh, Used
  <2>4. NoCopies'
    BY <2>1, <2>2 DEF LifeInv, NoCopies
  <2>5. Apart'
    BY <2>1, <2>2 DEF LifeInv, Apart
  <2>6. QED
    BY <1>0, <2>3, <2>4, <2>5 DEF LifeInv
<1>6. ASSUME NEW ok \in BOOLEAN, Statement(ok) PROVE LifeInv'
  <2>1. /\ upc \notin {"idle", "back", "pop"} /\ upc' \notin {"back", "pop"}
        /\ HandIds = {hand.id}
        /\ UNCHANGED <<parsed, pev, queue, QueueIds, ParserIds>>
        /\ upc' = "idle" => hand' = NoEvent
        /\ \/ UNCHANGED <<HandIds, RowIds, rejected, lost>>
           \/ /\ HandIds' = {}
              /\ \/ lost' = lost \union {hand.id} /\ UNCHANGED <<RowIds, rejected>>
                 \/ rejected' = rejected \union {hand.id} /\ UNCHANGED <<RowIds, lost>>
                 \/ RowIds' = RowIds \union {hand.id} /\ UNCHANGED <<rejected, lost>>
    BY <1>0, <1>6, StatementIds
  <2>2. Used' \subseteq Used
    BY <2>1 DEF Used
  <2>3. Fresh' /\ NoCopies'
    BY <2>1, <2>2 DEF LifeInv, Fresh, NoCopies
  <2>4. Apart'
    BY <2>1 DEF LifeInv, Apart
  <2>5. QED
    BY <1>0, <2>3, <2>4 DEF LifeInv
<1>7. CASE Restart
  <2>1. /\ QueueIds' = {} /\ ParserIds' = {} /\ HandIds' = {}
        /\ lost' = lost \union QueueIds \union ParserIds \union HandIds
        /\ UNCHANGED <<RowIds, rejected>>
    BY <1>0, <1>7, RestartIds
  <2>2. upc' = "idle" /\ hand' = NoEvent /\ parsed' = parsed /\ DOMAIN queue' = {}
        /\ \A p \in Parser : pev'[p] = NoEvent
    BY <1>7 DEF Restart
  <2>3. Fresh' /\ NoCopies' /\ Apart'
    BY <2>1, <2>2 DEF LifeInv, Fresh, NoCopies, Apart, Used
  <2>4. QED
    BY <1>0, <2>3 DEF LifeInv
<1>8. CASE SessionLost
  <2>1. UNCHANGED <<parsed, pev, queue, hand, rows, gone, upc>>
    BY <1>8 DEF SessionLost, qvars, uvars, dvars
  <2>2. QED
    BY <1>q, <2>1
<1>9. ASSUME NEW m \in Machine, MachineRow(m) PROVE LifeInv'
  <2>1. UNCHANGED <<parsed, pev, queue, hand, rows, gone, upc>>
    BY <1>9 DEF MachineRow, qvars, uvars
  <2>2. QED
    BY <1>q, <2>1
<1>10. CASE UNCHANGED vars
  <2>1. UNCHANGED <<parsed, pev, queue, hand, rows, gone, upc>>
    BY <1>10 DEF vars, qvars, uvars, dvars
  <2>2. QED
    BY <1>q, <2>1
<1>11. QED
  BY <1>1, <1>2, <1>3, <1>4, <1>5, <1>6, <1>7, <1>8, <1>9, <1>10 DEF Next, Upload

(* It holds in every reachable state.                                        *)
LEMMA AlwaysLifeInv == Spec => []LifeInv
<1>1. Init => LifeInv
  BY LifeInit
<1>2. QED
  BY <1>1, LifeInvStep, PTL DEF Spec
----------------------------------------------------------------------------
(* The refinement.  An event is held until pop_back(), and from then on, in  *)
(* the uploader's hand alone, sent.                                          *)

(* Where an event is, by what holds its id.                                  *)
LEMMA PlaceFacts ==
    ASSUME LifeInv, NEW n \in Id
    PROVE  /\ n \in Held => PlaceOf(n) = "held"
           /\ n \in Sent => PlaceOf(n) = "sent"
           /\ n \notin Used => PlaceOf(n) = "unbuilt"
  BY DEF LifeInv, Apart, PlaceOf, Held, Sent, Used

(* A step that moves no event is a stutter of EventLife.                     *)
LEMMA LifeQuiet ==
    ASSUME LifeInv, Held' = Held, Sent' = Sent, UNCHANGED <<RowIds, rejected, lost>>
    PROVE  Map' = Map
<1>1. ASSUME NEW n \in Id PROVE PlaceOf(n)' = PlaceOf(n)
  BY DEF PlaceOf
<1>2. QED
  BY <1>1 DEF Map

(* A new event is a Build.                                                   *)
LEMMA LifeBuild ==
    ASSUME LifeInv, NEW b \in Id, b \notin Used,
           Held' = Held \union {b}, Sent' = Sent, UNCHANGED <<RowIds, rejected, lost>>
    PROVE  Life!Build
<1>1. Map' = [n \in Id |-> IF n \in {b} THEN "held" ELSE Map[n]]
  <2>1. ASSUME NEW n \in Id, n # b PROVE PlaceOf(n)' = PlaceOf(n)
    BY <2>1 DEF PlaceOf
  <2>2. PlaceOf(b)' = "held"
    BY DEF PlaceOf, Used, Held, Sent
  <2>3. QED
    BY <2>1, <2>2 DEF Map
<1>2. Map[b] = "unbuilt"
  BY PlaceFacts DEF Map
<1>3. QED
  BY <1>1, <1>2 DEF Life!Build, Life!Move, Map

(* An event that is in the hand alone from now on is a Send.                 *)
LEMMA LifeSend ==
    ASSUME LifeInv, NEW b \in Id, b \in Held, Held' = Held \ {b},
           Sent' = Sent \union {b}, UNCHANGED <<RowIds, rejected, lost>>
    PROVE  Life!Send
<1>1. Map' = [n \in Id |-> IF n \in {b} THEN "sent" ELSE Map[n]]
  <2>1. ASSUME NEW n \in Id, n # b PROVE PlaceOf(n)' = PlaceOf(n)
    BY <2>1 DEF PlaceOf
  <2>2. b \notin RowIds \union rejected \union lost
    BY DEF LifeInv, Apart, Held
  <2>3. PlaceOf(b)' = "sent"
    BY <2>2 DEF PlaceOf
  <2>4. QED
    BY <2>1, <2>3 DEF Map
<1>2. Map[b] = "held"
  BY PlaceFacts DEF Map
<1>3. QED
  BY <1>1, <1>2 DEF Life!Send, Life!Move, Map

(* An event that gets a row, or is refused, is a Store or a Reject.          *)
LEMMA LifeSettle ==
    ASSUME LifeInv, NEW b \in Id, b \in Sent, Sent' = Sent \ {b}, Held' = Held,
           UNCHANGED lost,
           \/ RowIds' = RowIds \union {b} /\ rejected' = rejected
           \/ rejected' = rejected \union {b} /\ RowIds' = RowIds
    PROVE  Life!Store \/ Life!Reject
<1>1. Map[b] = "sent" /\ b \notin RowIds \union rejected \union lost /\ b \notin Held
  BY PlaceFacts DEF Map, LifeInv, Apart, Held, Sent
<1>2. ASSUME NEW n \in Id, n # b PROVE PlaceOf(n)' = PlaceOf(n)
  BY <1>2 DEF PlaceOf
<1>3. CASE RowIds' = RowIds \union {b} /\ rejected' = rejected
  <2>1. PlaceOf(b)' = "stored"
    BY <1>1, <1>3 DEF PlaceOf
  <2>2. Map' = [n \in Id |-> IF n \in {b} THEN "stored" ELSE Map[n]]
    BY <1>2, <2>1 DEF Map
  <2>3. QED
    BY <1>1, <2>2 DEF Life!Store, Life!Move, Map
<1>4. CASE rejected' = rejected \union {b} /\ RowIds' = RowIds
  <2>1. PlaceOf(b)' = "rejected"
    BY <1>1, <1>4 DEF PlaceOf
  <2>2. Map' = [n \in Id |-> IF n \in {b} THEN "rejected" ELSE Map[n]]
    BY <1>2, <2>1 DEF Map
  <2>3. QED
    BY <1>1, <2>2 DEF Life!Reject, Life!Move, Map
<1>5. QED
  BY <1>3, <1>4

(* Events that are held or sent and given up are a Lose.                     *)
LEMMA LifeLose ==
    ASSUME LifeInv, NEW S \in SUBSET Id, S \subseteq Held \union Sent,
           Held' = Held \ S, Sent' = Sent \ S, lost' = lost \union S,
           UNCHANGED <<RowIds, rejected>>
    PROVE  Life!Lose
<1>1. \A n \in S : Map[n] \in {"held", "sent"}
  BY PlaceFacts DEF Map
<1>2. \A n \in S : n \notin RowIds /\ n \notin rejected
  BY DEF LifeInv, Apart, Held, Sent
<1>3. ASSUME NEW n \in Id PROVE PlaceOf(n)' = IF n \in S THEN "lost" ELSE PlaceOf(n)
  BY <1>2 DEF PlaceOf
<1>4. Map' = [n \in Id |-> IF n \in S THEN "lost" ELSE Map[n]]
  BY <1>3 DEF Map
<1>5. ASSUME NEW n \in Id PROVE PlaceOf(n) \in Life!Place
  <2>1. n \in Held \/ n \in Sent \/ n \in RowIds \/ n \in rejected \/ n \in lost
        \/ n \notin Used
    BY DEF Used, Held, Sent
  <2>2. QED
    BY <2>1 DEF PlaceOf, LifeInv, Apart, Held, Sent, Used, Life!Place
<1>6. Map' \in [Id -> Life!Place]
  BY <1>3, <1>5 DEF Map, Life!Place
<1>7. QED
  BY <1>1, <1>4, <1>6 DEF Life!Lose, Map

(* Every step of the parsers, the uploader and their surroundings is a step  *)
(* of EventLife, or none.                                                    *)
LEMMA LifeStep ==
    LifeInv /\ [Next]_vars => Life!Next \/ UNCHANGED Map
<1> SUFFICES ASSUME LifeInv, [Next]_vars PROVE Life!Next \/ UNCHANGED Map
  OBVIOUS
<1>0. TypeOK /\ TypeOK'
  BY TypeStep DEF LifeInv
<1>q. ASSUME UNCHANGED <<pev, queue, hand, rows, gone>> PROVE UNCHANGED Map
  BY <1>q, QuietIds, LifeQuiet DEF Held, Sent
<1>1. ASSUME NEW p \in Parser, ParseEvent(p) PROVE Life!Next
  <2>1. /\ ParserIds' = ParserIds \union {parsed + 1}
        /\ UNCHANGED <<QueueIds, HandIds, RowIds, rejected, lost>>
    BY <1>0, <1>1, ParseIds DEF ParseEvent, gone
  <2>2. PICK b \in Id : b = parsed + 1
    BY <1>1, UploadAssumption DEF ParseEvent, LifeInv, TypeOK, Id, UploadAssumption
  <2>3. b \notin Used
    BY <1>0, <2>2, UsedIds DEF LifeInv, Fresh, TypeOK
  <2>4. Held' = Held \union {b} /\ Sent' = Sent
    BY <2>1, <2>2 DEF Held, Sent
  <2>5. QED
    BY <2>1, <2>3, <2>4, LifeBuild DEF Life!Next
<1>2. ASSUME NEW p \in Parser, PushEvent(p) PROVE UNCHANGED Map
  <2>1. /\ ParserIds' = ParserIds \ {pev[p].id} /\ pev[p].id \in ParserIds
        /\ QueueIds' = QueueIds \union {pev[p].id}
        /\ UNCHANGED <<HandIds, RowIds>>
    BY <1>0, <1>2, PushIds
  <2>2. UNCHANGED <<rejected, lost>>
    BY <1>2 DEF PushEvent, gone
  <2>3. Held' = Held /\ Sent' = Sent
    BY <2>1 DEF Held, Sent, LifeInv, Apart
  <2>4. QED
    BY <2>1, <2>2, <2>3, LifeQuiet
<1>3. CASE UploadLock
  BY <1>3, <1>q DEF UploadLock, qvars, dvars
<1>4. CASE UploadBack
  <2>1. /\ hand'.id \in QueueIds /\ HandIds' = {hand'.id}
        /\ HandIds = {} /\ UNCHANGED <<QueueIds, ParserIds, RowIds>>
    BY <1>0, <1>4, BackIds
  <2>2. UNCHANGED <<rejected, lost>>
    BY <1>4 DEF UploadBack, gone
  <2>3. Held' = Held /\ Sent' = Sent
    BY <2>1 DEF Held, Sent
  <2>4. QED
    BY <2>1, <2>2, <2>3, LifeQuiet
<1>5. CASE UploadPop
  <2>1. /\ QueueIds' = QueueIds \ {hand.id} /\ hand.id \in QueueIds
        /\ HandIds = {hand.id} /\ UNCHANGED <<ParserIds, HandIds, RowIds>>
        /\ hand \in Event
    BY <1>0, <1>5, PopIds
  <2>2. UNCHANGED <<rejected, lost>>
    BY <1>5 DEF UploadPop, gone
  <2>3. PICK b \in Id : b = hand.id
    BY <2>1, EventFields
  <2>4. b \in Held /\ Held' = Held \ {b} /\ Sent' = Sent \union {b}
    BY <2>1, <2>3 DEF Held, Sent, LifeInv, Apart
  <2>5. QED
    BY <2>1, <2>2, <2>4, LifeSend DEF Life!Next
<1>6. ASSUME NEW ok \in BOOLEAN, Statement(ok) PROVE Life!Next \/ UNCHANGED Map
  <2>1. /\ upc \notin {"idle", "back", "pop"} /\ HandIds = {hand.id}
        /\ UNCHANGED <<QueueIds, ParserIds>>
        /\ \/ UNCHANGED <<HandIds, RowIds, rejected, lost>>
           \/ /\ HandIds' = {}
              /\ \/ lost' = lost \union {hand.id} /\ UNCHANGED <<RowIds, rejected>>
                 \/ rejected' = rejected \union {hand.id} /\ UNCHANGED <<RowIds, lost>>
                 \/ RowIds' = RowIds \union {hand.id} /\ UNCHANGED <<rejected, lost>>
    BY <1>0, <1>6, StatementIds
  <2>2. PICK b \in Id : b = hand.id
    BY <1>0, <2>1, IdsInMemory
  <2>3. Held' = Held /\ b \in Sent /\ b \notin Held /\ Sent = {b}
    BY <2>1, <2>2 DEF Held, Sent, LifeInv, Apart
  <2>4. CASE UNCHANGED <<HandIds, RowIds, rejected, lost>>
    BY <2>1, <2>3, <2>4, LifeQuiet DEF Sent
  <2>5. CASE HandIds' = {} /\ lost' = lost \union {hand.id} /\ UNCHANGED <<RowIds, rejected>>
    <3>1. PICK S \in SUBSET Id : S = {b}
      OBVIOUS
    <3>2. S \subseteq Held \union Sent /\ Held' = Held \ S /\ Sent' = Sent \ S
          /\ lost' = lost \union S
      BY <2>2, <2>3, <2>5, <3>1 DEF Sent
    <3>3. QED
      BY <2>5, <3>2, LifeLose DEF Life!Next
  <2>6. CASE /\ HandIds' = {} /\ UNCHANGED lost
             /\ \/ rejected' = rejected \union {hand.id} /\ UNCHANGED RowIds
                \/ RowIds' = RowIds \union {hand.id} /\ UNCHANGED rejected
    <3>1. Sent' = Sent \ {b}
      BY <2>3, <2>6 DEF Sent
    <3>2. QED
      BY <2>2, <2>3, <2>6, <3>1, LifeSettle DEF Life!Next
  <2>7. QED
    BY <2>1, <2>4, <2>5, <2>6
<1>7. CASE Restart
  <2>1. /\ QueueIds' = {} /\ ParserIds' = {} /\ HandIds' = {}
        /\ lost' = lost \union QueueIds \union ParserIds \union HandIds
        /\ UNCHANGED <<RowIds, rejected>>
    BY <1>0, <1>7, RestartIds
  <2>2. PICK S \in SUBSET Id : S = QueueIds \union ParserIds \union HandIds
    BY <1>0, IdsInMemory
  <2>3. S \subseteq Held \union Sent /\ Held' = Held \ S /\ Sent' = Sent \ S
        /\ lost' = lost \union S
    BY <2>1, <2>2 DEF Held, Sent
  <2>4. QED
    BY <2>1, <2>3, LifeLose DEF Life!Next
<1>8. CASE SessionLost
  <2>1. UNCHANGED <<pev, queue, hand, rows, gone>>
    BY <1>8 DEF SessionLost, qvars, uvars, dvars
  <2>2. QED
    BY <1>q, <2>1
<1>9. ASSUME NEW m \in Machine, MachineRow(m) PROVE UNCHANGED Map
  <2>1. UNCHANGED <<pev, queue, hand, rows, gone>>
    BY <1>9 DEF MachineRow, qvars, uvars
  <2>2. QED
    BY <1>q, <2>1
<1>10. CASE UNCHANGED vars
  <2>1. UNCHANGED <<pev, queue, hand, rows, gone>>
    BY <1>10 DEF vars, qvars, uvars, dvars
  <2>2. QED
    BY <1>q, <2>1
<1>11. QED
  BY <1>1, <1>2, <1>3, <1>4, <1>5, <1>6, <1>7, <1>8, <1>9, <1>10 DEF Next, Upload

(* parse_event_block, the vector under event_mutex, upload_task and the      *)
(* tables hand every event on once: it is pushed, taken, and then stored,    *)
(* refused or given up, through restarts and failing statements.             *)
THEOREM UploadImplementsLife == Spec => HandedOnOnce
<1>1. Init => Life!Init
  <2> SUFFICES ASSUME Init PROVE Life!Init
    OBVIOUS
  <2>1. Used = {} /\ LifeInv
    BY LifeInit
  <2>2. \A n \in Id : PlaceOf(n) = "unbuilt"
    BY <2>1, PlaceFacts
  <2>3. QED
    BY <2>2 DEF Life!Init
<1>2. LifeInv /\ [Next]_vars => [Life!Next]_<<Map, {}>>
  <2>1. LifeInv /\ [Next]_vars => Life!Next \/ UNCHANGED <<Map, {}>>
    BY LifeStep
  <2>2. QED
    BY <2>1
<1>3. QED
  BY <1>1, <1>2, AlwaysLifeInv, PTL DEF Spec, HandedOnOnce, Life!Spec, Life!lifevars, Map
=============================================================================
