---------------------------- MODULE EventUpload ----------------------------
(* From the parser to the database (server/main.cpp).  Each handle_gather    *)
(* thread runs parse_event_block, which pushes the events of a response onto *)
(* EVENTS_TO_UPLOAD; upload_task pops the newest one and writes it, looking  *)
(* up the ids of its user and machine first.  event_mutex guards the vector; *)
(* upload_task holds it until the event has been dealt with.  The database   *)
(* is modelled by the outcome of each statement and by its UNIQUE keys.      *)
EXTENDS Integers, Sequences, SequencesExt

CONSTANTS Machine, User, Stamp,
          LongUser,    \* names longer than the column user_name, varchar(16)
          Parser,      \* threads that run parse_event_block (model bound)
          NoId,        \* the value of an id nothing was ever assigned to
          NoEvent,
          MaxParsed    \* bound on the events parsed

ASSUME UploadAssumption ==
    /\ MaxParsed \in Nat
    /\ LongUser \subseteq User
    /\ NoId \notin Machine \union User

Id == 1..MaxParsed

\* known (history): the machine had its row when the event was parsed.
Event == [id : Id, machine : Machine, user : User, stamp : Stamp, known : BOOLEAN]

ASSUME NoEventAssumption == NoEvent \notin Event

VARIABLES
    parsed,              \* how many events were parsed so far
    pev,                 \* per parser, the event it is about to push
    queue,               \* EVENTS_TO_UPLOAD
    mutex,               \* event_mutex: "free" or held by "uploader"
    session,             \* upload_task's connection: "none", "ok" or "lost"
    upc, hand,           \* upload_task: place, the event e
    userId, machineId,   \* user_id and machine_id, which start uninitialized
    users, machines,     \* names that have a row
    rows,                \* the event table, with the event each row came from
    rejected, lost       \* ids refused by the UNIQUE key; ids given up

qvars == <<parsed, pev, queue>>
uvars == <<mutex, upc, hand, userId, machineId>>
dvars == <<users, machines, rows>>
gone  == <<rejected, lost>>
vars  == <<qvars, session, uvars, dvars, gone>>

Init ==
    /\ parsed = 0
    /\ pev = [p \in Parser |-> NoEvent]
    /\ queue = <<>>
    /\ mutex = "free" /\ upc = "idle" /\ hand = NoEvent
    /\ userId = NoId /\ machineId = NoId
    /\ session \in {"none", "ok"}
    /\ users = {} /\ machines = {} /\ rows = {}
    /\ rejected = {} /\ lost = {}

----------------------------------------------------------------------------
(* parse_event_block, one event at a time *)
ParseEvent(p) ==
    /\ parsed < MaxParsed /\ pev[p] = NoEvent
    /\ \E m \in Machine, u \in User, s \in Stamp :
          pev' = [pev EXCEPT ![p] = [id |-> parsed + 1, machine |-> m, user |-> u,
                                     stamp |-> s, known |-> m \in machines]]
    /\ parsed' = parsed + 1
    /\ UNCHANGED <<queue, session, uvars, dvars, gone>>

\* lock, push_back, unlock
PushEvent(p) ==
    /\ pev[p] # NoEvent /\ mutex = "free"
    /\ queue' = Append(queue, pev[p])
    /\ pev' = [pev EXCEPT ![p] = NoEvent]
    /\ UNCHANGED <<parsed, session, uvars, dvars, gone>>

----------------------------------------------------------------------------
(* upload_task *)

\* Mutant: the vector is not locked.
UploadLockMutant ==
    /\ upc = "idle" /\ queue # <<>> /\ session # "none"
    /\ upc' = "back"
    /\ UNCHANGED <<qvars, session, mutex, hand, userId, machineId, dvars, gone>>

\* Mutant: the size of the vector is not looked at.
UploadLockBlindMutant ==
    /\ upc = "idle" /\ session # "none" /\ mutex = "free"
    /\ mutex' = "uploader"
    /\ upc' = "back"
    /\ UNCHANGED <<qvars, session, hand, userId, machineId, dvars, gone>>

\* Mutant: connected() notices the loss of the connection.
UploadLockConnectedMutant ==
    /\ upc = "idle" /\ queue # <<>> /\ session = "ok" /\ mutex = "free"
    /\ mutex' = "uploader"
    /\ upc' = "back"
    /\ UNCHANGED <<qvars, session, hand, userId, machineId, dvars, gone>>

\* EVENTS_TO_UPLOAD.size() != 0, conn.connected(), lock.  connected() tells
\* only that a connection was made once; when none was, the loop spins.
UploadLock ==
    /\ upc = "idle" /\ queue # <<>> /\ session # "none"
    /\ mutex = "free"
    /\ mutex' = "uploader"
    /\ upc' = "back"
    /\ UNCHANGED <<qvars, session, hand, userId, machineId, dvars, gone>>

\* user_id and machine_id are declared here, without a value: what the slots
\* hold is left from the last event, or anything.
UploadBack ==
    /\ upc = "back"
    /\ hand' = Last(queue)
    /\ userId' \in {userId, NoId} /\ machineId' \in {machineId, NoId}
    /\ upc' = "pop"
    /\ UNCHANGED <<qvars, session, mutex, dvars, gone>>

UploadPop ==
    /\ upc = "pop"
    /\ queue' = Front(queue)
    /\ upc' = "user"
    /\ UNCHANGED <<parsed, pev, session, mutex, hand, userId, machineId, dvars, gone>>

\* A statement succeeds only over a live connection, and may fail even then.
Succeeds(ok) == ok /\ session = "ok"

\* The iteration ends and the scoped lock is released.
Finish == upc' = "idle" /\ hand' = NoEvent /\ mutex' = "free"

\* A statement failed.  Its text stays in the query object, so that those
\* appended to it fail as well, and the event is given up.
GiveUp == Finish /\ lost' = lost \union {hand.id} /\ UNCHANGED rejected

Continue(pc) == upc' = pc /\ UNCHANGED <<hand, mutex, gone>>

\* A long name is stored cut off and never found again.
UserFound == hand.user \in users \ LongUser

UploadSelectUser(ok) ==
    /\ upc = "user"
    /\ \/ ~Succeeds(ok) /\ GiveUp /\ UNCHANGED userId
       \/ Succeeds(ok) /\ UserFound /\ userId' = hand.user /\ Continue("machine")
       \/ Succeeds(ok) /\ ~UserFound /\ Continue("adduser") /\ UNCHANGED userId
    /\ UNCHANGED <<qvars, session, machineId, dvars>>

\* Mutant: the new user's id is not read back.
UploadInsertUserMutant(ok) ==
    /\ upc = "adduser"
    /\ IF Succeeds(ok) /\ hand.user \notin users
       THEN users' = users \union {hand.user} /\ Continue("machine")
       ELSE GiveUp /\ UNCHANGED users
    /\ UNCHANGED <<qvars, session, userId, machineId, machines, rows>>

UploadInsertUser(ok) ==
    /\ upc = "adduser"
    /\ IF Succeeds(ok) /\ hand.user \notin users
       THEN users' = users \union {hand.user} /\ Continue("newuser")
       ELSE GiveUp /\ UNCHANGED users
    /\ UNCHANGED <<qvars, session, userId, machineId, machines, rows>>

UploadReselectUser(ok) ==
    /\ upc = "newuser"
    /\ IF Succeeds(ok)
       THEN userId' = (IF UserFound THEN hand.user ELSE userId) /\ Continue("machine")
       ELSE GiveUp /\ UNCHANGED userId
    /\ UNCHANGED <<qvars, session, machineId, dvars>>

\* No row: the loop over the result is empty and machine_id is not assigned.
UploadSelectMachine(ok) ==
    /\ upc = "machine"
    /\ IF Succeeds(ok)
       THEN /\ machineId' = IF hand.machine \in machines THEN hand.machine
                                                        ELSE machineId
            /\ Continue("event")
       ELSE GiveUp /\ UNCHANGED machineId
    /\ UNCHANGED <<qvars, session, userId, dvars>>

KeyOf(m, u, s) == [machine |-> m, user |-> u, stamp |-> s]
HandKey == KeyOf(machineId, userId, hand.stamp)
KeyTaken(k) == \E r \in rows : r.key = k

\* A failed INSERT is ignored; a second event of a key is refused.
UploadInsertEvent(ok) ==
    /\ upc = "event"
    /\ \/ ~Succeeds(ok) /\ GiveUp /\ UNCHANGED rows
       \/ /\ Succeeds(ok) /\ KeyTaken(HandKey) /\ Finish
          /\ rejected' = rejected \union {hand.id}
          /\ UNCHANGED <<rows, lost>>
       \/ /\ Succeeds(ok) /\ ~KeyTaken(HandKey) /\ Finish
          /\ rows' = rows \union {[key |-> HandKey, of |-> hand]}
          /\ UNCHANGED gone
    /\ UNCHANGED <<qvars, session, userId, machineId, users, machines>>

Statement(ok) ==
    \/ UploadSelectUser(ok) \/ UploadInsertUser(ok) \/ UploadReselectUser(ok)
    \/ UploadSelectMachine(ok) \/ UploadInsertEvent(ok)

Upload == UploadLock \/ UploadBack \/ UploadPop \/ \E ok \in BOOLEAN : Statement(ok)

----------------------------------------------------------------------------
(* The surroundings *)

\* The database goes away; upload_task never connects again.
SessionLost ==
    /\ session = "ok" /\ session' = "lost"
    /\ UNCHANGED <<qvars, uvars, dvars, gone>>

\* db_machine_insert or update_mstatus inserts a machine's row.
MachineRow(m) ==
    /\ m \notin machines
    /\ machines' = machines \union {m}
    /\ UNCHANGED <<qvars, session, uvars, users, rows, gone>>

QueueIds  == {e.id : e \in Range(queue)}
ParserIds == {e.id : e \in Range(pev) \ {NoEvent}}
HandIds   == {e.id : e \in {hand} \ {NoEvent}}
RowIds    == {r.of.id : r \in rows}

\* The server is restarted: what is in memory is gone.
Restart ==
    /\ lost' = lost \union QueueIds \union ParserIds \union HandIds
    /\ pev' = [p \in Parser |-> NoEvent] /\ queue' = <<>>
    /\ mutex' = "free" /\ upc' = "idle" /\ hand' = NoEvent
    /\ userId' = NoId /\ machineId' = NoId
    /\ session' \in {"none", "ok"}
    /\ UNCHANGED <<parsed, dvars, rejected>>

Next ==
    \/ \E p \in Parser : ParseEvent(p) \/ PushEvent(p)
    \/ Upload \/ SessionLost \/ (\E m \in Machine : MachineRow(m)) \/ Restart

Spec == Init /\ [][Next]_vars

\* Every statement returns, with a result or an error, and threads run.
Fairness == WF_vars(Upload) /\ \A p \in Parser : WF_vars(PushEvent(p))
FairSpec == Spec /\ Fairness

----------------------------------------------------------------------------
(* Properties *)

(* The vector, the threads, the ids and the tables are well typed.           *)
TypeOK ==
    /\ parsed \in 0..MaxParsed
    /\ pev \in [Parser -> Event \union {NoEvent}]
    /\ queue \in Seq(Event)
    /\ mutex \in {"free", "uploader"} /\ (mutex = "free" <=> upc = "idle")
    /\ session \in {"none", "ok", "lost"}
    /\ upc \in {"idle", "back", "pop", "user", "adduser", "newuser", "machine", "event"}
    /\ hand \in Event \union {NoEvent}
    /\ upc \notin {"idle", "back"} => hand # NoEvent
    /\ upc \in {"back", "pop"} => queue # <<>>
    /\ userId \in User \union {NoId} /\ machineId \in Machine \union {NoId}
    /\ users \subseteq User /\ machines \subseteq Machine
    /\ \A r \in rows : r.of \in Event
    /\ rejected \subseteq Id /\ lost \subseteq Id

(* An event whose machine had its row when it was parsed, and whose user     *)
(* name fits the column, is stored under its own machine and user: no id     *)
(* left from another event gets into its row.                                *)
RowsOwned ==
    \A r \in rows :
        r.of.known /\ r.of.user \notin LongUser =>
            r.key = KeyOf(r.of.machine, r.of.user, r.of.stamp)

(* parse_event_block and upload_task hand every event on exactly once: none  *)
(* is overtaken by a push between back() and pop_back(), uploaded twice, or   *)
(* stored after it was given up, through restarts and lost connections.      *)
Held == QueueIds \union ParserIds
Sent == HandIds \ QueueIds
PlaceOf(n) == CASE n \in Held     -> "held"
                [] n \in Sent     -> "sent"
                [] n \in RowIds   -> "stored"
                [] n \in rejected -> "rejected"
                [] n \in lost     -> "lost"
                [] OTHER          -> "unbuilt"
Life == INSTANCE EventLife WITH Event <- Id, again <- {},
                                place <- [n \in Id |-> PlaceOf(n)]
HandedOnOnce == Life!Spec

(* While upload_task had a connection once, no event stays in the vector for *)
(* good, even when the connection is lost (the event is then given up).  The *)
(* newest event goes first: MaxParsed makes the pushes end some time.        *)
Drained ==
    \A n \in Id : (session # "none" /\ n \in QueueIds) ~> n \notin QueueIds

(* linux_install/main.cpp:800-803: machines found in the events that are new *)
(* are added to the database by upload_task; and the machine of an EVENT is  *)
(* the one it came from (server/main.cpp:78).  A machine without a row is    *)
(* not added, and its event is stored under the machine of an earlier event. *)
NoForeignRows == \A r \in rows : r.key.machine \in {r.of.machine, NoId}
=============================================================================
