---------------------------- MODULE ClientOutbox ----------------------------
(* The client's outbox (linux_client/client.cpp): gather_data builds one     *)
(* event per minute and appends it to the vector EVENTS, listen_thread sends *)
(* and empties EVENTS when the server asks.  The two threads share EVENTS,   *)
(* LOGGED_IN, currentUsers and CURRENT_EVENT_BLOCK; the mutex listen_thread  *)
(* takes is a local variable and excludes nobody.  The server's side is cut  *)
(* down to the connection, the received events and the event table with its  *)
(* UNIQUE key, which decides which of two events of a minute is kept.        *)
EXTENDS Integers, SequencesExt

CONSTANT MaxMinute      \* bound on the clock
ASSUME OutboxAssumption == MaxMinute \in Nat

Stamp == 1..MaxMinute   \* rounded timestamps an event can carry
NoEvent == 0

VARIABLES
    minute,       \* the wall clock, in minutes; the program starts in minute 0
    gpc, start,   \* gather_data: place, minute its current cycle began
    user,         \* currentUsers: "none", "local" or only "remote" users
    loggedIn,     \* LOGGED_IN
    block,        \* CURRENT_EVENT_BLOCK: NULL, a live array or a deleted one
    made,         \* EVENT, built and not yet pushed
    events,       \* EVENTS, the last one at the back
    lpc, hand,    \* listen_thread: place, the event read and not yet written
    conn,         \* the connection of the current request is intact
    inflight,     \* written on it, not yet read by the server
    received,     \* parsed by the server, waiting for upload_task
    table,        \* the event table: which kind of event a key holds
    rejected,     \* full events whose INSERT hit the UNIQUE key
    lost,         \* full events of which a copy is gone
    again,        \* history: events that stayed in EVENTS though they were read
    sends         \* history: how often an event was written or failed to be

gvars == <<gpc, start, user, loggedIn, block, made>>
lvars == <<lpc, hand, conn>>
svars == <<received, table, rejected>>
hvars == <<again, sends>>
vars  == <<minute, gvars, events, lvars, inflight, svars, lost, hvars>>

\* An event as the server sees it: a full one from EVENTS, with the number of
\* its copy, or a partial one made on request from CURRENT_EVENT_BLOCK.
Message == [stamp : Stamp, src : {"full"}, copy : Nat]
           \union [stamp : 0..MaxMinute, src : {"partial"}, copy : {0}]
Full(e, n) == [stamp |-> e, src |-> "full", copy |-> n]
Partial(t) == [stamp |-> t, src |-> "partial", copy |-> 0]
FullIn(S) == {e \in Stamp : \E m \in S : m.src = "full" /\ m.stamp = e}

Init ==
    /\ minute = 0
    /\ gpc = "login" /\ start = 0 /\ user = "none" /\ loggedIn = FALSE
    /\ block = "null" /\ made = NoEvent
    /\ events = <<>>
    /\ lpc = "accept" /\ hand = NoEvent /\ conn = FALSE
    /\ inflight = {} /\ received = {}
    /\ table = [k \in 0..MaxMinute |-> "none"]
    /\ rejected = {} /\ lost = {}
    /\ again = {} /\ sends = [e \in Stamp |-> 0]

Tick ==
    /\ minute < MaxMinute
    /\ minute' = minute + 1
    /\ UNCHANGED <<gvars, events, lvars, inflight, svars, lost, hvars>>

----------------------------------------------------------------------------
(* gather_data *)

\* logged_in() fills currentUsers; LOGGED_IN is set, the blocks are allocated.
GatherLogin(u) ==
    /\ gpc = "login"
    /\ user' = u
    /\ loggedIn' = (u # "none")
    /\ gpc' = IF u = "none" THEN "cleanup" ELSE "poll"
    /\ start' = minute
    /\ UNCHANGED <<minute, block, made, events, lvars, inflight, svars, lost, hvars>>

\* The processes are tallied into the blocks, which become the current ones.
GatherPoll ==
    /\ gpc = "poll"
    /\ block' = "live"
    /\ gpc' = "wait"
    /\ UNCHANGED <<minute, start, user, loggedIn, made, events, lvars, inflight,
                   svars, lost, hvars>>

\* Mutant: the cycle may end in the minute it began.
GatherBuildMutant ==
    /\ gpc = "wait"
    /\ made' = IF user = "local" THEN minute ELSE NoEvent
    /\ block' = "freed"
    /\ gpc' = "push"
    /\ UNCHANGED <<minute, start, user, loggedIn, events, lvars, inflight, svars,
                   lost, hvars>>

\* Mutant: the timestamp is rounded up.
GatherBuildRoundsUp ==
    /\ gpc = "wait" /\ minute > start
    /\ made' = IF user = "local" THEN minute + 1 ELSE NoEvent
    /\ block' = "freed"
    /\ gpc' = "push"
    /\ UNCHANGED <<minute, start, user, loggedIn, events, lvars, inflight, svars,
                   lost, hvars>>

\* The cycle ends at second 0 of a later minute: the event gets that minute as
\* its timestamp, and the blocks are deleted but stay the current ones.
GatherBuild ==
    /\ gpc = "wait" /\ minute > start
    /\ made' = IF user = "local" THEN minute ELSE NoEvent
    /\ block' = "freed"
    /\ gpc' = "push"
    /\ UNCHANGED <<minute, start, user, loggedIn, events, lvars, inflight, svars,
                   lost, hvars>>

GatherPush ==
    /\ gpc = "push"
    /\ events' = IF made # NoEvent THEN Append(events, made) ELSE events
    /\ made' = NoEvent
    /\ gpc' = "cleanup"
    /\ UNCHANGED <<minute, start, user, loggedIn, block, lvars, inflight, svars,
                   lost, hvars>>

\* resource_cleanup() clears currentUsers; LOGGED_IN keeps its value.
GatherCleanup ==
    /\ gpc = "cleanup"
    /\ user' = "none"
    /\ gpc' = "login"
    /\ UNCHANGED <<minute, start, loggedIn, block, made, events, lvars, inflight,
                   svars, lost, hvars>>

Gather ==
    \/ \E u \in {"none", "local", "remote"} : GatherLogin(u)
    \/ GatherPoll \/ GatherBuild \/ GatherPush \/ GatherCleanup

----------------------------------------------------------------------------
(* listen_thread, for a request '2' of the server *)

\* Mutant: only a local login lets the events out.
ListenRequestMutant ==
    /\ lpc = "accept"
    /\ loggedIn /\ user = "local"
    /\ lpc' = "sort" /\ conn' = TRUE
    /\ UNCHANGED <<minute, gvars, events, hand, inflight, svars, lost, hvars>>

\* accept, read_some, if(LOGGED_IN).  Nobody logged in: '8' is sent instead.
ListenRequest ==
    /\ lpc = "accept"
    /\ loggedIn
    /\ lpc' = "sort" /\ conn' = TRUE
    /\ UNCHANGED <<minute, gvars, events, hand, inflight, svars, lost, hvars>>

\* sort by content, which is not followed here: the events are in some order
\* afterwards.  unique finds nothing to erase.  Then if(EVENTS.empty()).
Orders(s) == Bijection(1..Len(s), Range(s))
ListenSort ==
    /\ lpc = "sort"
    /\ lpc' = IF events = <<>> THEN "current" ELSE "drain"
    /\ events' \in Orders(events)
    /\ UNCHANGED <<minute, gvars, hand, conn, inflight, svars, lost, hvars>>

\* get_current_event() reads CURRENT_EVENT_BLOCK, whatever it points to, and
\* stamps the event with the current minute.  A write error is not looked at.
\* Without a local user the event names none; such a row has a key of its own
\* in the table and is not followed further.
ListenCurrent ==
    /\ lpc = "current"
    /\ inflight' = IF conn /\ block # "null" /\ user = "local"
                   THEN inflight \union {Partial(minute)}
                   ELSE inflight
    /\ lpc' = "drain"
    /\ UNCHANGED <<minute, gvars, events, hand, conn, svars, lost, hvars>>

\* line = EVENTS.back()
ListenBack ==
    /\ lpc = "drain" /\ events # <<>>
    /\ hand' = Last(events)
    /\ lpc' = "pop"
    /\ UNCHANGED <<minute, gvars, events, conn, inflight, svars, lost, hvars>>

\* Mutant: the event stays in EVENTS until it has been written.
ListenPopMutant ==
    /\ lpc = "pop"
    /\ lpc' = "write"
    /\ UNCHANGED <<minute, gvars, events, hand, conn, inflight, svars, lost, hvars>>

\* EVENTS.pop_back(): an event pushed since back() was read goes unsent, and the
\* one that was read stays.
ListenPop ==
    /\ lpc = "pop"
    /\ events' = Front(events)
    /\ IF Last(events) = hand THEN UNCHANGED <<lost, again>>
       ELSE lost' = lost \union {Last(events)} /\ again' = again \union {hand}
    /\ lpc' = "write"
    /\ UNCHANGED <<minute, gvars, hand, conn, inflight, svars, sends>>

ListenWrite ==
    /\ lpc = "write"
    /\ IF conn THEN /\ inflight' = inflight \union {Full(hand, sends[hand])}
                    /\ UNCHANGED lost
               ELSE lost' = lost \union {hand} /\ UNCHANGED inflight
    /\ sends' = [sends EXCEPT ![hand] = @ + 1]
    /\ hand' = NoEvent
    /\ lpc' = "drain"
    /\ UNCHANGED <<minute, gvars, events, conn, svars, again>>

\* EVENTS was found empty ...
ListenDrained ==
    /\ lpc = "drain" /\ events = <<>>
    /\ lpc' = "clear"
    /\ UNCHANGED <<minute, gvars, events, hand, conn, inflight, svars, lost, hvars>>

\* ... and is cleared; the connection is closed and the server parses what it
\* has read until end of file.
ListenClear ==
    /\ lpc = "clear"
    /\ events' = <<>>
    /\ lost' = lost \union Range(events)
    /\ lpc' = "accept" /\ conn' = FALSE
    /\ received' = received \union inflight
    /\ inflight' = {}
    /\ UNCHANGED <<minute, gvars, hand, table, rejected, hvars>>

Listen ==
    \/ ListenRequest \/ ListenSort \/ ListenCurrent
    \/ ListenBack \/ ListenPop
    \/ ListenWrite \/ ListenDrained \/ ListenClear

----------------------------------------------------------------------------
(* The surroundings *)

\* The connection breaks (network outage, server gone): of what was written,
\* the server got some.
Break ==
    /\ conn
    /\ conn' = FALSE
    /\ \E got \in SUBSET inflight :
          /\ received' = received \union got
          /\ lost' = lost \union FullIn(inflight \ got)
    /\ inflight' = {}
    /\ UNCHANGED <<minute, gvars, events, lpc, hand, table, rejected, hvars>>

\* The client is killed or crashes, and starts again with nothing in memory.
Crash ==
    /\ lost' = lost \union Range(events) \union ({made, hand} \ {NoEvent})
                    \union FullIn(inflight)
    /\ gpc' = "login" /\ start' = 0 /\ user' = "none" /\ loggedIn' = FALSE
    /\ block' = "null" /\ made' = NoEvent
    /\ events' = <<>>
    /\ lpc' = "accept" /\ hand' = NoEvent /\ conn' = FALSE
    /\ inflight' = {}
    /\ UNCHANGED <<minute, svars, hvars>>

\* upload_task inserts one received event (in an order of its own); the UNIQUE
\* key (timestamp, machine, user, offset) refuses a second one.
Upload(m) ==
    /\ m \in received
    /\ received' = received \ {m}
    /\ IF table[m.stamp] = "none"
       THEN table' = [table EXCEPT ![m.stamp] = m.src] /\ UNCHANGED rejected
       ELSE /\ rejected' = IF m.src = "full" THEN rejected \union {m.stamp}
                           ELSE rejected
            /\ UNCHANGED table
    /\ UNCHANGED <<minute, gvars, events, lvars, inflight, lost, hvars>>

Next == Tick \/ Gather \/ Listen \/ Break \/ Crash \/ \E m \in received : Upload(m)

Spec == Init /\ [][Next]_vars

\* Both threads run; the server asks again and again, also while somebody is
\* logged in, and uploads what it received.
Fairness ==
    /\ WF_vars(Gather)
    /\ SF_vars(ListenRequest)
    /\ WF_vars(ListenSort \/ ListenCurrent \/ ListenBack \/ ListenPop
               \/ ListenWrite \/ ListenDrained \/ ListenClear)
    /\ WF_vars(\E m \in received : Upload(m))

FairSpec == Spec /\ Fairness

----------------------------------------------------------------------------
(* Properties *)

(* Every variable holds what its type in the code allows; a full event has a *)
(* timestamp a cycle can end in; a write has an event to write.              *)
TypeOK ==
    /\ minute \in 0..MaxMinute
    /\ gpc \in {"login", "poll", "wait", "push", "cleanup"}
    /\ start \in 0..MaxMinute
    /\ user \in {"none", "local", "remote"}
    /\ loggedIn \in BOOLEAN
    /\ block \in {"null", "live", "freed"}
    /\ made \in 0..MaxMinute
    /\ events \in Seq(Stamp)
    /\ lpc \in {"accept", "sort", "current", "drain", "pop", "write", "clear"}
    /\ hand \in 0..MaxMinute /\ (lpc \in {"pop", "write"} => hand # NoEvent)
    /\ lpc = "pop" => events # <<>>
    /\ conn \in BOOLEAN
    /\ inflight \subseteq Message /\ received \subseteq Message
    /\ table \in [0..MaxMinute -> {"none", "full", "partial"}]
    /\ rejected \subseteq Stamp /\ lost \subseteq Stamp
    /\ again \subseteq Stamp /\ sends \in [Stamp -> Nat]

Held   == Range(events) \union ({made, hand} \ {NoEvent})
Sent   == FullIn(inflight) \union FullIn(received)
Gone   == rejected \union lost
Stored == {e \in Stamp : table[e] = "full"}

\* The rearmost place of an event's copies.
PlaceOf(e) ==
    IF e \in Held THEN "held" ELSE IF e \in Sent THEN "sent"
    ELSE IF e \in Stored THEN "stored" ELSE IF e \in rejected THEN "rejected"
    ELSE IF e \in lost THEN "lost" ELSE "unbuilt"

(* The event of a minute is in one place only: in the vector, in a thread's  *)
(* hands, on the wire, with the server, in the table, or gone; so it is sent *)
(* at most once, and never both sent and lost.  The exception is an event    *)
(* that was read when another was pushed before pop_back(): it is sent       *)
(* again, and for each such event a later one is lost.                       *)
Single(e) ==
    /\ e \in Range(events) => e # made /\ (e # hand \/ lpc = "pop")
    /\ e = made => e # hand
    /\ e \in Sent => e \notin FullIn(inflight) \/ e \notin FullIn(received)
    /\ e \in Held => e \notin Sent
    /\ e \in Held \union Sent => e \notin Stored
    /\ e \in Held \union Sent \union Stored => e \notin Gone
    /\ e \in rejected => e \notin lost
    /\ sends[e] <= 1
OnePlace ==
    /\ \A e \in Stamp \ again : Single(e)
    /\ \A e \in again : \E f \in lost : f > e

(* Through two unsynchronised threads, broken connections and crashes, the   *)
(* event of each minute goes through EventLife.                              *)
Life == INSTANCE EventLife WITH Event <- Stamp,
                                place <- [e \in Stamp |-> PlaceOf(e)]
LifeImplemented == Life!Spec

(* While people keep logging in, an event that waits on the client does not  *)
(* wait forever: it is sent, or it is gone.                                  *)
NothingStuck ==
    []<>loggedIn => \A e \in Stamp : (e \in Range(events)) ~> (e \notin Held)
=============================================================================
