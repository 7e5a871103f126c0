-------------------------- MODULE MachineRegistry --------------------------
(* The in-memory registry of the monitoring server (server/main.cpp): the   *)
(* machines that called home, the address, blacklist flag and login status  *)
(* kept for each, and the threads that share them without a common lock:    *)
(*   - the listener  (listen_task / handle_listen), one connection at a time*)
(*   - the gatherer  (gather_task), which spawns one detached               *)
(*   - handler       (handle_gather) per machine and minute, and            *)
(*   - the updater   (update_mstatus), which copies the statuses to MySQL.  *)
(* One action is one access to a shared container, so that TLC explores     *)
(* every order in which the threads reach them.                             *)
EXTENDS Integers, Sequences

CONSTANTS Machine,   \* host names, as numbers in the key order of std::map
          Addr,      \* IPv4 addresses a client may call home from
          NoAddr,    \* "no entry in MAP_MNAME_IP"
          Blank,     \* an address string no client has (empty or garbage)
          Thread     \* handle_gather threads alive at once (model bound)

Absent == -1         \* "no entry in this map", "no row in this table"
NoName == 0          \* the empty host name, the least std::string

ASSUME RegistryAssumption ==
    /\ Machine \subseteq Nat
    /\ NoAddr \notin Addr /\ Blank \notin Addr /\ NoAddr # Blank

VARIABLES
    running,      \* the server process is up
    machineList,  \* MACHINE_LIST
    mnameIP,      \* MAP_MNAME_IP
    blacklist,    \* BLACKLIST: 1 not to be contacted, 0 contact
    status,       \* MAP_MNAME_STATUS: 1 logged in, 2 logged out, 3 offline
    dbStatus,     \* machine.machine_status in MySQL
    lpc, lmach, lfrom, lhome,  \* handle_listen: place, mName, peer, flag == 1
    gi,           \* gather_task: 0 between scans, else the index i + 1
    tpc, tmach, taddr,         \* handle_gather threads: place, machine, tempIP
    upc, uit,     \* update_mstatus: place and key of the iterator
    cutShort      \* history: listed machines whose address was never stored

mem    == <<machineList, mnameIP, blacklist, status>>
lvars  == <<lpc, lmach, lfrom, lhome>>
tvars  == <<tpc, tmach, taddr>>
uvars  == <<upc, uit>>
vars   == <<running, mem, dbStatus, lvars, gi, tvars, uvars, cutShort>>

----------------------------------------------------------------------------
\* Mutant: the lookup on MACHINE_LIST is dropped.
IsListedMutant(m) == FALSE
IsListed(m) == \E i \in DOMAIN machineList : machineList[i] = m

\* Mutant: the access counts instead of creating a 0.
TouchMutant(map, m) == [map EXCEPT ![m] = @ + 1]
\* map[key] of a std::map<string,int>: a missing key is created with value 0
Touch(map, m) == IF map[m] = Absent THEN [map EXCEPT ![m] = 0] ELSE map

Init ==
    /\ running = TRUE
    /\ machineList = <<>>
    /\ mnameIP = [m \in Machine |-> NoAddr]
    /\ blacklist = [m \in Machine |-> Absent]
    /\ status = [m \in Machine |-> Absent]
    /\ lpc = "accept" /\ lmach = Absent /\ lfrom = NoAddr /\ lhome = FALSE
    /\ gi = 0
    /\ tpc = [t \in Thread |-> "idle"]
    /\ tmach = [t \in Thread |-> Absent]
    /\ taddr = [t \in Thread |-> NoAddr]
    /\ upc = "next" /\ uit = -1
    /\ cutShort = {}
    /\ dbStatus = [m \in Machine |-> Absent]

----------------------------------------------------------------------------
(* handle_listen.  listen_task joins each handler before it accepts again,  *)
(* so there is one place counter.  A closed connection ends in ListenDone.  *)
ListenDone ==
    lpc' = "accept" /\ lmach' = Absent /\ lfrom' = NoAddr /\ lhome' = FALSE

ListenGoto(pc) == lpc' = pc /\ UNCHANGED <<lmach, lfrom, lhome>>

\* accept, read_some, split into flag and name, look the name up.  A message
\* with another flag from a machine not listed changes nothing.
ListenRead(m, a, home) ==
    /\ running /\ lpc = "accept"
    /\ IsListed(m) \/ home
    /\ lpc' = IF IsListed(m) THEN "unblack1" ELSE "push"
    /\ lmach' = m /\ lfrom' = a /\ lhome' = home
    /\ UNCHANGED <<running, mem, dbStatus, gi, tvars, uvars, cutShort>>

\* if(BLACKLIST[mName] == 1) BLACKLIST[mName] = 0, where a missing entry is
\* created as 0.  Done before the flag is looked at, and again for flag 1.
ListenUnblack ==
    /\ lpc \in {"unblack1", "unblack2"}
    /\ blacklist' = [blacklist EXCEPT ![lmach] = 0]
    /\ ListenGoto(IF lpc = "unblack1" THEN "addr1" ELSE "addr2")
    /\ UNCHANGED <<running, machineList, mnameIP, status, dbStatus, gi, tvars,
                   uvars, cutShort>>

ListenAddress ==
    /\ lpc \in {"addr1", "addr2"}
    /\ mnameIP' = [mnameIP EXCEPT ![lmach] = lfrom]
    /\ cutShort' = cutShort \ {lmach}
    /\ \/ lpc = "addr1" /\ lhome /\ ListenGoto("unblack2")
       \/ lpc = "addr1" /\ ~lhome /\ ListenDone
       \/ lpc = "addr2" /\ ListenGoto("send")
    /\ UNCHANGED <<running, machineList, blacklist, status, dbStatus, gi, tvars,
                   uvars>>

\* remote_endpoint() throws when the peer has reset the connection; the handler
\* ends.  Whether MAP_MNAME_IP[mName] was evaluated first, leaving an empty
\* string for a missing key, is up to the compiler.
ListenAddressThrows ==
    /\ lpc \in {"addr1", "addr2"}
    /\ \/ UNCHANGED mnameIP
       \/ mnameIP[lmach] = NoAddr /\ mnameIP' = [mnameIP EXCEPT ![lmach] = Blank]
    /\ ListenDone
    /\ UNCHANGED <<running, machineList, blacklist, status, dbStatus, gi, tvars,
                   uvars, cutShort>>

\* Mutant: the address is left to a later call.
ListenPushMutant ==
    /\ lpc = "push"
    /\ machineList' = Append(machineList, lmach)
    /\ ListenGoto("blins")
    /\ UNCHANGED <<running, mnameIP, blacklist, status, dbStatus, gi, tvars,
                   uvars, cutShort>>

ListenPush ==
    /\ lpc = "push"
    /\ machineList' = IF lmach # NoName THEN Append(machineList, lmach)
                                        ELSE machineList
    /\ ListenGoto("addrins")
    /\ UNCHANGED <<running, mnameIP, blacklist, status, dbStatus, gi, tvars,
                   uvars, cutShort>>

\* MAP_MNAME_IP.insert(...): map::insert keeps an entry that is there already.
ListenAddrInsert ==
    /\ lpc = "addrins"
    /\ mnameIP' = IF mnameIP[lmach] = NoAddr
                  THEN [mnameIP EXCEPT ![lmach] = lfrom] ELSE mnameIP
    /\ ListenGoto("blins")
    /\ UNCHANGED <<running, machineList, blacklist, status, dbStatus, gi, tvars,
                   uvars, cutShort>>

ListenAddrInsertThrows ==
    /\ lpc = "addrins"
    /\ cutShort' = IF IsListed(lmach) THEN cutShort \union {lmach} ELSE cutShort
    /\ ListenDone
    /\ UNCHANGED <<running, mem, dbStatus, gi, tvars, uvars>>

ListenBlackInsert ==
    /\ lpc = "blins"
    /\ blacklist' = Touch(blacklist, lmach)
    /\ ListenGoto("dbselect")
    /\ UNCHANGED <<running, machineList, mnameIP, status, dbStatus, gi, tvars,
                   uvars, cutShort>>

\* db_machine_insert up to the SELECT.  No connection, or a row: nothing more
\* is done.  No row, or a failed SELECT (its result has no rows): INSERT.
ListenDbSelect ==
    /\ lpc = "dbselect"
    /\ \E pc \in {"send", "dbinsert"} : ListenGoto(pc)
    /\ UNCHANGED <<running, mem, dbStatus, gi, tvars, uvars, cutShort>>

\* The text of the INSERT evaluates MAP_MNAME_STATUS[machine].  A row inserted
\* meanwhile by the updater makes the INSERT fail (UNIQUE machine_name).
ListenDbInsert(ok) ==
    /\ lpc = "dbinsert"
    /\ status' = Touch(status, lmach)
    /\ dbStatus' = IF ok /\ dbStatus[lmach] = Absent
                   THEN [dbStatus EXCEPT ![lmach] = status'[lmach]] ELSE dbStatus
    /\ ListenGoto("send")
    /\ UNCHANGED <<running, machineList, mnameIP, blacklist, gi, tvars, uvars,
                   cutShort>>

\* The program list is sent, or sending throws; either way the handler ends.
ListenSend ==
    /\ lpc = "send"
    /\ ListenDone
    /\ UNCHANGED <<running, mem, dbStatus, gi, tvars, uvars, cutShort>>

Listen ==
    \/ \E m \in Machine, a \in Addr, home \in BOOLEAN : ListenRead(m, a, home)
    \/ ListenUnblack \/ ListenAddress \/ ListenAddressThrows
    \/ ListenPush \/ ListenAddrInsert \/ ListenAddrInsertThrows
    \/ ListenBlackInsert \/ ListenDbSelect
    \/ \E ok \in BOOLEAN : ListenDbInsert(ok)
    \/ ListenSend

----------------------------------------------------------------------------
(* gather_task: once a minute, every listed machine that is not blacklisted *)
(* gets a thread of its own.  The list may grow during the scan.            *)
GatherStart ==
    /\ running /\ gi = 0 /\ machineList # <<>>
    /\ gi' = 1
    /\ UNCHANGED <<running, mem, dbStatus, lvars, tvars, uvars, cutShort>>

GatherSpawn(t) ==
    /\ gi \in DOMAIN machineList
    /\ blacklist' = Touch(blacklist, machineList[gi])
    /\ blacklist'[machineList[gi]] = 0
    /\ machineList[gi] # NoName
    /\ tpc[t] = "idle"
    /\ tpc' = [tpc EXCEPT ![t] = "check"]
    /\ tmach' = [tmach EXCEPT ![t] = machineList[gi]]
    /\ gi' = gi + 1
    /\ UNCHANGED <<running, machineList, mnameIP, status, dbStatus, lvars, taddr,
                   uvars, cutShort>>

GatherSkip ==
    /\ gi \in DOMAIN machineList
    /\ blacklist[machineList[gi]] = 1
    /\ gi' = gi + 1
    /\ UNCHANGED <<running, mem, dbStatus, lvars, tvars, uvars, cutShort>>

GatherDone ==
    /\ gi > Len(machineList)
    /\ gi' = 0
    /\ UNCHANGED <<running, mem, dbStatus, lvars, tvars, uvars, cutShort>>

Gather == GatherStart \/ (\E t \in Thread : GatherSpawn(t)) \/ GatherSkip
          \/ GatherDone

----------------------------------------------------------------------------
(* handle_gather *)
ThreadGoto(t, pc) == tpc' = [tpc EXCEPT ![t] = pc] /\ UNCHANGED <<tmach, taddr>>

ThreadDone(t) ==
    /\ tpc' = [tpc EXCEPT ![t] = "idle"]
    /\ tmach' = [tmach EXCEPT ![t] = Absent]
    /\ taddr' = [taddr EXCEPT ![t] = NoAddr]

\* if(BLACKLIST[machine] > 0) return
ThreadCheck(t) ==
    /\ tpc[t] = "check"
    /\ blacklist' = Touch(blacklist, tmach[t])
    /\ IF blacklist'[tmach[t]] > 0 THEN ThreadDone(t) ELSE ThreadGoto(t, "lookup")
    /\ UNCHANGED <<running, machineList, mnameIP, status, dbStatus, lvars, gi,
                   uvars, cutShort>>

\* it = MAP_MNAME_IP.find(machine); tempIP = it->second, with no test for end().
\* Reading through end() yields a garbage string, or a crash (Stop).
ThreadLookup(t) ==
    /\ tpc[t] = "lookup"
    /\ tpc' = [tpc EXCEPT ![t] = "contact"]
    /\ taddr' = [taddr EXCEPT ![t] = IF mnameIP[tmach[t]] = NoAddr THEN Blank
                                     ELSE mnameIP[tmach[t]]]
    /\ UNCHANGED <<running, mem, dbStatus, lvars, gi, tmach, uvars, cutShort>>

\* Mutant: a reply shows that the machine is back.
ThreadReplyMutant(t, s) ==
    /\ tpc[t] = "contact"
    /\ status' = [status EXCEPT ![tmach[t]] = s]
    /\ blacklist' = [blacklist EXCEPT ![tmach[t]] = 0]
    /\ IF s = 1 THEN ThreadGoto(t, "parse") ELSE ThreadDone(t)
    /\ UNCHANGED <<running, machineList, mnameIP, dbStatus, lvars, gi, uvars,
                   cutShort>>

\* A reply starting with '8' sets status 2, one starting with '2' sets status 1
\* and is then parsed.
ThreadReply(t, s) ==
    /\ tpc[t] = "contact"
    /\ status' = [status EXCEPT ![tmach[t]] = s]
    /\ IF s = 1 THEN ThreadGoto(t, "parse") ELSE ThreadDone(t)
    /\ UNCHANGED <<running, machineList, mnameIP, blacklist, dbStatus, lvars, gi,
                   uvars, cutShort>>

\* An empty or malformed reply, or an error that is only printed.
ThreadNoReply(t) ==
    /\ tpc[t] = "contact"
    /\ ThreadDone(t)
    /\ UNCHANGED <<running, mem, dbStatus, lvars, gi, uvars, cutShort>>

\* timed_out, connection_refused or host_unreachable is caught.
ThreadFail(t) ==
    /\ tpc[t] = "contact"
    /\ ThreadGoto(t, "black")
    /\ UNCHANGED <<running, mem, dbStatus, lvars, gi, uvars, cutShort>>

\* parse_event_block sets the status again for each event of the last minute.
ThreadParse(t, recent) ==
    /\ tpc[t] = "parse"
    /\ status' = IF recent THEN [status EXCEPT ![tmach[t]] = 1] ELSE status
    /\ ThreadDone(t)
    /\ UNCHANGED <<running, machineList, mnameIP, blacklist, dbStatus, lvars, gi,
                   uvars, cutShort>>

ThreadBlack(t) ==
    /\ tpc[t] = "black"
    /\ blacklist' = [blacklist EXCEPT ![tmach[t]] = 1]
    /\ ThreadGoto(t, "offline")
    /\ UNCHANGED <<running, machineList, mnameIP, status, dbStatus, lvars, gi,
                   uvars, cutShort>>

ThreadOffline(t) ==
    /\ tpc[t] = "offline"
    /\ status' = [status EXCEPT ![tmach[t]] = 3]
    /\ ThreadDone(t)
    /\ UNCHANGED <<running, machineList, mnameIP, blacklist, dbStatus, lvars, gi,
                   uvars, cutShort>>

HandleGather(t) ==
    \/ ThreadCheck(t) \/ ThreadLookup(t)
    \/ \E s \in {1, 2} : ThreadReply(t, s)
    \/ ThreadNoReply(t) \/ ThreadFail(t)
    \/ \E recent \in BOOLEAN : ThreadParse(t, recent)
    \/ ThreadBlack(t) \/ ThreadOffline(t)

----------------------------------------------------------------------------
(* update_mstatus: walk MAP_MNAME_STATUS in key order and write each status *)
(* to the machine's row.  A statement that fails is ignored.                *)
KeysAfter(k) == {m \in Machine : m > k /\ status[m] # Absent}

UpdateNext ==
    /\ running /\ upc = "next"
    /\ IF KeysAfter(uit) = {}
       THEN uit' = -1 /\ upc' = "next"        \* end(): sleep, start over
       ELSE /\ uit' \in {m \in KeysAfter(uit) : \A k \in KeysAfter(uit) : m <= k}
            /\ upc' = "fix"
    /\ UNCHANGED <<running, mem, dbStatus, lvars, gi, tvars, cutShort>>

\* if(it->second == 0): the test ...
UpdateTest ==
    /\ upc = "fix"
    /\ upc' = IF status[uit] = 0 THEN "fixset" ELSE "select"
    /\ UNCHANGED <<running, mem, dbStatus, lvars, gi, tvars, uit, cutShort>>

\* ... and the assignment MAP_MNAME_STATUS[it->first] = 2
UpdateFix ==
    /\ upc = "fixset"
    /\ status' = [status EXCEPT ![uit] = 2]
    /\ upc' = "select"
    /\ UNCHANGED <<running, machineList, mnameIP, blacklist, dbStatus, lvars, gi,
                   tvars, uit, cutShort>>

UpdateSelect(ok) ==
    /\ upc = "select"
    /\ upc' = IF ~ok THEN "next"
              ELSE IF dbStatus[uit] = Absent THEN "insert" ELSE "update"
    /\ UNCHANGED <<running, mem, dbStatus, lvars, gi, tvars, uit, cutShort>>

\* INSERT fails on a row the listener inserted meanwhile.  The UPDATE that
\* follows it names the machine where the status should be and always fails.
UpdateInsert(ok) ==
    /\ upc = "insert"
    /\ dbStatus' = IF ok /\ dbStatus[uit] = Absent
                   THEN [dbStatus EXCEPT ![uit] = status[uit]] ELSE dbStatus
    /\ upc' = "next"
    /\ UNCHANGED <<running, mem, lvars, gi, tvars, uit, cutShort>>

\* Mutant: an offline machine's row is not written at all.
UpdateRowMutant(ok) ==
    /\ upc = "update"
    /\ dbStatus' = IF ok /\ status[uit] # 3
                   THEN [dbStatus EXCEPT ![uit] = status[uit]] ELSE dbStatus
    /\ upc' = "next"
    /\ UNCHANGED <<running, mem, lvars, gi, tvars, uit, cutShort>>

UpdateRow(ok) ==
    /\ upc = "update"
    /\ dbStatus' = IF ok THEN [dbStatus EXCEPT ![uit] = status[uit]] ELSE dbStatus
    /\ upc' = "next"
    /\ UNCHANGED <<running, mem, lvars, gi, tvars, uit, cutShort>>

UpdateDb(ok) == UpdateSelect(ok) \/ UpdateInsert(ok) \/ UpdateRow(ok)

Update == UpdateNext \/ UpdateTest \/ UpdateFix \/ \E ok \in BOOLEAN : UpdateDb(ok)

----------------------------------------------------------------------------
(* The process is stopped by the init script, or dies of an uncaught        *)
(* exception or a memory error; the database keeps its rows.                *)
Stop ==
    /\ running
    /\ running' = FALSE
    /\ machineList' = <<>>
    /\ mnameIP' = [m \in Machine |-> NoAddr]
    /\ blacklist' = [m \in Machine |-> Absent]
    /\ status' = [m \in Machine |-> Absent]
    /\ ListenDone
    /\ gi' = 0
    /\ tpc' = [t \in Thread |-> "idle"]
    /\ tmach' = [t \in Thread |-> Absent]
    /\ taddr' = [t \in Thread |-> NoAddr]
    /\ upc' = "next" /\ uit' = -1
    /\ cutShort' = {}
    /\ UNCHANGED dbStatus

Start ==
    /\ ~running
    /\ running' = TRUE
    /\ UNCHANGED <<mem, dbStatus, lvars, gi, tvars, uvars, cutShort>>

Next ==
    \/ Listen \/ Gather \/ (\E t \in Thread : HandleGather(t)) \/ Update
    \/ Stop \/ Start

Spec == Init /\ [][Next]_vars

\* The updater's thread keeps running, and a database asked again and again
\* answers in the end.  Nothing is assumed of clients, of the listener and of
\* the handlers: an attempt to contact a machine may hang forever (the read has
\* no effective timeout).
Fairness ==
    /\ WF_vars(Update)
    /\ SF_vars(UpdateSelect(TRUE)) /\ SF_vars(UpdateInsert(TRUE))
    /\ SF_vars(UpdateRow(TRUE))

FairSpec == Spec /\ Fairness
----------------------------------------------------------------------------
(* Properties.                                                              *)
InFlight(m) == {t \in Thread : tmach[t] = m /\ tpc[t] \notin {"idle", "check"}}
Waiting(m)  == \E t \in Thread : tmach[t] = m /\ tpc[t] = "check"
Registering(m, pc) == lpc = pc /\ lmach = m

(* Every container, thread and iterator holds what its type in the code     *)
(* allows, and a busy thread or a running iteration names a machine.        *)
TypeOK ==
    /\ running \in BOOLEAN
    /\ machineList \in Seq(Machine)
    /\ mnameIP \in [Machine -> Addr \union {NoAddr, Blank}]
    /\ blacklist \in [Machine -> {Absent, 0, 1}]
    /\ status \in [Machine -> {Absent, 0, 1, 2, 3}]
    /\ dbStatus \in [Machine -> {Absent, 0, 1, 2, 3}]
    /\ lpc \in {"accept", "unblack1", "addr1", "unblack2", "addr2", "push",
                "addrins", "blins", "dbselect", "dbinsert", "send"}
    /\ lmach \in Machine \union {Absent} /\ (lpc # "accept" => lmach \in Machine)
    /\ lfrom \in Addr \union {NoAddr} /\ (lpc # "accept" => lfrom \in Addr)
    /\ lhome \in BOOLEAN
    /\ gi \in Nat
    /\ tpc \in [Thread -> {"idle", "check", "lookup", "contact", "parse", "black",
                           "offline"}]
    /\ tmach \in [Thread -> Machine \union {Absent}]
    /\ \A t \in Thread : tpc[t] # "idle" => tmach[t] \in Machine
    /\ taddr \in [Thread -> Addr \union {NoAddr, Blank}]
    /\ upc \in {"next", "fix", "fixset", "select", "insert", "update"}
    /\ uit \in Machine \union {-1} /\ (upc # "next" => uit \in Machine)
    /\ cutShort \subseteq Machine

(* A machine is on MACHINE_LIST at most once, so no machine is gathered     *)
(* twice in a scan.  find and push_back are separate steps of handle_listen *)
(* and only the join in listen_task keeps two of them apart.                *)
NoDuplicates ==
    \A i, j \in DOMAIN machineList : machineList[i] = machineList[j] => i = j

(* handle_gather dereferences MAP_MNAME_IP.find(machine) unchecked.  Outside *)
(* the window between push_back and insert, and unless a peer reset cut a    *)
(* registration short, every listed machine and every thread's machine has   *)
(* an entry; what goes wrong inside those two cases is the hazard.           *)
AddressKnown ==
    \A m \in Machine :
        IsListed(m) \/ Waiting(m) \/ InFlight(m) # {} =>
            mnameIP[m] # NoAddr \/ Registering(m, "addrins") \/ m \in cutShort

(* Statuses are kept, and a blacklist flag raised, only for machines that    *)
(* are registered, or whose registration is being written to the database;   *)
(* the updater's iterator never leaves the keys of the map.                  *)
OnlyRegisteredTracked ==
    /\ \A m \in Machine : blacklist[m] = 1 \/ status[m] \in {1, 3} => IsListed(m)
    /\ \A t \in Thread : tpc[t] # "idle" => IsListed(tmach[t])
    /\ upc # "next" => status[uit] # Absent

\* The machine's call, as its breaker sees it: BLACKLIST is cleared before
\* anything else is done for a listed machine.
CallOf(m) == IF lmach # m THEN "none" ELSE IF lpc = "unblack1" THEN "heard"
             ELSE "served"

(* For each machine the blacklist is a circuit breaker: handle_gather admits  *)
(* no attempt while it is open, only an admitted attempt opens it, only the   *)
(* listener closes it, while it serves a call of that machine (or a restart), *)
(* and no call ends without the flag having been down, whatever the order in  *)
(* which overlapping handlers, the gatherer and the listener touch the map.   *)
(* A handler may raise the flag again as soon as the listener cleared it.     *)
Breaker(m) == INSTANCE ContactBreaker WITH
                  Attempt <- Thread, open <- blacklist[m] = 1,
                  inflight <- InFlight(m), call <- CallOf(m)

BreakerImplemented ==
    /\ \A m \in Machine : Breaker(m)!Init
    /\ [][\A m \in Machine : Breaker(m)!Next \/ UNCHANGED Breaker(m)!vars]_vars

(* update_mstatus: every status in the map is written to the machine's row,   *)
(* unless it changes first or the server stops.                               *)
StatusStored ==
    \A m \in Machine : \A s \in 0..3 :
        (status[m] = s) ~> (dbStatus[m] = s \/ status[m] # s)
=============================================================================
