----------------------------- MODULE ProgramList -----------------------------
(* The client's list of monitored programs (linux_client/client.cpp).  The   *)
(* thread of call_home_task receives a list, writes it over the list file    *)
(* and appends the file to PROGRAM_LIST; the thread of gather_data loads the *)
(* file when it finds no program counted and polls which programs run, one   *)
(* bit per position of PROGRAM_LIST.  pf_mutex guards the file.              *)
EXTENDS Integers, FiniteSets, SequencesExt

CONSTANTS Program,
          NL,          \* the end of a line, and a blank entry of a list
          Missing,     \* there is no list file
          Lists,       \* lists the server may send, sequences of entries
          Texts,       \* contents the file may start with
          EventSize,   \* EVENTSIZE, bits per block
          MaxCalls     \* bound on the lists received

Entry == Program \union {NL}

ASSUME ListAssumption ==
    /\ NL \notin Program
    /\ Lists \subseteq Seq(Entry) /\ Texts \subseteq Seq(Entry)
    /\ Missing \notin Seq(Entry)
    /\ EventSize \in Nat \ {0} /\ MaxCalls \in Nat

VARIABLES
    file,        \* the file's text: program names, one cell each, and NLs
    mutex,       \* pf_mutex: "free", or who locked it last
    pc,          \* per thread
    list,        \* PROGRAM_LIST
    count,       \* PROGRAM_COUNT
    got,         \* per thread, the local count of linux_set_program_list
    incoming,    \* the text of the list that was received
    calls,       \* lists received
    pcount,      \* gather_data's pcount
    blocks,      \* positions whose bit is set in the blocks of this cycle
    seen,        \* history: programs found running in this cycle
    steady,      \* history: no list was written or loaded in this cycle
    loaded       \* history: the texts this process loaded

fvars == <<file, mutex>>
lvars == <<list, count, got, loaded>>
hvars == <<incoming, calls>>
gvars == <<pcount, blocks, seen>>
vars  == <<fvars, pc, lvars, hvars, gvars, steady>>

Thread == {"gather", "home"}

\* Every entry is followed by an NL; a blank one is the NL alone.
Text(l) ==
    FlattenSeq([i \in DOMAIN l |-> IF l[i] = NL THEN <<NL>> ELSE <<l[i], NL>>])

\* getline: the entry before each NL.
Lines(t) ==
    LET Ends(k) == {j \in 1..k : t[j] = NL}
        End(i)  == {k \in Ends(Len(t)) \ {1} : Cardinality(Ends(k)) = i}
    IN  [i \in 1..Cardinality(Ends(Len(t))) |->
            IF End(i) = {} THEN NL ELSE t[(CHOOSE k \in End(i) : TRUE) - 1]]

\* Written from the start of the file, which is not truncated.
Overlay(t, u) == u \o SubSeq(t, Len(u) + 1, Len(t))

Init ==
    /\ file \in Texts \union {Missing} /\ calls = 0
    /\ mutex = "free"
    /\ pc = [t \in Thread |-> IF t = "gather" THEN "start" ELSE "idle"]
    /\ list = <<>> /\ count = 0 /\ got = [t \in Thread |-> 0] /\ loaded = <<>>
    /\ incoming = <<>>
    /\ pcount = 0 /\ blocks = {} /\ seen = {} /\ steady = TRUE

Goto(t, at) == pc' = [pc EXCEPT ![t] = at]

----------------------------------------------------------------------------
(* linux_set_program_list, run by either thread *)

\* Where each thread goes on after the call.
Return(t) == Goto(t, IF t = "gather" THEN "begin" ELSE "idle")

SetLock(t) ==
    /\ pc[t] = "lock" /\ mutex = "free"
    /\ mutex' = t
    /\ Goto(t, "read")
    /\ UNCHANGED <<file, lvars, hvars, gvars, steady>>

\* fopen fails: the branch returns without an unlock.
SetFail(t) ==
    /\ pc[t] = "read" /\ file = Missing
    /\ Return(t)
    /\ UNCHANGED <<fvars, lvars, hvars, gvars, steady>>

\* Mutant: blank lines are skipped.
SetReadMutant(t) ==
    /\ pc[t] = "read" /\ file # Missing
    /\ list' = list \o SelectSeq(Lines(file), LAMBDA e : e # NL)
    /\ got' = [got EXCEPT ![t] = Len(Lines(file))]
    /\ loaded' = Append(loaded, file) /\ steady' = FALSE
    /\ mutex' = "free"
    /\ Goto(t, "count")
    /\ UNCHANGED <<file, count, hvars, gvars>>

\* Mutant: the mutex is not unlocked.
SetReadLockedMutant(t) ==
    /\ pc[t] = "read" /\ file # Missing
    /\ list' = list \o Lines(file)
    /\ got' = [got EXCEPT ![t] = Len(Lines(file))]
    /\ loaded' = Append(loaded, file) /\ steady' = FALSE
    /\ Goto(t, "count")
    /\ UNCHANGED <<fvars, count, hvars, gvars>>

\* Every line is appended to what PROGRAM_LIST held before; unlock.
SetRead(t) ==
    /\ pc[t] = "read" /\ file # Missing
    /\ list' = list \o Lines(file)
    /\ got' = [got EXCEPT ![t] = Len(Lines(file))]
    /\ loaded' = Append(loaded, file) /\ steady' = FALSE
    /\ mutex' = "free"
    /\ Goto(t, "count")
    /\ UNCHANGED <<file, count, hvars, gvars>>

\* Mutant: the end of the file is counted as a line, as on Windows.
SetCountMutant(t) ==
    /\ pc[t] = "count"
    /\ count' = got[t] + 1
    /\ Return(t)
    /\ UNCHANGED <<fvars, list, got, loaded, hvars, gvars, steady>>

\* PROGRAM_COUNT is set after the unlock.
SetCount(t) ==
    /\ pc[t] = "count"
    /\ count' = got[t]
    /\ Return(t)
    /\ UNCHANGED <<fvars, list, got, loaded, hvars, gvars, steady>>

SetProgramList(t) == SetLock(t) \/ SetFail(t) \/ SetRead(t) \/ SetCount(t)

----------------------------------------------------------------------------
(* gather_data, while somebody is logged in *)

\* A count of 0 makes gather_data load the list itself.
GatherStart ==
    /\ pc["gather"] = "start"
    /\ Goto("gather", IF count = 0 THEN "lock" ELSE "begin")
    /\ UNCHANGED <<fvars, lvars, hvars, gvars, steady>>

\* pcount = prog_number(), and the blocks are cleared.
GatherBegin ==
    /\ pc["gather"] = "begin"
    /\ pcount' = count /\ blocks' = {} /\ seen' = {} /\ steady' = TRUE
    /\ Goto("gather", "poll")
    /\ UNCHANGED <<fvars, lvars, hvars>>

\* The positions tally_program_count looks at: those of the pcount programs,
\* rounded up to whole blocks, as far as PROGRAM_LIST goes.
Blocks  == (pcount + EventSize - 1) \div EventSize
Watched == {i \in 1..Blocks * EventSize : i <= Len(list) /\ list[i] # NL}

\* The programs of R run.
GatherPoll(R) ==
    /\ pc["gather"] = "poll"
    /\ blocks' = blocks \union {i \in Watched : list[i] \in R}
    /\ seen' = seen \union R
    /\ UNCHANGED <<fvars, pc, lvars, hvars, pcount, steady>>

\* The minute is over, the event is built (module ClientOutbox).
GatherEnd ==
    /\ pc["gather"] = "poll"
    /\ Goto("gather", "start")
    /\ UNCHANGED <<fvars, lvars, hvars, gvars, steady>>

Gather == \/ SetProgramList("gather") \/ GatherStart \/ GatherBegin
          \/ (\E R \in SUBSET Program : GatherPoll(R)) \/ GatherEnd

----------------------------------------------------------------------------
(* call_home_task with a list received, and write_program_file *)

HomeReceive(l) ==
    /\ pc["home"] = "idle" /\ calls < MaxCalls
    /\ calls' = calls + 1
    /\ incoming' = Text(l)
    /\ Goto("home", "open")
    /\ UNCHANGED <<fvars, lvars, gvars, steady>>

\* An fstream opens only a file that exists; without one only the load is left.
HomeOpen ==
    /\ pc["home"] = "open"
    /\ Goto("home", IF file = Missing THEN "lock" ELSE "wlock")
    /\ UNCHANGED <<fvars, lvars, hvars, gvars, steady>>

\* Mutant: the file is written without the mutex.
HomeLockMutant ==
    /\ pc["home"] = "wlock"
    /\ Goto("home", "write")
    /\ UNCHANGED <<fvars, lvars, hvars, gvars, steady>>

HomeLock ==
    /\ pc["home"] = "wlock" /\ mutex = "free"
    /\ mutex' = "home"
    /\ Goto("home", "write")
    /\ UNCHANGED <<file, lvars, hvars, gvars, steady>>

\* A part of a list longer than the stream's buffer reaches the file.
HomeFlush ==
    /\ pc["home"] = "write"
    /\ \E k \in 1..(Len(incoming) - 1) :
          file' = Overlay(file, SubSeq(incoming, 1, k))
    /\ steady' = FALSE
    /\ Goto("home", "close")
    /\ UNCHANGED <<mutex, lvars, hvars, gvars>>

\* close, unlock, and on to set_program_list
HomeClose ==
    /\ pc["home"] \in {"write", "close"}
    /\ file' = Overlay(file, incoming)
    /\ steady' = FALSE
    /\ mutex' = "free"
    /\ Goto("home", "lock")
    /\ UNCHANGED <<lvars, hvars, gvars>>

\* What a received list starts.
WriteList == SetProgramList("home") \/ HomeOpen \/ HomeLock \/ HomeFlush \/ HomeClose

Home == (\E l \in Lists : HomeReceive(l)) \/ WriteList

\* The client is killed, or dies of a push_back that moves PROGRAM_LIST away
\* under a poll, and is started again; the file stays as it is.
Restart ==
    /\ mutex' = "free"
    /\ pc' = [t \in Thread |-> IF t = "gather" THEN "start" ELSE "idle"]
    /\ list' = <<>> /\ count' = 0 /\ got' = [t \in Thread |-> 0] /\ loaded' = <<>>
    /\ incoming' = <<>>
    /\ pcount' = 0 /\ blocks' = {} /\ seen' = {} /\ steady' = TRUE
    /\ UNCHANGED <<file, calls>>

Next == Gather \/ Home \/ Restart
Spec == Init /\ [][Next]_vars

\* Threads run.  The mutex is held for moments and free for the rest of the
\* minute, so a thread that waits for it gets it.
Fairness ==
    /\ WF_vars(Gather) /\ WF_vars(GatherEnd) /\ SF_vars(SetLock("gather"))
    /\ WF_vars(WriteList) /\ SF_vars(SetLock("home")) /\ SF_vars(HomeLock)
FairSpec == Spec /\ Fairness

----------------------------------------------------------------------------
(* Properties *)

(* The file, the list and the two threads are well typed.                    *)
TypeOK ==
    /\ file \in Seq(Entry) \union {Missing}
    /\ mutex \in Thread \union {"free"}
    /\ pc["gather"] \in {"start", "lock", "read", "count", "begin", "poll"}
    /\ pc["home"] \in {"idle", "open", "wlock", "write", "close", "lock", "read", "count"}
    /\ list \in Seq(Entry) /\ loaded \in Seq(Seq(Entry))
    /\ count \in 0..Len(list) /\ \A t \in Thread : got[t] \in 0..Len(list)
    /\ incoming \in Seq(Entry) /\ calls \in 0..MaxCalls
    /\ pcount \in 0..Len(list) /\ blocks \subseteq 1..Len(list)
    /\ seen \subseteq Program /\ steady \in BOOLEAN

(* linux_set_program_list never loads a file that write_program_file is in   *)
(* the middle of writing.                                                    *)
LoadsWholeFile == [][list' # list /\ loaded' # <<>> => pc["home"] # "close"]_vars

(* With a list file, pf_mutex is never left locked: who holds it is inside   *)
(* linux_set_program_list or write_program_file and goes on to unlock it.    *)
(* (Without one, the return after a failed fopen leaves it locked.)          *)
HolderInside ==
    mutex # "free" => file = Missing \/ pc[mutex] \in {"read", "write", "close"}

(* As long as the list was loaded once, a bit of the blocks stands for the   *)
(* program at its position of the file that was loaded, blank lines counted, *)
(* and that program was seen running.                                        *)
BitsOfFirstLoad ==
    Len(loaded) = 1 =>
        \A i \in blocks : i \in DOMAIN Lines(loaded[1]) /\ Lines(loaded[1])[i] \in seen

(* When the file is there, neither thread waits for pf_mutex for good, and   *)
(* gather_data goes on with a cycle every minute.                            *)
Waiting(t) == pc[t] \in {"lock", "wlock"}
NeverStuck ==
    file # Missing =>
        /\ []<>(pc["gather"] = "poll") \/ []<><<Restart>>_vars
        /\ \A t \in Thread : Waiting(t) ~> ~Waiting(t)

(* client.cpp:1251-1252: 1 bit per program, the first program in the list is *)
(* the first bit position.  In a cycle during which no list was written or   *)
(* loaded, and with no call home under way, a bit stands for the program at  *)
(* its position of the list file.                                            *)
BitsMeanPrograms ==
    steady /\ pc["home"] = "idle" =>
        \A i \in blocks : i \in DOMAIN Lines(file) /\ Lines(file)[i] \in seen
=============================================================================
