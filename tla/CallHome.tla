------------------------------ MODULE CallHome ------------------------------
(* How clients and server find each other again: call_home_task of every     *)
(* client (linux_client/client.cpp) composed with the registry, the listener *)
(* and the contacts of the server (server/main.cpp).  A client calls home    *)
(* when it never succeeded before or was not contacted for CALL_HOME         *)
(* minutes; the server contacts whom it has listed and not blacklisted, at   *)
(* the address of the last call.  Either program may stop and start, either  *)
(* host may vanish without closing its connections, clients change address.  *)
(* MachineRegistry has the accesses of the server's threads one by one.      *)
EXTENDS Integers

CONSTANTS Client, Addr,
          NoAddr,      \* no entry in MAP_MNAME_IP, no attempt
          NoClient,
          CallAfter    \* CALL_HOME, in minutes

ASSUME CallHomeAssumption ==
    CallAfter \in Nat /\ NoAddr \notin Addr /\ NoClient \notin Client

VARIABLES
    silent,    \* minutes since LAST_SERVER_COMMUNICATION, up to Overdue
    never,     \* NEVER_CONTACTED_SERVER
    hpc,       \* call_home_task: "idle", "queued" in the accept queue,
               \* "waiting" for the list, "list" in hand, "hung", or "down"
    addr,      \* the address the client has
    running,   \* the server process is up
    listed,    \* MACHINE_LIST
    ip, black, \* MAP_MNAME_IP; names with BLACKLIST 1
    attempt,   \* the address handle_gather is contacting for a name
    lpc, lcli  \* handle_listen: "accept", "read", "send" or "hung"; its peer

cvars == <<silent, never, hpc>>
rvars == <<listed, ip, black>>
lvars == <<lpc, lcli>>
vars  == <<cvars, addr, running, rvars, attempt, lvars>>

Overdue == CallAfter + 1
Up(c)   == hpc[c] # "down"

\* No two hosts have the same address.
Placement == {a \in [Client -> Addr] :
                 \A c, d \in Client : a[c] = a[d] => c = d}

Init ==
    /\ silent = [c \in Client |-> Overdue]     \* LAST_SERVER_COMMUNICATION = 0
    /\ never = [c \in Client |-> TRUE]
    /\ hpc \in [Client -> {"idle", "down"}]
    /\ addr \in Placement
    /\ running \in BOOLEAN
    /\ listed = {} /\ black = {}
    /\ ip = [c \in Client |-> NoAddr]
    /\ attempt = [c \in Client |-> NoAddr]
    /\ lpc = "accept" /\ lcli = NoClient

\* A minute passes.
Tick ==
    /\ \E c \in Client : silent[c] < Overdue
    /\ silent' = [c \in Client |-> IF silent[c] < Overdue THEN silent[c] + 1
                                   ELSE Overdue]
    /\ UNCHANGED <<never, hpc, addr, running, rvars, attempt, lvars>>

----------------------------------------------------------------------------
(* call_home_task.  A call that is refused, reset or answered with nothing   *)
(* ends in an exception and changes nothing: substr(1) of no answer throws.  *)
Due(c) == silent[c] = Overdue \/ never[c]

Call(c) ==
    /\ hpc[c] = "idle" /\ Due(c)
    /\ running /\ lpc = "accept"
    /\ hpc' = [hpc EXCEPT ![c] = "waiting"]
    /\ lpc' = "read" /\ lcli' = c
    /\ UNCHANGED <<silent, never, addr, running, rvars, attempt>>

\* listen_task joins a handler before it accepts again.
CallQueued(c) ==
    /\ hpc[c] = "idle" /\ Due(c)
    /\ running /\ lpc # "accept"
    /\ hpc' = [hpc EXCEPT ![c] = "queued"]
    /\ UNCHANGED <<silent, never, addr, running, rvars, attempt, lvars>>

\* The list was read up to the end of the connection.  What is done with it is
\* in ProgramList.
CallDone(c) ==
    /\ hpc[c] = "list"
    /\ hpc' = [hpc EXCEPT ![c] = "idle"]
    /\ silent' = [silent EXCEPT ![c] = 0]
    /\ never' = [never EXCEPT ![c] = FALSE]
    /\ UNCHANGED <<addr, running, rvars, attempt, lvars>>

Home(c) == Call(c) \/ CallQueued(c) \/ CallDone(c)

----------------------------------------------------------------------------
(* handle_listen.  The acceptor is made anew for each connection, so those   *)
(* still queued are reset when a handler ends.                               *)
Dequeued(h) == [c \in Client |-> IF h[c] = "queued" THEN "idle" ELSE h[c]]

\* Mutant: those queued stay so.
ListenDoneMutant(h) == lpc' = "accept" /\ lcli' = NoClient /\ hpc' = h

\* Mutant: the socket of the last peer is kept.
ListenDoneKeeps(h) == lpc' = "accept" /\ UNCHANGED lcli /\ hpc' = Dequeued(h)

ListenDone(h) == lpc' = "accept" /\ lcli' = NoClient /\ hpc' = Dequeued(h)

\* Mutant: the address of a machine that is listed is not looked at.
ListenReadMutant ==
    /\ lpc = "read" /\ hpc[lcli] = "waiting"
    /\ listed' = listed \union {lcli}
    /\ black' = black \ {lcli}
    /\ ip' = IF lcli \notin listed THEN [ip EXCEPT ![lcli] = addr[lcli]] ELSE ip
    /\ lpc' = "send"
    /\ UNCHANGED <<cvars, addr, running, attempt, lcli>>

\* A machine that is listed is taken off the blacklist and gets its address
\* stored; any other is added with its address.
ListenRead ==
    /\ lpc = "read" /\ hpc[lcli] = "waiting"
    /\ listed' = listed \union {lcli}
    /\ black' = black \ {lcli}
    /\ ip' = [ip EXCEPT ![lcli] = addr[lcli]]
    /\ lpc' = "send"
    /\ UNCHANGED <<cvars, addr, running, attempt, lcli>>

\* The peer has reset the connection.  Either the read fails and nothing is
\* changed, or it succeeds and remote_endpoint() throws, which leaves a new
\* machine without an address and an old one with its old one.
ListenThrows ==
    /\ lpc = "read" /\ hpc[lcli] # "waiting"
    /\ \/ UNCHANGED <<listed, black>>
       \/ listed' = listed \union {lcli} /\ black' = black \ {lcli}
    /\ ListenDone(hpc)
    /\ UNCHANGED <<silent, never, addr, running, ip, attempt>>

\* The list is sent and the connection closed.  It is empty when
\* current_prog_setup found no programs, and then the client throws.
ListenSend ==
    /\ lpc = "send"
    /\ \E got \in {"list", "idle"} :
          ListenDone([hpc EXCEPT ![lcli] = IF @ = "waiting" THEN got ELSE @])
    /\ UNCHANGED <<silent, never, addr, running, rvars, attempt>>

Listen == ListenRead \/ ListenThrows \/ ListenSend

----------------------------------------------------------------------------
(* gather_task and handle_gather, with one attempt per machine at a time     *)
(* (model bound).  A machine listed without an address is not contacted: the *)
(* look-up ends the attempt or the process (Stop).                           *)
Contact(c) ==
    /\ c \in listed \ black /\ attempt[c] = NoAddr
    /\ attempt' = [attempt EXCEPT ![c] = ip[c]]
    /\ ip[c] # NoAddr
    /\ UNCHANGED <<cvars, addr, running, rvars, lvars>>

\* Whoever has the address now answers, and takes note of the communication;
\* the answer is recorded under the name c.
Reach(c, d) ==
    /\ attempt[c] # NoAddr /\ addr[d] = attempt[c] /\ Up(d)
    /\ silent' = [silent EXCEPT ![d] = 0]
    /\ attempt' = [attempt EXCEPT ![c] = NoAddr]
    /\ UNCHANGED <<never, hpc, addr, running, rvars, lvars>>

\* timed_out, connection_refused, host_unreachable.
ContactFails(c) ==
    /\ attempt[c] # NoAddr
    /\ black' = black \union {c}
    /\ attempt' = [attempt EXCEPT ![c] = NoAddr]
    /\ UNCHANGED <<cvars, addr, running, listed, ip, lvars>>

Gather(c) == Contact(c) \/ ContactFails(c) \/ \E d \in Client : Reach(c, d)

----------------------------------------------------------------------------
(* Faults *)
Calling == {"waiting", "queued"}

\* The server ends.  Its connections are closed ("idle": the call throws), or
\* its host vanished and nothing is heard of them ever ("hung": the client
\* reads without a timeout).
ServerEnds(now) ==
    /\ running
    /\ running' = FALSE
    /\ listed' = {} /\ black' = {}
    /\ ip' = [c \in Client |-> NoAddr] /\ attempt' = [c \in Client |-> NoAddr]
    /\ lpc' = "accept" /\ lcli' = NoClient
    /\ hpc' = [c \in Client |-> IF hpc[c] \in Calling THEN now ELSE hpc[c]]
    /\ UNCHANGED <<silent, never, addr>>

Start ==
    /\ ~running
    /\ running' = TRUE
    /\ UNCHANGED <<cvars, addr, rvars, attempt, lvars>>

\* The client's process ends, or its host vanishes while the listener waits for
\* its message, which it does without a timeout.
ClientEnds(c) ==
    /\ Up(c)
    /\ hpc' = [hpc EXCEPT ![c] = "down"]
    /\ UNCHANGED <<silent, never, addr, running, rvars, attempt>>
    /\ \/ UNCHANGED lvars
       \/ lpc = "read" /\ lcli = c /\ hpc[c] = "waiting"
          /\ lpc' = "hung" /\ UNCHANGED lcli

ClientStarts(c) ==
    /\ ~Up(c)
    /\ hpc' = [hpc EXCEPT ![c] = "idle"]
    /\ silent' = [silent EXCEPT ![c] = Overdue]
    /\ never' = [never EXCEPT ![c] = TRUE]
    /\ UNCHANGED <<addr, running, rvars, attempt, lvars>>

\* Addresses are handed out anew, between calls.
Move ==
    /\ addr' \in Placement
    /\ \A c \in Client : addr'[c] # addr[c] => hpc[c] \in {"idle", "down"}
    /\ UNCHANGED <<cvars, running, rvars, attempt, lvars>>

Fault ==
    \/ (\E now \in {"idle", "hung"} : ServerEnds(now)) \/ Start \/ Move
    \/ \E c \in Client : ClientEnds(c) \/ ClientStarts(c)

Next == Tick \/ Listen \/ (\E c \in Client : Home(c) \/ Gather(c)) \/ Fault

Spec == Init /\ [][Next]_vars

\* Time passes, the client's threads and the listener run, and a client that
\* calls every second meets the listener free in the end.
Fairness ==
    /\ WF_vars(Tick) /\ WF_vars(Listen)
    /\ \A c \in Client : SF_vars(Call(c)) /\ WF_vars(CallDone(c))

FairSpec == Spec /\ Fairness
----------------------------------------------------------------------------
(* Properties.                                                              *)

\* The domain of every variable; only a machine that is listed is blacklisted,
\* and a handler has a peer as long as it runs.
TypeOK ==
    /\ silent \in [Client -> 0..Overdue]
    /\ never \in [Client -> BOOLEAN]
    /\ hpc \in [Client -> {"idle", "queued", "waiting", "list", "hung", "down"}]
    /\ addr \in Placement
    /\ running \in BOOLEAN
    /\ listed \subseteq Client /\ black \subseteq listed
    /\ ip \in [Client -> Addr \union {NoAddr}]
    /\ attempt \in [Client -> Addr \union {NoAddr}]
    /\ lpc \in {"accept", "read", "send", "hung"}
    /\ lcli \in Client \union {NoClient}
    /\ lpc = "accept" <=> lcli = NoClient

\* No call waits for a listener that has gone on without it: a client that waits
\* for its list is the peer of the handler that runs, and one that is queued is
\* behind such a handler.  The client reads without a timeout, so a call that
\* the listener forgot would be its last.
NoCallForgotten ==
    \A c \in Client :
        /\ hpc[c] = "waiting" => lpc \in {"read", "send"} /\ lcli = c
        /\ hpc[c] = "queued"  => lpc # "accept"

\* The server contacts c, and under the address it has.
InTouch(c) == c \in listed \ black /\ ip[c] = addr[c]

\* What no call can repair: a listener or a call-home thread that waits for a
\* host that vanished, and another machine's entry with the address of c, which
\* makes the server contact c in the name of the other.
Excused(c) ==
    \/ ~running \/ lpc = "hung"
    \/ hpc[c] \in {"down", "hung"}
    \/ \E d \in Client \ {c} : d \in listed /\ ip[d] = addr[c]

\* After a restart of either program, a blacklisting or a change of address, the
\* server contacts the client again, unless one of the two stays excused.
BackInTouch ==
    \A c \in Client : ~InTouch(c) ~> (InTouch(c) \/ Excused(c))
=============================================================================
