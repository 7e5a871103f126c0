--------------------------- MODULE CallHomeProofs ---------------------------
(* Proofs about CallHome for any number of clients and addresses: the types, *)
(* and that no call is left waiting for a listener that has gone on.         *)
EXTENDS CallHome, TLAPS

\* The counter of silence is a number from the start.
LEMMA OverdueType == Overdue \in Nat /\ Overdue # 0
BY CallHomeAssumption DEF Overdue

\* The inductive invariant: an attempt to contact a name is only ever made for a
\* machine that is listed, so that its failure blacklists a listed one.
AttemptsListed == \A c \in Client : attempt[c] # NoAddr => c \in listed
IInv == TypeOK /\ NoCallForgotten /\ AttemptsListed

LEMMA InitInv == Init => IInv
<1>1. SUFFICES ASSUME Init PROVE IInv
  OBVIOUS
<1>2. TypeOK
  <2>1. silent \in [Client -> 0..Overdue]
    BY <1>1, OverdueType DEF Init
  <2>2. hpc \in [Client -> {"idle", "queued", "waiting", "list", "hung", "down"}]
    BY <1>1 DEF Init
  <2>3. QED BY <1>1, <2>1, <2>2 DEF Init, TypeOK
<1>3. NoCallForgotten
  BY <1>1 DEF Init, NoCallForgotten
<1>4. QED BY <1>1, <1>2, <1>3 DEF IInv, AttemptsListed, Init

\* What a handler leaves when it ends keeps both, whatever it answered.
LEMMA ListenDoneInv ==
    ASSUME TypeOK,
           NEW h \in [Client -> {"idle", "queued", "waiting", "list", "hung", "down"}],
           ListenDone(h),
           \A c \in Client : h[c] # "waiting"
    PROVE  /\ hpc' \in [Client -> {"idle", "queued", "waiting", "list", "hung", "down"}]
           /\ lpc' = "accept" /\ lcli' = NoClient
           /\ NoCallForgotten'
<1>1. hpc' = Dequeued(h) /\ lpc' = "accept" /\ lcli' = NoClient
  BY DEF ListenDone
<1>2. \A c \in Client : hpc'[c] \in {"idle", "list", "hung", "down"}
  BY <1>1 DEF Dequeued
<1>3. NoCallForgotten'
  BY <1>2 DEF NoCallForgotten
<1>4. QED BY <1>1, <1>3 DEF Dequeued

LEMMA NextInv == IInv /\ [Next]_vars => IInv'
<1>1. SUFFICES ASSUME IInv, [Next]_vars
               PROVE  IInv'
  OBVIOUS
<1>2. CASE Tick
  <2>1. silent' \in [Client -> 0..Overdue]
    BY <1>1, <1>2, OverdueType DEF Tick, IInv, TypeOK
  <2>2. QED
    BY <1>1, <1>2, <2>1 DEF Tick, IInv, TypeOK, NoCallForgotten,
         AttemptsListed, cvars, rvars, lvars
<1>3. ASSUME NEW c \in Client, Home(c) PROVE IInv'
  <2>1. CASE Call(c)
    BY <1>1, <2>1, CallHomeAssumption DEF Call, IInv, TypeOK, NoCallForgotten,
         AttemptsListed, rvars
  <2>2. CASE CallQueued(c)
    BY <1>1, <2>2 DEF CallQueued, IInv, TypeOK, NoCallForgotten,
         AttemptsListed, rvars, lvars
  <2>3. CASE CallDone(c)
    <3>1. silent' \in [Client -> 0..Overdue]
      BY <1>1, <2>3, OverdueType DEF CallDone, IInv, TypeOK
    <3>2. QED
      BY <1>1, <2>3, <3>1 DEF CallDone, IInv, TypeOK, NoCallForgotten,
         AttemptsListed, rvars, lvars
  <2>4. QED BY <1>3, <2>1, <2>2, <2>3 DEF Home
<1>4. CASE Listen
  <2>1. CASE ListenRead
    <3>1. lcli \in Client
      BY <1>1, <2>1 DEF ListenRead, IInv, TypeOK
    <3>2. addr[lcli] \in Addr
      BY <1>1, <3>1 DEF IInv, TypeOK, Placement
    <3>3. ip' \in [Client -> Addr \union {NoAddr}]
      BY <1>1, <2>1, <3>2 DEF ListenRead, IInv, TypeOK
    <3>4. QED
      BY <1>1, <2>1, <3>1, <3>3 DEF ListenRead, IInv, TypeOK, NoCallForgotten,
         AttemptsListed, cvars
  <2>2. CASE ListenThrows
    <3>1. \A c \in Client : hpc[c] # "waiting"
      BY <1>1, <2>2 DEF ListenThrows, IInv, NoCallForgotten
    <3>2. /\ hpc' \in [Client -> {"idle", "queued", "waiting", "list", "hung", "down"}]
          /\ lpc' = "accept" /\ lcli' = NoClient
          /\ NoCallForgotten'
      BY <1>1, <2>2, <3>1, ListenDoneInv DEF ListenThrows, IInv, TypeOK
    <3>3. lcli \in Client
      BY <1>1, <2>2 DEF ListenThrows, IInv, TypeOK
    <3>4. QED BY <1>1, <2>2, <3>2, <3>3 DEF ListenThrows, IInv, TypeOK, AttemptsListed
  <2>3. CASE ListenSend
    <3>1. PICK got \in {"list", "idle"} :
             ListenDone([hpc EXCEPT ![lcli] = IF @ = "waiting" THEN got ELSE @])
      BY <2>3 DEF ListenSend
    <3> DEFINE h == [hpc EXCEPT ![lcli] = IF @ = "waiting" THEN got ELSE @]
    <3>2. h \in [Client -> {"idle", "queued", "waiting", "list", "hung", "down"}]
      BY <1>1, <3>1 DEF IInv, TypeOK
    <3>3. \A c \in Client : h[c] # "waiting"
      BY <1>1, <3>1 DEF IInv, TypeOK, NoCallForgotten,
         AttemptsListed
    <3>4. ListenDone(h)
      BY <3>1
    <3> HIDE DEF h
    <3>5. /\ hpc' \in [Client -> {"idle", "queued", "waiting", "list", "hung", "down"}]
          /\ lpc' = "accept" /\ lcli' = NoClient
          /\ NoCallForgotten'
      BY <1>1, <3>2, <3>3, <3>4, ListenDoneInv DEF IInv
    <3>6. QED BY <1>1, <2>3, <3>5 DEF ListenSend, IInv, TypeOK, AttemptsListed, rvars
  <2>4. QED BY <1>4, <2>1, <2>2, <2>3 DEF Listen
<1>5. ASSUME NEW c \in Client, Gather(c) PROVE IInv'
  <2>1. CASE Contact(c)
    BY <1>1, <2>1 DEF Contact, IInv, TypeOK, NoCallForgotten,
         AttemptsListed, cvars, rvars, lvars
  <2>2. CASE ContactFails(c)
    <3>1. c \in listed
      BY <1>1, <2>2 DEF ContactFails, IInv, AttemptsListed
    <3>2. QED
      BY <1>1, <2>2, <3>1 DEF ContactFails, IInv, TypeOK, NoCallForgotten,
         AttemptsListed, cvars, lvars
  <2>3. ASSUME NEW d \in Client, Reach(c, d) PROVE IInv'
    <3>1. silent' \in [Client -> 0..Overdue]
      BY <1>1, <2>3, OverdueType DEF Reach, IInv, TypeOK
    <3>2. QED
      BY <1>1, <2>3, <3>1 DEF Reach, IInv, TypeOK, NoCallForgotten,
         AttemptsListed, rvars, lvars
  <2>4. QED BY <1>5, <2>1, <2>2, <2>3 DEF Gather
<1>6. CASE Fault
  <2>1. ASSUME NEW now \in {"idle", "hung"}, ServerEnds(now)
        PROVE  IInv'
    <3>1. \A c \in Client : hpc'[c] \notin {"waiting", "queued"}
      BY <2>1 DEF ServerEnds, Calling
    <3>2. QED
      BY <1>1, <2>1, <3>1 DEF ServerEnds, IInv, TypeOK, NoCallForgotten,
         AttemptsListed, Calling
  <2>2. CASE Start
    BY <1>1, <2>2 DEF Start, IInv, TypeOK, NoCallForgotten,
         AttemptsListed, cvars, rvars, lvars
  <2>3. CASE Move
    BY <1>1, <2>3 DEF Move, IInv, TypeOK, NoCallForgotten,
         AttemptsListed, cvars, rvars, lvars
  <2>4. ASSUME NEW c \in Client, ClientEnds(c) PROVE IInv'
    <3>1. hpc' = [hpc EXCEPT ![c] = "down"]
      BY <2>4 DEF ClientEnds
    <3>2. CASE UNCHANGED lvars
      BY <1>1, <2>4, <3>1, <3>2 DEF ClientEnds, IInv, TypeOK, NoCallForgotten,
         AttemptsListed, rvars, lvars
    <3>3. CASE lpc = "read" /\ lcli = c /\ hpc[c] = "waiting"
               /\ lpc' = "hung" /\ UNCHANGED lcli
      BY <1>1, <2>4, <3>1, <3>3 DEF ClientEnds, IInv, TypeOK, NoCallForgotten,
         AttemptsListed, rvars
    <3>4. QED BY <2>4, <3>2, <3>3 DEF ClientEnds
  <2>5. ASSUME NEW c \in Client, ClientStarts(c) PROVE IInv'
    <3>1. silent' \in [Client -> 0..Overdue]
      BY <1>1, <2>5, OverdueType DEF ClientStarts, IInv, TypeOK
    <3>2. QED
      BY <1>1, <2>5, <3>1 DEF ClientStarts, IInv, TypeOK, NoCallForgotten,
         AttemptsListed, rvars, lvars, Up
  <2>6. QED BY <1>6, <2>1, <2>2, <2>3, <2>4, <2>5 DEF Fault
<1>7. CASE UNCHANGED vars
  BY <1>1, <1>7 DEF vars, cvars, rvars, lvars, IInv, TypeOK, NoCallForgotten,
         AttemptsListed
<1>8. QED
  BY <1>1, <1>2, <1>3, <1>4, <1>5, <1>6, <1>7 DEF Next

\* TypeOK holds in every reachable state, for any clients and addresses: the
\* shared maps of the server and the states of the calls keep their domains, and
\* only machines that are listed are ever blacklisted.
THEOREM TypeCorrect == Spec => []TypeOK
<1>1. Spec => []IInv
  BY InitInv, NextInv, PTL DEF Spec
<1>2. IInv => TypeOK
  BY DEF IInv
<1>3. QED BY <1>1, <1>2, PTL

\* NoCallForgotten holds in every reachable state: whatever ends, restarts or
\* moves, a client that waits is the peer of the handler that runs, and one that
\* is queued is behind a handler.
THEOREM CallsServed == Spec => []NoCallForgotten
<1>1. Spec => []IInv
  BY InitInv, NextInv, PTL DEF Spec
<1>2. IInv => NoCallForgotten
  BY DEF IInv
<1>3. QED BY <1>1, <1>2, PTL
=============================================================================
