------------------------- MODULE ClientOutboxProofs -------------------------
(* Proofs about ClientOutbox, for every length of the run (MaxMinute).       *)
EXTENDS ClientOutbox, SequenceTheorems, TLAPS

(* The inductive invariant.  Horizon is the latest timestamp an event can    *)
(* have: a cycle in progress will build a later one.                         *)
Horizon == IF gpc \in {"poll", "wait"} THEN start ELSE minute

\* The events that left gather_data, and all that were built.
Seen == Range(events) \union ({hand} \ {NoEvent}) \union Sent \union Stored
           \union Gone \union again
Used == Seen \union ({made} \ {NoEvent})

\* Between back() and pop_back() the event that was read is at position i, and
\* all behind it were pushed since.
Behind(i) ==
    /\ events[i] = hand
    /\ \A k \in DOMAIN events : k > i => events[k] \notin again /\ events[k] > hand

\* The copies of an event on their way have numbers below the next one's.
Copies(S) == \A m \in S : m.src = "full" => m.copy < sends[m.stamp]

OutboxInv ==
    /\ TypeOK
    /\ OnePlace
    /\ start <= minute
    /\ made # NoEvent => gpc = "push" /\ \A e \in Seen : e < made
    /\ hand # NoEvent <=> lpc \in {"pop", "write"}
    /\ \A i, j \in DOMAIN events : events[i] = events[j] => i = j
    /\ lpc = "pop" => \E i \in DOMAIN events : Behind(i)
    /\ \A e \in Stamp \ again : e \notin Sent \union Stored \union Gone => sends[e] = 0
    /\ Copies(inflight) /\ Copies(received)
    /\ \A e \in Used : e <= Horizon

USE OutboxAssumption DEF OutboxAssumption

(* What a full and what a partial event look like on the wire.               *)
LEMMA MessageFacts ==
    /\ \A e \in Stamp, n \in Nat :
          /\ Full(e, n) \in Message /\ Full(e, n).stamp = e
          /\ Full(e, n).src = "full" /\ Full(e, n).copy = n
    /\ \A t \in 0..MaxMinute : Partial(t) \in Message /\ Partial(t).src = "partial"
    /\ \A m \in Message : /\ m.stamp \in 0..MaxMinute /\ m.src \in {"full", "partial"}
                         /\ m.copy \in Nat
    /\ \A m \in Message : m.src = "full" => m.stamp \in Stamp /\ m = Full(m.stamp, m.copy)
  BY DEF Message, Full, Partial, Stamp

(* The last event of the vector, and the vector without it.                  *)
LEMMA LastAndFront ==
    ASSUME NEW s \in Seq(Stamp), s # <<>>
    PROVE  /\ Last(s) \in Stamp /\ Last(s) = s[Len(s)] /\ Len(s) \in DOMAIN s
           /\ Front(s) \in Seq(Stamp) /\ DOMAIN Front(s) = DOMAIN s \ {Len(s)}
           /\ \A i \in DOMAIN Front(s) : Front(s)[i] = s[i]
           /\ Range(s) = Range(Front(s)) \union {Last(s)}
<1>1. Len(s) \in Nat \ {0} /\ DOMAIN s = 1..Len(s)
  OBVIOUS
<1>2. s[Len(s)] \in Stamp
  BY <1>1
<1>3. Front(s) = SubSeq(s, 1, Len(s) - 1)
  BY DEF Front
<1>4. Front(s) = [i \in 1..(Len(s) - 1) |-> s[i]]
  BY <1>1, <1>3
<1>5. DOMAIN Front(s) = DOMAIN s \ {Len(s)} /\ Last(s) = s[Len(s)]
      /\ \A i \in DOMAIN Front(s) : Front(s)[i] = s[i]
  BY <1>1, <1>4 DEF Last
<1>6. Range(s) = Range(Front(s)) \union {Last(s)}
  BY <1>1, <1>5 DEF Range
<1> QED
  BY <1>1, <1>2, <1>3, <1>5, <1>6

LEMMA RangeOfStamps == ASSUME NEW s \in Seq(Stamp) PROVE Range(s) \subseteq Stamp
  BY DEF Range

(* The vector after a push_back, and after a sort.                           *)
LEMMA AppendFacts ==
    ASSUME NEW s \in Seq(Stamp), NEW x \in Stamp
    PROVE  /\ Append(s, x) \in Seq(Stamp) /\ Range(Append(s, x)) = Range(s) \union {x}
           /\ DOMAIN Append(s, x) = DOMAIN s \union {Len(s) + 1}
           /\ \A i \in DOMAIN s : Append(s, x)[i] = s[i]
           /\ Append(s, x)[Len(s) + 1] = x /\ Len(s) \in Nat /\ DOMAIN s = 1..Len(s)
  BY DEF Range

LEMMA OrderFacts ==
    ASSUME NEW s \in Seq(Stamp), NEW t \in Orders(s)
    PROVE  /\ t \in Seq(Stamp) /\ Range(t) = Range(s)
           /\ \A i, j \in DOMAIN t : t[i] = t[j] => i = j
<1>1. /\ t \in [1..Len(s) -> Range(s)] /\ DOMAIN t = 1..Len(s) /\ Len(s) \in Nat
      /\ \A i, j \in 1..Len(s) : t[i] = t[j] => i = j
      /\ \A x \in Range(s) : \E i \in 1..Len(s) : t[i] = x
  BY DEF Orders, Bijection, Injection, Surjection, IsInjective
<1>2. Range(s) \subseteq Stamp
  BY DEF Range
<1>3. \A i \in 1..Len(s) : t[i] \in Stamp
  BY <1>1, <1>2
<1>4. t \in Seq(Stamp)
  <2>1. t = [i \in 1..Len(s) |-> t[i]]
    BY <1>1
  <2> QED
    BY <1>1, <1>3, <2>1
<1>5. Range(t) = Range(s)
  <2>1. DOMAIN t = 1..Len(s)
    BY <1>1
  <2>2. \A x : x \in Range(t) <=> \E i \in 1..Len(s) : t[i] = x
    BY <2>1 DEF Range
  <2>3. (\A i \in 1..Len(s) : t[i] \in Range(s))
        /\ \A x \in Range(s) : \E i \in 1..Len(s) : t[i] = x
    BY <1>1
  <2> QED
    BY <2>2, <2>3
<1> QED
  BY <1>1, <1>4, <1>5

(* The initial state is well typed.                                          *)
LEMMA TypeInit == Init => TypeOK
<1> SUFFICES ASSUME Init PROVE TypeOK
  OBVIOUS
<1>1. table \in [0..MaxMinute -> {"none", "full", "partial"}]
  BY DEF Init
<1>2. /\ gpc = "login" /\ user = "none" /\ block = "null" /\ lpc = "accept"
      /\ minute = 0 /\ start = 0 /\ made = 0 /\ hand = 0
  BY DEF Init, NoEvent
<1>3. conn \in BOOLEAN /\ loggedIn \in BOOLEAN
  BY DEF Init
<1>4. inflight = {} /\ received = {} /\ events = <<>> /\ rejected = {} /\ lost = {}
      /\ again = {} /\ sends \in [Stamp -> Nat]
  BY DEF Init
<1> QED
  BY <1>1, <1>2, <1>3, <1>4 DEF TypeOK

(* Every step of either thread, the server or the surroundings keeps types.  *)
LEMMA TypeStep == TypeOK /\ [Next]_vars => TypeOK'
<1> SUFFICES ASSUME TypeOK, [Next]_vars PROVE TypeOK'
  OBVIOUS
<1> USE DEF TypeOK, NoEvent, Stamp
<1>1. CASE Tick
  BY <1>1 DEF Tick, gvars, lvars, svars, hvars
<1>2. CASE Gather
  <2>1. ASSUME NEW u \in {"none", "local", "remote"}, GatherLogin(u) PROVE TypeOK'
    BY <2>1 DEF GatherLogin, lvars, svars, hvars
  <2>2. CASE GatherPoll
    BY <2>2 DEF GatherPoll, lvars, svars, hvars
  <2>3. CASE GatherBuild
    BY <2>3 DEF GatherBuild, lvars, svars, hvars
  <2>4. CASE GatherPush
    <3>1. events' \in Seq(Stamp) /\ (lpc = "pop" => events' # <<>>)
      <4>1. CASE made = NoEvent
        BY <2>4, <4>1 DEF GatherPush
      <4>2. CASE made # NoEvent
        <5>1. made \in Stamp /\ events' = Append(events, made)
          BY <2>4, <4>2 DEF GatherPush
        <5>2. events' \in Seq(Stamp) /\ Len(events) + 1 \in DOMAIN events'
          BY <5>1, AppendFacts
        <5> QED
          BY <5>2
      <4> QED
        BY <4>1, <4>2
    <3> QED
      BY <2>4, <3>1 DEF GatherPush, lvars, svars, hvars
  <2>5. CASE GatherCleanup
    BY <2>5 DEF GatherCleanup, lvars, svars, hvars
  <2> QED
    BY <1>2, <2>1, <2>2, <2>3, <2>4, <2>5 DEF Gather
<1>3. CASE Listen
  <2>1. CASE ListenRequest
    BY <2>1 DEF ListenRequest, gvars, svars, hvars
  <2>2. CASE ListenSort
    <3>1. events' \in Seq(Stamp)
      BY <2>2, OrderFacts DEF ListenSort
    <3> QED
      BY <2>2, <3>1 DEF ListenSort, gvars, svars, hvars
  <2>3. CASE ListenCurrent
    BY <2>3, MessageFacts DEF ListenCurrent, gvars, svars, hvars
  <2>4. CASE ListenPop
    <3>1. Front(events) \in Seq(Stamp) /\ Last(events) \in Stamp
      <4> HIDE DEF Stamp
      <4>1. events \in Seq(Stamp) /\ events # <<>>
        BY <2>4 DEF ListenPop
      <4> QED
        BY <4>1, LastAndFront
    <3>2. hand \in Stamp
      BY <2>4 DEF ListenPop
    <3> QED
      BY <2>4, <3>1, <3>2 DEF ListenPop, gvars, svars
  <2>8. CASE ListenBack
    <3>1. Last(events) \in Stamp
      <4> HIDE DEF Stamp
      <4>1. events \in Seq(Stamp) /\ events # <<>>
        BY <2>8 DEF ListenBack
      <4> QED
        BY <4>1, LastAndFront
    <3> QED
      BY <2>8, <3>1 DEF ListenBack, gvars, svars, hvars
  <2>5. CASE ListenWrite
    <3>1. hand \in Stamp
      BY <2>5 DEF ListenWrite
    <3>2. Full(hand, sends[hand]) \in Message
      BY <3>1, MessageFacts
    <3>3. inflight' \subseteq Message /\ lost' \subseteq Stamp
      BY <2>5, <3>1, <3>2 DEF ListenWrite
    <3>4. sends' \in [Stamp -> Nat]
      <4> HIDE DEF Stamp
      <4> QED
        BY <2>5, <3>1 DEF ListenWrite
    <3> QED
      BY <2>5, <3>3, <3>4 DEF ListenWrite, gvars, svars, hvars
  <2>6. CASE ListenDrained
    BY <2>6 DEF ListenDrained, gvars, svars, hvars
  <2>7. CASE ListenClear
    <3>1. lost' \subseteq Stamp
      <4>1. Range(events) \subseteq Stamp
        <5> HIDE DEF Stamp
        <5> QED
          BY RangeOfStamps
      <4> QED
        BY <2>7, <4>1 DEF ListenClear
    <3>2. conn' \in BOOLEAN
      BY <2>7 DEF ListenClear
    <3>3. inflight' \subseteq Message /\ received' \subseteq Message /\ events' \in Seq(Stamp)
      BY <2>7 DEF ListenClear
    <3> QED
      BY <2>7, <3>1, <3>2, <3>3 DEF ListenClear, gvars, hvars
  <2> QED
    BY <1>3, <2>1, <2>2, <2>3, <2>4, <2>5, <2>6, <2>7, <2>8 DEF Listen
<1>4. CASE Break
  BY <1>4 DEF Break, FullIn, gvars, hvars
<1>5. CASE Crash
  <2>1. lost' \subseteq Stamp
    <3>1. {made, hand} \ {NoEvent} \subseteq Stamp /\ FullIn(inflight) \subseteq Stamp
          /\ Range(events) \subseteq Stamp
      BY DEF FullIn, Range
    <3> QED
      BY <1>5, <3>1 DEF Crash
  <2>2. conn' \in BOOLEAN /\ loggedIn' \in BOOLEAN
    BY <1>5 DEF Crash
  <2>3. UNCHANGED <<minute, received, table, rejected, again, sends>>
    BY <1>5 DEF Crash, svars, hvars
  <2> QED
    BY <1>5, <2>1, <2>2, <2>3 DEF Crash
<1>6. ASSUME NEW m \in received, Upload(m) PROVE TypeOK'
  <2>1. m.stamp \in 0..MaxMinute /\ m.src \in {"full", "partial"}
        /\ (m.src = "full" => m.stamp \in Stamp)
    BY MessageFacts
  <2>2. table' \in [0..MaxMinute -> {"none", "full", "partial"}]
    BY <1>6, <2>1 DEF Upload
  <2>3. received' \subseteq Message /\ rejected' \subseteq Stamp
    BY <1>6, <2>1 DEF Upload
  <2> QED
    BY <1>6, <2>2, <2>3 DEF Upload, gvars, lvars, hvars
<1>7. CASE UNCHANGED vars
  BY <1>7 DEF vars, gvars, lvars, svars, hvars
<1> QED
  BY <1>1, <1>2, <1>3, <1>4, <1>5, <1>6, <1>7 DEF Next

(* The shared variables of client and server are well typed in every         *)
(* reachable state.                                                          *)
THEOREM TypeCorrect == Spec => []TypeOK
<1> QED
  BY TypeInit, TypeStep, PTL DEF Spec

----------------------------------------------------------------------------
(* How the set of full events in a set of messages changes.                  *)
LEMMA FullInFacts ==
    /\ FullIn({}) = {}
    /\ \A S, T : FullIn(S \union T) = FullIn(S) \union FullIn(T)
    /\ \A e \in Stamp, n \in Nat : FullIn({Full(e, n)}) = {e}
    /\ \A m : m.src # "full" => FullIn({m}) = {}
    /\ \A t : FullIn({Partial(t)}) = {}
    /\ \A m : FullIn({m}) \subseteq {m.stamp}
    /\ \A S : FullIn(S) \subseteq Stamp
    /\ \A S, T : T \subseteq S => FullIn(S) = FullIn(T) \union FullIn(S \ T)
<1>1. FullIn({}) = {} /\ \A S : FullIn(S) \subseteq Stamp
  BY DEF FullIn
<1>2. \A S, T : FullIn(S \union T) = FullIn(S) \union FullIn(T)
  BY DEF FullIn
<1>3. \A e \in Stamp, n \in Nat : FullIn({Full(e, n)}) = {e}
  BY MessageFacts DEF FullIn
<1>4. \A t : FullIn({Partial(t)}) = {}
  BY DEF FullIn, Partial
<1>5. \A m : FullIn({m}) \subseteq {m.stamp} /\ (m.src # "full" => FullIn({m}) = {})
  BY DEF FullIn
<1>6. \A S, T : T \subseteq S => FullIn(S) = FullIn(T) \union FullIn(S \ T)
  BY DEF FullIn
<1> QED
  BY <1>1, <1>2, <1>3, <1>4, <1>5, <1>6

(* Of an event that is not sent again there is one message at most.          *)
LEMMA OneMessage ==
    ASSUME OutboxInv, NEW e \in Stamp \ again, NEW m \in inflight \union received,
           m.src = "full", m.stamp = e
    PROVE  m = Full(e, 0)
<1>1. m \in Message /\ m.copy < sends[e] /\ sends[e] <= 1 /\ sends[e] \in Nat
  BY DEF OutboxInv, TypeOK, Copies, OnePlace, Single
<1>2. m = Full(e, m.copy) /\ m.copy \in Nat
  BY <1>1, MessageFacts
<1>3. m.copy = 0
  BY <1>1, <1>2
<1> QED
  BY <1>2, <1>3

(* So when such an event's message is in T, there is none of it besides T.   *)
LEMMA MessageTaken ==
    ASSUME OutboxInv, NEW e \in Stamp \ again, NEW S, S = inflight \/ S = received,
           NEW T \in SUBSET S, e \in FullIn(T)
    PROVE  e \notin FullIn(S \ T)
<1>1. PICK m \in T : m.src = "full" /\ m.stamp = e
  BY DEF FullIn
<1>2. SUFFICES ASSUME NEW n \in S \ T, n.src = "full", n.stamp = e PROVE FALSE
  BY DEF FullIn
<1>3. m = Full(e, 0) /\ n = Full(e, 0)
  BY <1>1, <1>2, OneMessage
<1> QED
  BY <1>2, <1>3

(* Nothing has been built when the client starts.                            *)
LEMMA InitInv == Init => OutboxInv /\ Used = {}
<1> SUFFICES ASSUME Init PROVE OutboxInv /\ Used = {}
  OBVIOUS
<1>1. /\ Held = {} /\ Sent = {} /\ Stored = {} /\ Gone = {} /\ Range(events) = {}
      /\ again = {} /\ made = NoEvent /\ hand = NoEvent /\ lost = {} /\ rejected = {}
      /\ sends = [e \in Stamp |-> 0]
  BY FullInFacts DEF Init, Held, Sent, Stored, Gone, Stamp, Range
<1>2. Used = {} /\ Seen = {}
  BY <1>1 DEF Used, Seen
<1>3. OnePlace
  BY <1>1 DEF OnePlace, Single, NoEvent, Stamp, Held
<1>4. Copies(inflight) /\ Copies(received)
  BY DEF Init, Copies
<1>5. start <= minute /\ lpc = "accept" /\ events = <<>>
  BY DEF Init
<1> QED
  BY <1>1, <1>2, <1>3, <1>4, <1>5, TypeInit DEF OutboxInv

(* Everything that was built has a timestamp.                                *)
LEMMA UsedAreStamps ==
    ASSUME TypeOK
    PROVE  /\ Used \subseteq Stamp /\ Seen \subseteq Stamp /\ Held \subseteq Stamp
           /\ Range(events) \subseteq Stamp
<1>1. Range(events) \subseteq Stamp
  BY RangeOfStamps DEF TypeOK
<1>2. Sent \subseteq Stamp /\ Stored \subseteq Stamp
  BY FullInFacts DEF Sent, Stored
<1>3. {hand} \ {NoEvent} \subseteq Stamp /\ {made} \ {NoEvent} \subseteq Stamp
  BY DEF TypeOK, Stamp, NoEvent
<1>4. Gone \subseteq Stamp /\ again \subseteq Stamp
  BY DEF TypeOK, Gone
<1> QED
  BY <1>1, <1>2, <1>3, <1>4 DEF Used, Seen, Held

(* A step that moves no event.                                               *)
LEMMA QuietInv ==
    ASSUME OutboxInv, TypeOK',
           UNCHANGED <<made, events, hand, received, table, rejected, lost, again, sends>>,
           FullIn(inflight)' = FullIn(inflight), Copies(inflight)',
           start' <= minute', Horizon <= Horizon',
           made # NoEvent => gpc' = "push",
           lpc' = lpc \/ (hand = NoEvent /\ lpc' \notin {"pop", "write"})
    PROVE  OutboxInv'
<1>1. Held' = Held /\ Sent' = Sent /\ Stored' = Stored /\ Gone' = Gone
      /\ FullIn(received)' = FullIn(received)
  BY DEF Held, Sent, Stored, Gone, FullIn
<1>2. Used' = Used /\ Seen' = Seen
  BY <1>1 DEF Used, Seen
<1>3. OnePlace'
  <2>1. ASSUME NEW e \in Stamp \ again PROVE Single(e)'
    BY <1>1, NoEvent = 0 /\ 0 \notin Stamp DEF OutboxInv, OnePlace, Single, NoEvent, Stamp
  <2> QED
    BY <2>1 DEF OutboxInv, OnePlace
<1>4. \A e \in Used' : e <= Horizon'
  <2>1. ASSUME NEW e \in Used PROVE e \in Int
    <3>1. e \in Stamp
      BY UsedAreStamps DEF OutboxInv
    <3> QED
      BY <3>1 DEF Stamp
  <2>2. Horizon \in Int /\ Horizon' \in Int
    BY DEF OutboxInv, TypeOK, Horizon
  <2> QED
    BY <1>2, <2>1, <2>2 DEF OutboxInv
<1>5. Copies(received)'
  BY DEF OutboxInv, Copies
<1>6. lpc' = "pop" => \E i \in DOMAIN events' : Behind(i)'
  BY DEF OutboxInv, Behind, NoEvent
<1> QED
  BY <1>1, <1>2, <1>3, <1>4, <1>5, <1>6 DEF OutboxInv

(* The steps of gather_data: only GatherBuild and GatherPush touch an event. *)
LEMMA GatherInv == OutboxInv /\ Gather => OutboxInv'
<1> SUFFICES ASSUME OutboxInv, Gather PROVE OutboxInv'
  OBVIOUS
<1>0. TypeOK' /\ TypeOK
  BY TypeStep DEF OutboxInv, Next
<1>c. Copies(inflight)' /\ Copies(received)'
  BY DEF Gather, GatherLogin, GatherPoll, GatherBuild, GatherPush, GatherCleanup, OutboxInv,
     Copies, svars, hvars
<1>1. ASSUME NEW u \in {"none", "local", "remote"}, GatherLogin(u) PROVE OutboxInv'
  <2>1. Horizon <= Horizon' /\ start' <= minute'
    BY <1>0, <1>1 DEF OutboxInv, GatherLogin, Horizon, TypeOK
  <2> QED
    BY <1>0, <1>c, <1>1, <2>1, QuietInv DEF GatherLogin, OutboxInv, lvars, svars, hvars, FullIn
<1>2. CASE GatherPoll
  <2>1. Horizon <= Horizon' /\ start' <= minute'
    BY <1>0, <1>2 DEF OutboxInv, GatherPoll, Horizon, TypeOK
  <2> QED
    BY <1>0, <1>c, <1>2, <2>1, QuietInv DEF GatherPoll, OutboxInv, lvars, svars, hvars, FullIn
<1>3. CASE GatherBuild
  <2>1. made = NoEvent /\ made' \in {minute, NoEvent} /\ \A e \in Seen : e < minute
    <3>1. made = NoEvent /\ Horizon = start /\ start < minute
      BY <1>0, <1>3 DEF GatherBuild, OutboxInv, Horizon, TypeOK
    <3>2. ASSUME NEW e \in Seen PROVE e < minute
      <4>1. e \in Stamp /\ e <= start
        BY <1>0, <3>1, UsedAreStamps DEF OutboxInv, Used
      <4> QED
        BY <1>0, <3>1, <4>1 DEF Stamp, TypeOK
    <3> QED
      BY <1>3, <3>1, <3>2 DEF GatherBuild
  <2>2. /\ UNCHANGED <<minute, start, events, hand, lpc, received, table, rejected, lost,
                     inflight, again, sends>>
        /\ gpc' = "push" /\ Horizon' = minute
    BY <1>3 DEF GatherBuild, lvars, svars, hvars, Horizon
  <2>3. Held' = Held \union ({made'} \ {NoEvent}) /\ Sent' = Sent /\ Stored' = Stored
        /\ Gone' = Gone /\ FullIn(inflight)' = FullIn(inflight)
        /\ FullIn(received)' = FullIn(received)
    BY <2>1, <2>2 DEF Held, Sent, Stored, Gone, FullIn
  <2>4. Seen' = Seen /\ minute \notin Seen
    <3>1. Seen' = Seen
      BY <2>2, <2>3 DEF Seen
    <3> QED
      BY <1>0, <2>1, <3>1 DEF TypeOK
  <2>5. OnePlace'
    <3>1. ASSUME NEW e \in Stamp \ again PROVE Single(e)'
      <4>1. Single(e)
        BY DEF OutboxInv, OnePlace
      <4>2. e = made' => e \notin Seen
        BY <2>1, <2>4 DEF Stamp, NoEvent
      <4> QED
        BY <2>1, <2>2, <2>3, <4>1, <4>2 DEF Single, Seen, Held, NoEvent, Stamp
    <3> QED
      BY <2>2, <3>1 DEF OutboxInv, OnePlace
  <2>6. \A e \in Used' : e <= minute
    <3>1. Used' \subseteq Seen \union {minute}
      BY <2>1, <2>4 DEF Used
    <3>2. ASSUME NEW e \in Seen PROVE e <= minute
      <4>1. e \in Stamp /\ e < minute
        BY <1>0, <2>1, UsedAreStamps
      <4> QED
        BY <1>0, <4>1 DEF Stamp, TypeOK
    <3>3. minute <= minute
      BY <1>0 DEF TypeOK
    <3> QED
      BY <3>1, <3>2, <3>3
  <2>7. lpc' = "pop" => \E i \in DOMAIN events' : Behind(i)'
    BY <2>2 DEF OutboxInv, Behind
  <2>8. made' # NoEvent => \A e \in Seen' : e < made'
    BY <2>1, <2>4
  <2> QED
    BY <1>0, <1>c, <2>2, <2>3, <2>5, <2>6, <2>7, <2>8 DEF OutboxInv
<1>4. CASE GatherPush /\ made # NoEvent
  <2>1. /\ UNCHANGED <<minute, start, hand, lpc, received, table, rejected, lost,
                     inflight, again, sends>>
        /\ gpc' = "cleanup" /\ Horizon' = Horizon /\ made' = NoEvent
        /\ events' = Append(events, made) /\ made \in Stamp
    BY <1>0, <1>4 DEF GatherPush, lvars, svars, hvars, Horizon, TypeOK, Stamp, NoEvent
  <2>a. events \in Seq(Stamp)
    BY <1>0 DEF TypeOK
  <2>2. /\ Range(events') = Range(events) \union {made}
        /\ DOMAIN events' = DOMAIN events \union {Len(events) + 1}
        /\ \A i \in DOMAIN events : events'[i] = events[i]
        /\ events'[Len(events) + 1] = made /\ Len(events) \in Nat
        /\ DOMAIN events = 1..Len(events)
    BY <2>1, <2>a, AppendFacts
  <2>3. /\ \A e \in Seen : e < made
        /\ made \notin Seen
    BY <1>0, <1>4 DEF OutboxInv, TypeOK
  <2>4. Held' = Held /\ Sent' = Sent /\ Stored' = Stored /\ Gone' = Gone
        /\ FullIn(inflight)' = FullIn(inflight) /\ FullIn(received)' = FullIn(received)
    BY <1>4, <2>1, <2>2 DEF Held, Sent, Stored, Gone, FullIn
  <2>5. Seen' = Seen \union {made} /\ Used' = Used
    BY <1>4, <2>1, <2>2, <2>4 DEF Seen, Used
  <2>6. OnePlace'
    <3>1. ASSUME NEW e \in Stamp \ again PROVE Single(e)'
      <4>1. Single(e)
        BY DEF OutboxInv, OnePlace
      <4>2. e # made'
        BY <2>1 DEF Stamp, NoEvent
      <4>3. made # hand
        BY <1>4, <2>3 DEF Seen
      <4> QED
        BY <2>1, <2>2, <2>4, <4>1, <4>2, <4>3 DEF Single
    <3> QED
      BY <2>1, <3>1 DEF OutboxInv, OnePlace
  <2>7. \A i, j \in DOMAIN events' : events'[i] = events'[j] => i = j
    <3>1. \A i \in DOMAIN events : events[i] # made
      BY <2>3 DEF Seen, Range
    <3> QED
      BY <2>2, <3>1 DEF OutboxInv
  <2>8. lpc' = "pop" => \E i \in DOMAIN events' : Behind(i)'
    <3> SUFFICES ASSUME lpc = "pop" PROVE \E i \in DOMAIN events' : Behind(i)'
      BY <2>1
    <3>1. PICK i \in DOMAIN events : Behind(i)
      BY DEF OutboxInv
    <3>2. made \notin again /\ made > hand
      <4>1. hand \in Seen /\ again \subseteq Seen /\ hand \in Stamp
        BY <1>0 DEF Seen, OutboxInv, TypeOK, Stamp, NoEvent
      <4> QED
        BY <2>1, <2>3, <4>1 DEF Stamp
    <3>3. Behind(i)'
      BY <2>1, <2>2, <3>1, <3>2 DEF Behind
    <3> QED
      BY <2>2, <3>3
  <2> QED
    BY <1>0, <1>c, <2>1, <2>4, <2>5, <2>6, <2>7, <2>8 DEF OutboxInv
<1>5. CASE GatherPush /\ made = NoEvent
  <2>1. Horizon <= Horizon' /\ start' <= minute'
    BY <1>0, <1>5 DEF OutboxInv, GatherPush, Horizon, TypeOK
  <2> QED
    BY <1>0, <1>c, <1>5, <2>1, QuietInv DEF GatherPush, OutboxInv, lvars, svars, hvars, FullIn
<1>6. CASE GatherCleanup
  <2>1. Horizon <= Horizon' /\ start' <= minute'
    BY <1>0, <1>6 DEF OutboxInv, GatherCleanup, Horizon, TypeOK
  <2> QED
    BY <1>0, <1>c, <1>6, <2>1, QuietInv DEF GatherCleanup, OutboxInv, lvars, svars, hvars, FullIn
<1> QED
  BY <1>1, <1>2, <1>3, <1>4, <1>5, <1>6 DEF Gather

(* What no step of listen_thread touches.                                    *)
LEMMA ListenQuiet ==
    ASSUME OutboxInv, Listen
    PROVE  /\ UNCHANGED <<minute, gpc, start, made, table, rejected>>
           /\ Horizon' = Horizon /\ Stored' = Stored
           /\ Horizon <= Horizon' /\ start' <= minute'
           /\ made # NoEvent => gpc' = "push"
<1>1. UNCHANGED <<minute, gpc, start, made, table, rejected>>
  BY DEF Listen, ListenRequest, ListenSort, ListenCurrent, ListenBack, ListenPop,
         ListenWrite, ListenDrained, ListenClear, gvars, svars
<1>2. Horizon' = Horizon /\ Stored' = Stored
  BY <1>1 DEF Horizon, Stored
<1> QED
  BY <1>1, <1>2 DEF OutboxInv, Horizon, TypeOK

(* The partial event made on request is not one of the full events.          *)
LEMMA CurrentKeepsFull ==
    ASSUME ListenCurrent, OutboxInv
    PROVE  FullIn(inflight)' = FullIn(inflight) /\ Copies(inflight)'
<1>1. inflight' = inflight \/ inflight' = inflight \union {Partial(minute)}
  BY DEF ListenCurrent
<1>2. FullIn(inflight') = FullIn(inflight)
  <2>1. PICK p : p = Partial(minute) /\ FullIn({p}) = {}
    BY FullInFacts
  <2>2. FullIn(inflight \union {p}) = FullIn(inflight) \union FullIn({p})
    BY FullInFacts
  <2> QED
    BY <1>1, <2>1, <2>2
<1>3. Copies(inflight) /\ sends' = sends
  BY DEF ListenCurrent, hvars, OutboxInv
<1>4. Partial(minute).src # "full"
  BY DEF Partial
<1>5. Copies(inflight)'
  BY <1>1, <1>3, <1>4 DEF Copies
<1> QED
  BY <1>2, <1>5 DEF FullIn

(* back() puts the last event into the thread's hand; it is still in EVENTS.  *)
LEMMA BackInv == ASSUME OutboxInv, ListenBack PROVE OutboxInv'
<1>0. TypeOK' /\ TypeOK
  BY TypeStep DEF OutboxInv, Next, Listen
<1>a. Listen
  BY DEF Listen
<1>1. /\ UNCHANGED <<events, received, lost, inflight, again, sends>> /\ events # <<>>
      /\ lpc = "drain" /\ lpc' = "pop" /\ hand' = Last(events) /\ hand = NoEvent
  BY DEF ListenBack, svars, hvars, OutboxInv
<1>b. events \in Seq(Stamp)
  BY <1>0 DEF TypeOK
<1>2. Last(events) \in Stamp /\ Last(events) = events[Len(events)]
      /\ Len(events) \in DOMAIN events /\ Last(events) \in Range(events)
  BY <1>1, <1>b, LastAndFront
<1>3. Held' = Held /\ Sent' = Sent /\ Gone' = Gone
      /\ FullIn(inflight)' = FullIn(inflight) /\ FullIn(received)' = FullIn(received)
  BY <1>1, <1>2, <1>a, ListenQuiet DEF Held, Sent, Gone, FullIn
<1>4. Seen' = Seen /\ Used' = Used
  BY <1>1, <1>2, <1>3, <1>a, ListenQuiet DEF Seen, Used
<1>5. OnePlace'
  <2>1. made \notin Range(events) \/ made = NoEvent
    <3>1. made # NoEvent => made \notin Seen
      BY <1>0 DEF OutboxInv, TypeOK
    <3> QED
      BY <3>1 DEF Seen
  <2>2. ASSUME NEW e \in Stamp \ again PROVE Single(e)'
    <3>1. Single(e) /\ e # NoEvent
      BY DEF OutboxInv, OnePlace, Stamp, NoEvent
    <3> QED
      BY <1>1, <1>2, <1>3, <1>a, <2>1, <3>1, ListenQuiet DEF Single
  <2> QED
    BY <1>1, <2>2 DEF OutboxInv, OnePlace
<1>6. Behind(Len(events))'
  <2>1. DOMAIN events = 1..Len(events) /\ Len(events) \in Nat
    BY <1>b
  <2> QED
    BY <1>1, <1>2, <2>1 DEF Behind
<1>7. Copies(inflight)' /\ Copies(received)'
  BY <1>1 DEF OutboxInv, Copies
<1>8. hand' # NoEvent
  BY <1>1, <1>2 DEF Stamp, NoEvent
<1> QED
  BY <1>0, <1>1, <1>2, <1>3, <1>4, <1>5, <1>6, <1>7, <1>8, <1>a, ListenQuiet DEF OutboxInv

(* pop_back() takes the event that was read, or one that overtook it.        *)
LEMMA PopFacts ==
    ASSUME OutboxInv, ListenPop
    PROVE  /\ UNCHANGED <<received, inflight, hand, sends>> /\ lpc' = "write"
           /\ events' = Front(events) /\ hand \in Stamp /\ Last(events) \in Stamp
           /\ Last(events) \in Range(events) /\ hand \in Range(events)
           /\ Range(events)' = Range(events) \ {Last(events)}
           /\ Seen' = Seen /\ Used' = Used /\ Sent' = Sent
           /\ FullIn(inflight)' = FullIn(inflight) /\ FullIn(received)' = FullIn(received)
           /\ \A i, j \in DOMAIN events' : events'[i] = events'[j] => i = j
           /\ \/ Last(events) = hand /\ UNCHANGED <<lost, again>>
              \/ /\ Last(events) # hand /\ Last(events) \notin again /\ Last(events) > hand
                 /\ lost' = lost \union {Last(events)} /\ again' = again \union {hand}
           /\ Held' = (Held \ {Last(events)}) \union {hand}
<1>0. TypeOK
  BY DEF OutboxInv
<1>a. Listen
  BY DEF Listen
<1>1. /\ UNCHANGED <<received, inflight, hand, sends>> /\ lpc = "pop" /\ lpc' = "write"
      /\ events' = Front(events) /\ hand \in Stamp /\ hand # NoEvent /\ events # <<>>
  BY <1>0 DEF ListenPop, svars, TypeOK, Stamp, NoEvent
<1>b. events \in Seq(Stamp)
  BY <1>0 DEF TypeOK
<1>2. /\ Last(events) \in Stamp /\ Last(events) = events[Len(events)]
      /\ Len(events) \in DOMAIN events /\ DOMAIN events' = DOMAIN events \ {Len(events)}
      /\ \A i \in DOMAIN events' : events'[i] = events[i]
      /\ Range(events) = Range(Front(events)) \union {Last(events)}
  BY <1>1, <1>b, LastAndFront
<1>3. \A i, j \in DOMAIN events : events[i] = events[j] => i = j
  BY DEF OutboxInv
<1>4. Range(events') = Range(events) \ {Last(events)}
  <2>1. Last(events) \notin Range(events')
    BY <1>2, <1>3 DEF Range
  <2> QED
    BY <1>1, <1>2, <2>1
<1>5. PICK i \in DOMAIN events : Behind(i)
  BY <1>1 DEF OutboxInv
<1>6. hand \in Range(events)
  BY <1>5 DEF Behind, Range
<1>7. CASE Last(events) = hand
  <2>1. UNCHANGED <<lost, again>>
    BY <1>7 DEF ListenPop
  <2>2. Sent' = Sent /\ Gone' = Gone /\ Stored' = Stored /\ made' = made
        /\ FullIn(inflight)' = FullIn(inflight) /\ FullIn(received)' = FullIn(received)
    BY <1>1, <2>1, <1>a, ListenQuiet DEF Sent, Gone, FullIn
  <2>3. Held' = (Held \ {hand}) \union {hand} /\ Seen' = Seen
    BY <1>1, <1>4, <1>6, <1>7, <2>1, <2>2 DEF Held, Seen, Range
  <2> QED
    BY <1>1, <1>2, <1>3, <1>4, <1>6, <1>7, <2>1, <2>2, <2>3 DEF Used, Range
<1>8. CASE Last(events) # hand
  <2>1. lost' = lost \union {Last(events)} /\ again' = again \union {hand}
    BY <1>8 DEF ListenPop
  <2>2. Last(events) \notin again /\ Last(events) > hand
    <3>1. i # Len(events) /\ DOMAIN events = 1..Len(events) /\ Len(events) \in Nat
      BY <1>2, <1>5, <1>8, <1>b DEF Behind
    <3>2. i < Len(events)
      BY <3>1
    <3> QED
      BY <1>2, <1>5, <3>1, <3>2 DEF Behind
  <2>3. Sent' = Sent /\ Gone' = Gone \union {Last(events)} /\ Stored' = Stored /\ made' = made
        /\ FullIn(inflight)' = FullIn(inflight) /\ FullIn(received)' = FullIn(received)
    BY <1>1, <2>1, <1>a, ListenQuiet DEF Sent, Gone, FullIn
  <2>4. Seen' = Seen
    BY <1>1, <1>2, <1>4, <1>6, <1>8, <2>1, <2>3 DEF Seen, Range
  <2>5. Held' = (Held \ {Last(events)}) \union {hand}
    <3>1. Last(events) # made
      <4>1. Last(events) \in Stamp \ again /\ Last(events) \in Range(events)
        BY <1>2, <2>2
      <4> QED
        BY <4>1 DEF OutboxInv, OnePlace, Single
    <3> QED
      BY <1>1, <1>4, <1>6, <1>8, <2>3, <3>1 DEF Held, Range
  <2> QED
    BY <1>1, <1>2, <1>3, <1>4, <1>6, <1>8, <2>1, <2>2, <2>3, <2>4, <2>5 DEF Used, Range
<1> QED
  BY <1>7, <1>8

LEMMA PopInv == ASSUME OutboxInv, ListenPop PROVE OutboxInv'
<1>0. TypeOK' /\ TypeOK
  BY TypeStep DEF OutboxInv, Next, Listen
<1>a. Listen
  BY DEF Listen
<1>1. OnePlace'
  <2>1. ASSUME NEW e \in Stamp, e \notin again' PROVE Single(e)'
    <3>1. e \notin again
      BY <2>1, PopFacts
    <3>2. Single(e) /\ e # NoEvent
      BY <3>1 DEF OutboxInv, OnePlace, Stamp, NoEvent
    <3>3. CASE Last(events) = hand
      BY <3>2, <3>3, <1>a, PopFacts, ListenQuiet DEF Single, Gone, Held
    <3>4. CASE Last(events) # hand
      <4>1. /\ e # hand /\ lost' = lost \union {Last(events)} /\ rejected' = rejected
            /\ Stored' = Stored /\ Sent' = Sent /\ made' = made /\ sends' = sends
            /\ FullIn(inflight)' = FullIn(inflight) /\ FullIn(received)' = FullIn(received)
            /\ Range(events)' = Range(events) \ {Last(events)} /\ hand' = hand
            /\ Held' = (Held \ {Last(events)}) \union {hand}
            /\ Last(events) \in Range(events)
        BY <2>1, <3>4, <1>a, PopFacts, ListenQuiet
      <4>2. CASE e = Last(events)
        <5>1. e \in Held
          BY <4>1, <4>2 DEF Held
        <5> QED
          BY <3>2, <4>1, <4>2, <5>1 DEF Single, Gone
      <4>3. CASE e # Last(events)
        BY <3>2, <4>1, <4>3 DEF Single, Gone
      <4> QED
        BY <4>2, <4>3
    <3> QED
      BY <3>3, <3>4
  <2>2. ASSUME NEW e \in again' PROVE \E f \in lost' : f > e
    <3>1. CASE e \in again
      BY <3>1, PopFacts DEF OutboxInv, OnePlace
    <3>2. CASE e \notin again
      BY <2>2, <3>2, PopFacts
    <3> QED
      BY <3>1, <3>2
  <2> QED
    BY <2>1, <2>2 DEF OnePlace
<1>2. \A e \in Stamp \ again' : e \notin (Sent \union Stored \union Gone)' => sends'[e] = 0
  BY <1>a, PopFacts, ListenQuiet DEF OutboxInv, Gone
<1>3. Copies(inflight)' /\ Copies(received)'
  BY PopFacts DEF OutboxInv, Copies
<1>4. hand' # NoEvent /\ hand # NoEvent
  BY PopFacts DEF Stamp, NoEvent
<1>5. start' <= minute' /\ (made' # NoEvent => gpc' = "push" /\ \A e \in Seen' : e < made')
  BY <1>a, ListenQuiet, PopFacts DEF OutboxInv
<1>6. \A e \in Used' : e <= Horizon'
  BY <1>a, ListenQuiet, PopFacts DEF OutboxInv
<1>7. lpc' = "write" /\ \A i, j \in DOMAIN events' : events'[i] = events'[j] => i = j
  BY PopFacts
<1> QED
  BY <1>0, <1>1, <1>2, <1>3, <1>4, <1>5, <1>6, <1>7 DEF OutboxInv

(* The event in the hand is written, or lost with the connection.            *)
LEMMA WriteFacts ==
    ASSUME OutboxInv, ListenWrite
    PROVE  /\ hand \in Stamp /\ hand' = NoEvent /\ lpc = "write" /\ lpc' = "drain"
           /\ UNCHANGED <<events, received, again>> /\ sends' = [sends EXCEPT ![hand] = @ + 1]
           /\ hand \in Held /\ hand # made
           /\ Held' = IF hand \in Range(events) THEN Held ELSE Held \ {hand}
           /\ FullIn(received)' = FullIn(received)
           /\ \/ /\ FullIn(inflight)' = FullIn(inflight) \union {hand} /\ lost' = lost
                 /\ Sent' = Sent \union {hand} /\ Gone' = Gone
                 /\ inflight' = inflight \union {Full(hand, sends[hand])}
              \/ /\ FullIn(inflight)' = FullIn(inflight) /\ lost' = lost \union {hand}
                 /\ Sent' = Sent /\ Gone' = Gone \union {hand} /\ inflight' = inflight
<1>0. TypeOK
  BY DEF OutboxInv
<1>a. Listen
  BY DEF Listen
<1>1. /\ hand \in Stamp /\ hand' = NoEvent /\ lpc = "write" /\ lpc' = "drain"
      /\ UNCHANGED <<events, received, again>> /\ sends' = [sends EXCEPT ![hand] = @ + 1]
  BY <1>0 DEF ListenWrite, TypeOK, svars, Stamp, NoEvent
<1>2. hand \in Held /\ hand # made
  <2>1. hand \in Seen /\ hand # NoEvent
    BY <1>1 DEF Seen, Stamp, NoEvent
  <2>2. made # NoEvent => made \notin Seen
    BY <1>0 DEF OutboxInv, TypeOK
  <2> QED
    BY <2>1, <2>2 DEF Held
<1>3. Held' = IF hand \in Range(events) THEN Held ELSE Held \ {hand}
  BY <1>1, <1>2, <1>a, ListenQuiet DEF Held, NoEvent
<1>4. FullIn(received)' = FullIn(received)
  BY <1>1 DEF FullIn
<1>5. CASE conn
  <2>1. inflight' = inflight \union {Full(hand, sends[hand])} /\ lost' = lost
    BY <1>5 DEF ListenWrite
  <2>2. FullIn({Full(hand, sends[hand])}) = {hand}
    <3>1. sends[hand] \in Nat
      BY <1>0, <1>1 DEF TypeOK
    <3> QED
      BY <1>1, <3>1, FullInFacts
  <2>3. FullIn(inflight') = FullIn(inflight) \union {hand}
    BY <2>1, <2>2, FullInFacts
  <2>4. FullIn(inflight)' = FullIn(inflight) \union {hand}
    BY <2>3 DEF FullIn
  <2>5. Sent' = Sent \union {hand} /\ Gone' = Gone
    BY <1>4, <2>1, <2>4, <1>a, ListenQuiet DEF Sent, Gone
  <2> QED
    BY <1>1, <1>2, <1>3, <1>4, <2>1, <2>4, <2>5
<1>6. CASE ~conn
  <2>1. inflight' = inflight /\ lost' = lost \union {hand}
    BY <1>6 DEF ListenWrite
  <2>2. FullIn(inflight)' = FullIn(inflight)
    BY <2>1 DEF FullIn
  <2>3. Sent' = Sent /\ Gone' = Gone \union {hand}
    BY <1>4, <2>1, <2>2, <1>a, ListenQuiet DEF Sent, Gone
  <2> QED
    BY <1>1, <1>2, <1>3, <1>4, <2>1, <2>2, <2>3
<1> QED
  BY <1>5, <1>6

LEMMA WriteInv == ASSUME OutboxInv, ListenWrite PROVE OutboxInv'
<1>0. TypeOK' /\ TypeOK
  BY TypeStep DEF OutboxInv, Next, Listen
<1>a. Listen
  BY DEF Listen
<1>b. \A e \in Stamp : sends[e] \in Nat /\ sends'[e] = IF e = hand THEN sends[e] + 1 ELSE sends[e]
  BY <1>0, WriteFacts DEF TypeOK
<1>1. OnePlace'
  <2>1. ASSUME NEW e \in Stamp \ again PROVE Single(e)'
    <3>1. Single(e) /\ e # NoEvent
      BY DEF OutboxInv, OnePlace, Stamp, NoEvent
    <3>2. CASE e # hand
      <4>1. (e \in Held' <=> e \in Held) /\ (e \in Sent' <=> e \in Sent)
            /\ (e \in Gone' <=> e \in Gone) /\ sends'[e] = sends[e]
            /\ (e \in FullIn(inflight)' <=> e \in FullIn(inflight))
            /\ (e \in lost' <=> e \in lost)
        BY <3>2, <1>b, WriteFacts
      <4> QED
        BY <3>1, <3>2, <4>1, <1>a, WriteFacts, ListenQuiet DEF Single
    <3>3. CASE e = hand
      <4>1. e \in Held /\ e \notin Sent /\ e \notin Stored /\ e \notin Gone /\ e \notin Range(events)
        BY <3>1, <3>3, WriteFacts DEF Single
      <4>2. sends'[e] = 1
        BY <3>3, <4>1, <1>b DEF OutboxInv
      <4>3. e \notin Held' /\ e # made' /\ e \notin Range(events)' /\ e \notin Stored'
        BY <3>3, <4>1, <1>a, WriteFacts, ListenQuiet
      <4> QED
        BY <3>3, <4>1, <4>2, <4>3, <1>a, WriteFacts, ListenQuiet DEF Single, Sent, Gone
    <3> QED
      BY <3>2, <3>3
  <2> QED
    BY <2>1, WriteFacts DEF OutboxInv, OnePlace
<1>2. ASSUME NEW e \in Stamp \ again, e \notin (Sent \union Stored \union Gone)' PROVE sends'[e] = 0
  BY <1>2, <1>a, <1>b, WriteFacts, ListenQuiet DEF OutboxInv
<1>3. Copies(received)'
  <2>1. \A m \in received : m.src = "full" => m.stamp \in Stamp /\ m.copy \in Nat
    BY <1>0, MessageFacts DEF TypeOK
  <2> QED
    BY <1>b, <2>1, WriteFacts DEF OutboxInv, Copies
<1>4. Copies(inflight)'
  <2>1. \A m \in inflight : m.src = "full" => m.stamp \in Stamp /\ m.copy \in Nat
    BY <1>0, MessageFacts DEF TypeOK
  <2>2. ASSUME NEW m \in inflight, m.src = "full" PROVE m.copy < sends'[m.stamp]
    BY <1>b, <2>1, <2>2 DEF OutboxInv, Copies
  <2>3. PICK n \in Nat : n = sends[hand]
    BY <1>b, WriteFacts
  <2>4. Full(hand, n).copy < sends'[Full(hand, n).stamp]
    <3>1. Full(hand, n).copy = n /\ Full(hand, n).stamp = hand
      BY WriteFacts, MessageFacts
    <3>2. sends'[hand] = n + 1
      BY <1>b, <2>3, WriteFacts
    <3> QED
      BY <3>1, <3>2
  <2>5. inflight' \subseteq inflight \union {Full(hand, n)}
    BY <2>3, WriteFacts
  <2> QED
    BY <2>2, <2>4, <2>5 DEF Copies
<1>5. Seen' = Seen
  <2>1. Range(events)' = Range(events) /\ Stored' = Stored /\ again' = again /\ hand' = NoEvent
        /\ hand # NoEvent
    BY <1>a, WriteFacts, ListenQuiet DEF Range, Stamp, NoEvent
  <2>2. Sent' \union Gone' = Sent \union Gone \union {hand}
    BY WriteFacts
  <2> QED
    BY <2>1, <2>2 DEF Seen
<1>6. Used' = Used
  BY <1>5, <1>a, ListenQuiet DEF Used
<1>7. start' <= minute' /\ (made' # NoEvent => gpc' = "push" /\ \A e \in Seen' : e < made')
      /\ \A e \in Used' : e <= Horizon'
  BY <1>a, <1>5, <1>6, ListenQuiet DEF OutboxInv
<1>8. \A i, j \in DOMAIN events' : events'[i] = events'[j] => i = j
  BY WriteFacts DEF OutboxInv
<1>9. again' = again /\ lpc' = "drain" /\ hand' = NoEvent
  BY WriteFacts
<1> QED
  BY <1>0, <1>1, <1>2, <1>3, <1>4, <1>7, <1>8, <1>9 DEF OutboxInv

(* Clearing EVENTS loses what was pushed since it was found empty; what is on *)
(* the wire arrives.                                                         *)
LEMMA ClearFacts ==
    ASSUME OutboxInv, ListenClear
    PROVE  /\ events' = <<>> /\ Range(events)' = {} /\ lost' = lost \union Range(events)
           /\ lpc = "clear" /\ lpc' = "accept" /\ UNCHANGED <<hand, again, sends>>
           /\ hand = NoEvent
           /\ received' = received \union inflight /\ inflight' = {}
           /\ FullIn(inflight)' = {}
           /\ FullIn(received)' = FullIn(received) \union FullIn(inflight)
           /\ Held' = Held \ Range(events) /\ Range(events) \subseteq Held
           /\ Sent' = Sent /\ Gone' = Gone \union Range(events)
<1>a. Listen
  BY DEF Listen
<1>1. /\ events' = <<>> /\ lost' = lost \union Range(events)
      /\ lpc = "clear" /\ lpc' = "accept" /\ UNCHANGED <<hand, again, sends>>
      /\ received' = received \union inflight /\ inflight' = {}
      /\ hand = NoEvent
  BY DEF ListenClear, hvars, OutboxInv
<1>2. FullIn({}) = {} /\ FullIn(received \union inflight) = FullIn(received) \union FullIn(inflight)
  BY FullInFacts
<1>3. FullIn(inflight)' = {} /\ FullIn(received)' = FullIn(received) \union FullIn(inflight)
  BY <1>1, <1>2 DEF FullIn
<1>4. Range(events)' = {}
  BY <1>1 DEF Range
<1>5. made # NoEvent => made \notin Range(events)
  <2>1. made # NoEvent => made \notin Seen
    BY DEF OutboxInv, TypeOK
  <2> QED
    BY <2>1 DEF Seen
<1>6. NoEvent \notin Range(events)
  BY UsedAreStamps DEF OutboxInv, Stamp, NoEvent
<1>7. Held' = Held \ Range(events) /\ Range(events) \subseteq Held
  BY <1>1, <1>4, <1>5, <1>6, <1>a, ListenQuiet DEF Held
<1>8. Sent' = Sent /\ Gone' = Gone \union Range(events)
  BY <1>1, <1>3, <1>a, ListenQuiet DEF Sent, Gone
<1> QED
  BY <1>1, <1>3, <1>4, <1>7, <1>8

LEMMA ClearInv == ASSUME OutboxInv, ListenClear PROVE OutboxInv'
<1>0. TypeOK' /\ TypeOK
  BY TypeStep DEF OutboxInv, Next, Listen
<1>a. Listen
  BY DEF Listen
<1>1. OnePlace'
  <2>1. ASSUME NEW e \in Stamp \ again PROVE Single(e)'
    <3>1. Single(e) /\ e # NoEvent
      BY DEF OutboxInv, OnePlace, Stamp, NoEvent
    <3>2. e \notin Range(events)' /\ made' = made /\ hand' = hand /\ Stored' = Stored
          /\ Sent' = Sent /\ FullIn(inflight)' = {} /\ sends' = sends /\ rejected' = rejected
      BY <1>a, ClearFacts, ListenQuiet
    <3>3. CASE e \in Range(events)
      <4>1. e \in Held /\ e \notin Held'
        BY <3>3, ClearFacts
      <4> QED
        BY <3>1, <3>2, <4>1, ClearFacts DEF Single, Gone
    <3>4. CASE e \notin Range(events)
      <4>1. (e \in Held' <=> e \in Held) /\ (e \in Gone' <=> e \in Gone) /\ (e \in lost' <=> e \in lost)
        BY <3>4, ClearFacts
      <4> QED
        BY <3>1, <3>2, <4>1 DEF Single
    <3> QED
      BY <3>3, <3>4
  <2> QED
    BY <2>1, ClearFacts DEF OutboxInv, OnePlace
<1>2. Copies(inflight)' /\ Copies(received)'
  BY ClearFacts DEF OutboxInv, Copies
<1>3. Seen' = Seen
  BY <1>a, ClearFacts, ListenQuiet DEF Seen
<1>4. Used' = Used
  BY <1>3, <1>a, ListenQuiet DEF Used
<1>5. start' <= minute' /\ (made' # NoEvent => gpc' = "push" /\ \A e \in Seen' : e < made')
      /\ \A e \in Used' : e <= Horizon'
  BY <1>a, <1>3, <1>4, ListenQuiet DEF OutboxInv
<1>6. \A e \in Stamp \ again' : e \notin (Sent \union Stored \union Gone)' => sends'[e] = 0
  BY <1>a, ClearFacts, ListenQuiet DEF OutboxInv
<1>7. events' = <<>> /\ lpc' = "accept" /\ hand' = NoEvent
  BY ClearFacts
<1> QED
  BY <1>0, <1>1, <1>2, <1>5, <1>6, <1>7 DEF OutboxInv

(* All steps of listen_thread.                                               *)
LEMMA ListenInv == OutboxInv /\ Listen => OutboxInv'
<1> SUFFICES ASSUME OutboxInv, Listen PROVE OutboxInv'
  OBVIOUS
<1>0. TypeOK' /\ TypeOK
  BY TypeStep DEF OutboxInv, Next
<1>1. CASE ListenRequest \/ ListenDrained
  <2>1. /\ UNCHANGED <<events, hand, received, lost, again, sends, inflight>>
        /\ hand = NoEvent /\ lpc' \notin {"pop", "write"}
    BY <1>1 DEF ListenRequest, ListenDrained, svars, hvars, OutboxInv
  <2>2. FullIn(inflight)' = FullIn(inflight) /\ Copies(inflight)'
    BY <2>1 DEF FullIn, Copies, OutboxInv
  <2> QED
    BY <1>0, <2>1, <2>2, QuietInv, ListenQuiet
<1>2. CASE ListenCurrent
  <2>1. /\ UNCHANGED <<events, hand, received, lost, again, sends>>
        /\ hand = NoEvent /\ lpc' \notin {"pop", "write"}
    BY <1>2 DEF ListenCurrent, svars, hvars, OutboxInv
  <2> QED
    BY <1>0, <1>2, <2>1, CurrentKeepsFull, QuietInv, ListenQuiet
<1>3. CASE ListenSort
  <2>1. /\ UNCHANGED <<hand, received, lost, again, sends, inflight, made, rejected>>
        /\ hand = NoEvent /\ lpc' \in {"current", "drain"} /\ lpc = "sort"
        /\ events' \in Orders(events)
    BY <1>3, ListenQuiet DEF ListenSort, svars, hvars, OutboxInv
  <2>a. events \in Seq(Stamp)
    BY <1>0 DEF TypeOK
  <2>2. Range(events') = Range(events) /\ \A i, j \in DOMAIN events' : events'[i] = events'[j] => i = j
    BY <2>1, <2>a, OrderFacts
  <2>3. Held' = Held /\ Sent' = Sent /\ Stored' = Stored /\ Gone' = Gone
        /\ FullIn(inflight)' = FullIn(inflight) /\ FullIn(received)' = FullIn(received)
    BY <2>1, <2>2, ListenQuiet DEF Held, Sent, Gone, FullIn
  <2>4. Seen' = Seen /\ Used' = Used
    BY <2>1, <2>2, <2>3 DEF Seen, Used
  <2>5. OnePlace'
    <3>1. ASSUME NEW e \in Stamp \ again PROVE Single(e)'
      <4>1. Single(e) /\ e # NoEvent
        BY DEF OutboxInv, OnePlace, Stamp, NoEvent
      <4> QED
        BY <2>1, <2>2, <2>3, <4>1 DEF Single
    <3> QED
      BY <2>1, <3>1 DEF OutboxInv, OnePlace
  <2>6. Copies(inflight)' /\ Copies(received)'
    BY <2>1 DEF OutboxInv, Copies
  <2> QED
    BY <1>0, <2>1, <2>2, <2>3, <2>4, <2>5, <2>6, ListenQuiet DEF OutboxInv
<1> QED
  BY <1>1, <1>2, <1>3, BackInv, PopInv, WriteInv, ClearInv DEF Listen

(* A broken connection loses what the server did not get.                    *)
LEMMA BreakFacts ==
    ASSUME OutboxInv, Break
    PROVE  /\ UNCHANGED <<minute, gpc, start, made, events, lpc, hand, table, rejected, again,
                         sends>>
           /\ Held' = Held /\ Stored' = Stored /\ Horizon' = Horizon
           /\ Copies(inflight)' /\ Copies(received)' /\ FullIn(inflight)' = {}
           /\ \E S \in SUBSET Sent :
                 /\ lost' = lost \union S /\ Gone' = Gone \union S
                 /\ Sent' \subseteq Sent /\ Sent \subseteq Sent' \union S
                 /\ \A e \in S : e \notin again => e \notin Sent'
<1>1. PICK got \in SUBSET inflight :
        /\ received' = received \union got
        /\ lost' = lost \union FullIn(inflight \ got)
        /\ inflight' = {}
        /\ UNCHANGED <<minute, gvars, events, lpc, hand, table, rejected, hvars>>
  BY DEF Break
<1>2. UNCHANGED <<minute, gpc, start, made, events, lpc, hand, table, rejected, again, sends>>
  BY <1>1 DEF gvars, hvars
<1>3. FullIn(got) \subseteq FullIn(inflight) /\ FullIn(inflight \ got) \subseteq FullIn(inflight)
      /\ FullIn(inflight) \subseteq FullIn(got) \union FullIn(inflight \ got)
  BY FullInFacts
<1>4. FullIn(inflight)' = {} /\ FullIn(received)' = FullIn(received) \union FullIn(got)
  BY <1>1, FullInFacts
<1>5. Sent' = FullIn(received) \union FullIn(got)
  BY <1>4 DEF Sent
<1>6. PICK S : S = FullIn(inflight \ got)
  OBVIOUS
<1>7. ASSUME NEW e \in S, e \notin again PROVE e \notin Sent'
  <2>1. e \in FullIn(inflight) /\ e \in Stamp
    BY <1>3, <1>6, <1>7, FullInFacts
  <2>2. e \notin FullIn(received)
    BY <1>7, <2>1 DEF OutboxInv, OnePlace, Single, Sent
  <2>3. e \notin FullIn(inflight \ (inflight \ got))
    <3>1. PICK T \in SUBSET inflight : T = inflight \ got /\ e \in FullIn(T)
      BY <1>6, <1>7
    <3> QED
      BY <1>7, <2>1, <3>1, MessageTaken
  <2>4. inflight \ (inflight \ got) = got
    OBVIOUS
  <2> QED
    BY <1>5, <2>2, <2>3, <2>4
<1>8. Copies(inflight)' /\ Copies(received)'
  BY <1>1, <1>2 DEF OutboxInv, Copies
<1>9. Held' = Held /\ Stored' = Stored /\ Horizon' = Horizon /\ Gone' = Gone \union S
  BY <1>1, <1>2, <1>6 DEF Held, Stored, Horizon, Gone
<1> QED
  BY <1>1, <1>2, <1>3, <1>4, <1>5, <1>6, <1>7, <1>8, <1>9 DEF Sent

LEMMA BreakInv == ASSUME OutboxInv, Break PROVE OutboxInv'
<1>0. TypeOK' /\ TypeOK
  BY TypeStep DEF OutboxInv, Next
<1>1. PICK S \in SUBSET Sent :
                 /\ lost' = lost \union S /\ Gone' = Gone \union S
                 /\ Sent' \subseteq Sent /\ Sent \subseteq Sent' \union S
                 /\ \A e \in S : e \notin again => e \notin Sent'
  BY BreakFacts
<1>2. OnePlace'
  <2>1. ASSUME NEW e \in Stamp \ again PROVE Single(e)'
    <3>1. Single(e)
      BY DEF OutboxInv, OnePlace
    <3>2. Range(events)' = Range(events) /\ made' = made /\ hand' = hand /\ lpc' = lpc
          /\ Held' = Held /\ Stored' = Stored /\ FullIn(inflight)' = {} /\ sends' = sends
          /\ rejected' = rejected
      BY BreakFacts DEF Range
    <3>3. e \in S => e \notin Sent'
      BY <1>1
    <3> QED
      BY <1>1, <3>1, <3>2, <3>3 DEF Single, Gone
  <2> QED
    BY <1>1, <2>1, BreakFacts DEF OutboxInv, OnePlace
<1>3. Seen' = Seen
  <2>1. Range(events)' = Range(events) /\ hand' = hand /\ again' = again /\ Stored' = Stored
    BY BreakFacts DEF Range
  <2>2. Sent' \union Gone' = Sent \union Gone
    BY <1>1
  <2> QED
    BY <2>1, <2>2 DEF Seen
<1>4. Used' = Used
  BY <1>3, BreakFacts DEF Used
<1>5. \A e \in Stamp \ again' : e \notin (Sent \union Stored \union Gone)' => sends'[e] = 0
  BY <1>1, BreakFacts DEF OutboxInv
<1>6. lpc' = "pop" => \E i \in DOMAIN events' : Behind(i)'
  BY BreakFacts DEF OutboxInv, Behind
<1>7. start' <= minute' /\ (made' # NoEvent => gpc' = "push" /\ \A e \in Seen' : e < made')
      /\ \A e \in Used' : e <= Horizon'
  BY <1>3, <1>4, BreakFacts DEF OutboxInv
<1> QED
  BY <1>0, <1>2, <1>5, <1>6, <1>7, BreakFacts DEF OutboxInv

(* A crash empties the client; what it held or had on the wire is lost.      *)
LEMMA CrashFacts ==
    ASSUME OutboxInv, Crash
    PROVE  /\ lost' = lost \union Held \union FullIn(inflight)
           /\ events' = <<>> /\ made' = NoEvent /\ hand' = NoEvent /\ inflight' = {}
           /\ gpc' = "login" /\ lpc' = "accept" /\ start' = 0
           /\ UNCHANGED <<minute, received, table, rejected, again, sends>>
           /\ FullIn(inflight)' = {} /\ FullIn(received)' = FullIn(received)
           /\ Held' = {} /\ Stored' = Stored /\ Sent' = FullIn(received)
           /\ Gone' = Gone \union Held \union FullIn(inflight) /\ Range(events)' = {}
<1>1. /\ lost' = lost \union Held \union FullIn(inflight)
      /\ events' = <<>> /\ made' = NoEvent /\ hand' = NoEvent /\ inflight' = {}
      /\ gpc' = "login" /\ lpc' = "accept" /\ start' = 0
      /\ UNCHANGED <<minute, received, table, rejected, again, sends>>
  BY DEF Crash, Held, svars, hvars
<1>2. FullIn(inflight)' = {} /\ FullIn(received)' = FullIn(received)
  BY <1>1, FullInFacts
<1>3. Range(events)' = {}
  BY <1>1 DEF Range
<1>4. Held' = {} /\ Stored' = Stored
  BY <1>1, <1>3 DEF Held, Stored
<1>5. Sent' = FullIn(received) /\ Gone' = Gone \union Held \union FullIn(inflight)
  BY <1>1, <1>2 DEF Sent, Gone
<1> QED
  BY <1>1, <1>2, <1>3, <1>4, <1>5

LEMMA CrashInv == ASSUME OutboxInv, Crash PROVE OutboxInv'
<1>0. TypeOK' /\ TypeOK
  BY TypeStep DEF OutboxInv, Next
<1>1. OnePlace'
  <2>1. ASSUME NEW e \in Stamp \ again PROVE Single(e)'
    <3>1. Single(e) /\ e # NoEvent
      BY DEF OutboxInv, OnePlace, Stamp, NoEvent
    <3> QED
      BY <3>1, CrashFacts DEF Single, Gone, Sent
  <2> QED
    BY <2>1, CrashFacts DEF OutboxInv, OnePlace
<1>2. Seen' = Used
  <2>1. Held = Range(events) \union ({hand} \ {NoEvent}) \union ({made} \ {NoEvent})
    BY DEF Held
  <2>2. /\ Range(events)' = {} /\ {hand'} \ {NoEvent} = {} /\ again' = again /\ Stored' = Stored
        /\ Sent' = FullIn(received) /\ Gone' = Gone \union Held \union FullIn(inflight)
    BY CrashFacts
  <2> QED
    BY <2>1, <2>2 DEF Seen, Used, Sent
<1>3. Used' = Used
  BY <1>2, CrashFacts DEF Used
<1>4. Horizon' = minute /\ start' <= minute' /\ Horizon <= minute
  BY <1>0, CrashFacts DEF Horizon, TypeOK, OutboxInv
<1>5. ASSUME NEW e \in Used' PROVE e <= Horizon'
  <2>1. e \in Stamp /\ e <= Horizon
    BY <1>0, <1>3, <1>5, UsedAreStamps DEF OutboxInv
  <2> QED
    BY <1>0, <1>4, <2>1 DEF Stamp, TypeOK, Horizon
<1>6. Copies(inflight)' /\ Copies(received)'
  BY CrashFacts DEF OutboxInv, Copies
<1>7. ASSUME NEW e \in Stamp \ again, e \notin (Sent \union Stored \union Gone)' PROVE sends'[e] = 0
  BY <1>7, CrashFacts DEF OutboxInv, Sent
<1> QED
  BY <1>0, <1>1, <1>4, <1>5, <1>6, <1>7, CrashFacts DEF OutboxInv

(* An upload moves at most one full event, into the table or to the rejected. *)
LEMMA UploadFacts ==
    ASSUME OutboxInv, NEW m \in received, Upload(m)
    PROVE  /\ UNCHANGED <<minute, gpc, start, made, events, lpc, hand, lost, again, sends>>
           /\ inflight' = inflight /\ received' = received \ {m}
           /\ Held' = Held /\ FullIn(inflight)' = FullIn(inflight) /\ Horizon' = Horizon
           /\ \/ /\ FullIn(received)' = FullIn(received) /\ Sent' = Sent
                 /\ Stored' = Stored /\ rejected' = rejected
              \/ \E b \in Stamp :
                    /\ b \in FullIn(received) /\ b \in Sent
                    /\ FullIn(received)' \subseteq FullIn(received)
                    /\ FullIn(received) \subseteq FullIn(received)' \union {b}
                    /\ Sent' \subseteq Sent /\ Sent \subseteq Sent' \union {b}
                    /\ b \notin again => b \notin Sent'
                    /\ \/ Stored' = Stored \union {b} /\ rejected' = rejected
                       \/ Stored' = Stored /\ rejected' = rejected \union {b}
<1>0. TypeOK
  BY DEF OutboxInv
<1>a. /\ m \in Message /\ received' = received \ {m}
      /\ UNCHANGED <<minute, gvars, events, lvars, inflight, lost, hvars>>
  BY <1>0 DEF Upload, TypeOK
<1>b. Held' = Held /\ FullIn(inflight)' = FullIn(inflight) /\ Horizon' = Horizon
      /\ UNCHANGED <<minute, gpc, start, made, events, lpc, hand, lost, again, sends>>
  BY <1>a DEF Held, FullIn, Horizon, gvars, lvars, hvars
<1>1. CASE m.src = "full"
  <2>1. m.stamp \in Stamp /\ m.stamp \in FullIn(received) /\ m.stamp \in FullIn({m})
    BY <1>1, <1>a, MessageFacts DEF FullIn
  <2>2. PICK b \in Stamp : b = m.stamp
    BY <2>1
  <2>3. /\ FullIn(received \ {m}) \subseteq FullIn(received)
        /\ FullIn(received) \subseteq FullIn(received \ {m}) \union {b}
    <3>1. {m} \subseteq received
      OBVIOUS
    <3>2. FullIn(received) = FullIn({m}) \union FullIn(received \ {m})
      BY <3>1, FullInFacts
    <3>3. FullIn({m}) \subseteq {b}
      BY <2>2, FullInFacts
    <3> QED
      BY <3>2, <3>3
  <2>4. FullIn(received)' = FullIn(received \ {m})
    BY <1>a DEF FullIn
  <2>5. b \notin again => b \notin FullIn(received \ {m}) /\ b \notin FullIn(inflight)
    <3> SUFFICES ASSUME b \notin again
                 PROVE  b \notin FullIn(received \ {m}) /\ b \notin FullIn(inflight)
      OBVIOUS
    <3>1. PICK T \in SUBSET received : T = {m} /\ b \in FullIn(T)
      BY <2>1, <2>2
    <3>2. b \notin FullIn(received \ T)
      BY <3>1, MessageTaken
    <3>3. b \notin FullIn(inflight)
      BY <2>1, <2>2 DEF OutboxInv, OnePlace, Single, Sent
    <3> QED
      BY <3>1, <3>2, <3>3
  <2>6. \/ Stored' = Stored \union {b} /\ rejected' = rejected
        \/ Stored' = Stored /\ rejected' = rejected \union {b}
    BY <1>0, <1>1, <2>1, <2>2 DEF Upload, Stored, TypeOK, Stamp
  <2>7. /\ b \in Sent /\ Sent' \subseteq Sent /\ Sent \subseteq Sent' \union {b}
        /\ b \notin again => b \notin Sent'
    BY <1>b, <2>1, <2>2, <2>3, <2>4, <2>5 DEF Sent
  <2> QED
    BY <1>a, <1>b, <2>1, <2>2, <2>3, <2>4, <2>6, <2>7
<1>2. CASE m.src # "full"
  <2>1. FullIn(received)' = FullIn(received)
    BY <1>2, <1>a DEF FullIn
  <2>2. Stored' = Stored /\ rejected' = rejected
    BY <1>0, <1>2, <1>a DEF Upload, Stored, TypeOK, Stamp
  <2> QED
    BY <1>a, <1>b, <2>1, <2>2 DEF Sent
<1> QED
  BY <1>1, <1>2

LEMMA UploadInv == ASSUME OutboxInv, NEW m \in received, Upload(m) PROVE OutboxInv'
<1>0. TypeOK' /\ TypeOK
  BY TypeStep DEF OutboxInv, Next
<1>1. OnePlace'
  <2>1. ASSUME NEW e \in Stamp \ again PROVE Single(e)'
    <3>1. Single(e)
      BY DEF OutboxInv, OnePlace
    <3>2. Range(events)' = Range(events) /\ made' = made /\ hand' = hand /\ lpc' = lpc
          /\ Held' = Held /\ FullIn(inflight)' = FullIn(inflight) /\ sends' = sends
          /\ lost' = lost
      BY UploadFacts DEF Range
    <3>3. CASE /\ FullIn(received)' = FullIn(received) /\ Sent' = Sent
               /\ Stored' = Stored /\ rejected' = rejected
      BY <3>1, <3>2, <3>3 DEF Single, Gone
    <3>4. ASSUME NEW b \in Stamp,
                 b \in FullIn(received) /\ b \in Sent,
                 FullIn(received)' \subseteq FullIn(received),
                 Sent' \subseteq Sent,
                 b \notin again => b \notin Sent',
                 \/ Stored' = Stored \union {b} /\ rejected' = rejected
                 \/ Stored' = Stored /\ rejected' = rejected \union {b}
          PROVE  Single(e)'
      <4>1. CASE e = b
        <5>1. e \notin Held /\ e \notin Stored /\ e \notin Gone
          BY <3>1, <3>4, <4>1 DEF Single
        <5> QED
          BY <3>1, <3>2, <3>4, <4>1, <5>1 DEF Single, Gone
      <4>2. CASE e # b
        <5>1. (e \in Stored' <=> e \in Stored) /\ (e \in rejected' <=> e \in rejected)
          BY <3>4, <4>2
        <5>2. e \in Gone' <=> e \in Gone
          BY <3>2, <5>1 DEF Gone
        <5> QED
          BY <3>1, <3>2, <3>4, <5>1, <5>2 DEF Single
      <4> QED
        BY <4>1, <4>2
    <3> QED
      BY <3>3, <3>4, UploadFacts
  <2> QED
    BY <2>1, UploadFacts DEF OutboxInv, OnePlace
<1>2. Seen' = Seen
  <2>1. Range(events)' = Range(events) /\ hand' = hand /\ again' = again /\ lost' = lost
    BY UploadFacts DEF Range
  <2>2. (Sent \union Stored \union rejected)' = Sent \union Stored \union rejected
    BY UploadFacts
  <2> QED
    BY <2>1, <2>2 DEF Seen, Gone
<1>3. Used' = Used
  BY <1>2, UploadFacts DEF Used
<1>4. Copies(inflight)' /\ Copies(received)'
  BY UploadFacts DEF OutboxInv, Copies
<1>5. ASSUME NEW e \in Stamp \ again, e \notin (Sent \union Stored \union Gone)' PROVE sends'[e] = 0
  <2>1. e \notin Sent \union Stored \union Gone
    <3>1. (Sent \union Stored \union rejected)' = Sent \union Stored \union rejected
          /\ lost' = lost
      BY UploadFacts
    <3> QED
      BY <1>5, <3>1 DEF Gone
  <2> QED
    BY <2>1, UploadFacts DEF OutboxInv
<1>6. lpc' = "pop" => \E i \in DOMAIN events' : Behind(i)'
  BY UploadFacts DEF OutboxInv, Behind
<1>7. start' <= minute' /\ (made' # NoEvent => gpc' = "push" /\ \A e \in Seen' : e < made')
      /\ \A e \in Used' : e <= Horizon'
  BY <1>2, <1>3, UploadFacts DEF OutboxInv
<1> QED
  BY <1>0, <1>1, <1>4, <1>5, <1>6, <1>7, UploadFacts DEF OutboxInv

(* Every step keeps the invariant.                                           *)
LEMMA StepInv == OutboxInv /\ [Next]_vars => OutboxInv'
<1> SUFFICES ASSUME OutboxInv, [Next]_vars PROVE OutboxInv'
  OBVIOUS
<1>0. TypeOK' /\ TypeOK
  BY TypeStep DEF OutboxInv
<1>1. CASE Tick \/ UNCHANGED vars
  <2>1. UNCHANGED <<gpc, start, made, events, lpc, hand, inflight, received, table, rejected,
                    lost, again, sends>>
    BY <1>1 DEF Tick, vars, gvars, lvars, svars, hvars
  <2>2. Horizon <= Horizon' /\ start' <= minute'
    BY <1>0, <1>1, <2>1 DEF OutboxInv, Tick, vars, Horizon, TypeOK
  <2>3. FullIn(inflight)' = FullIn(inflight) /\ Copies(inflight)'
    BY <2>1 DEF FullIn, Copies, OutboxInv
  <2>4. made # NoEvent => gpc' = "push"
    BY <2>1 DEF OutboxInv
  <2> QED
    BY <1>0, <2>1, <2>2, <2>3, <2>4, QuietInv
<1> QED
  BY <1>1, GatherInv, ListenInv, BreakInv, CrashInv, UploadInv DEF Next

(* So it holds in every reachable state.                                     *)
LEMMA AlwaysInv == Spec => []OutboxInv
<1>1. Init => OutboxInv
  BY InitInv
<1> QED
  BY <1>1, StepInv, PTL DEF Spec

(* No interleaving of the two threads, broken connection or crash makes an   *)
(* event appear in two places, unless a push fell between back() and         *)
(* pop_back(); and for each event that did, a later one is lost.             *)
THEOREM EventInOnePlace == Spec => []OnePlace
<1> QED
  BY AlwaysInv, PTL DEF OutboxInv

----------------------------------------------------------------------------
(* The refinement.                                                           *)
Map == [e \in Stamp |-> PlaceOf(e)]

LEMMA PlaceFacts ==
    ASSUME NEW e \in Stamp PROVE PlaceOf(e) \in Life!Place /\ PlaceOf(e)' \in Life!Place
  BY DEF PlaceOf, Life!Place

(* A step that moves no event is a stutter of EventLife.                     *)
LEMMA LifeQuiet ==
    ASSUME UNCHANGED <<Held, Sent, Stored, rejected, lost>>
    PROVE  UNCHANGED Map
  BY DEF Map, PlaceOf

(* A new event in the client is a Build.                                     *)
LEMMA LifeBuild ==
    ASSUME NEW b \in Stamp, b \notin Used, again' = again,
           Held' = Held \union {b}, UNCHANGED <<Sent, Stored, rejected, lost>>
    PROVE  Life!Build
<1>1. Map' = [e \in Stamp |-> IF e \in {b} THEN "held" ELSE Map[e]]
  <2>1. ASSUME NEW e \in Stamp, e # b PROVE PlaceOf(e)' = PlaceOf(e)
    BY <2>1 DEF PlaceOf
  <2>2. PlaceOf(b)' = "held"
    BY DEF PlaceOf
  <2> QED
    BY <2>1, <2>2 DEF Map
<1>2. Map[b] = "unbuilt"
  BY DEF Map, PlaceOf, Used, Seen, Held, Gone
<1> QED
  BY <1>1, <1>2 DEF Life!Build, Life!Move, Map

(* An event that leaves the client over an intact connection is a Send,      *)
(* unless it stayed in EVENTS.                                               *)
LEMMA LifeSend ==
    ASSUME NEW b \in Stamp, b \in Held, Held' \in {Held, Held \ {b}}, again' = again,
           Sent' = Sent \union {b}, UNCHANGED <<Stored, rejected, lost>>
    PROVE  Life!Send \/ UNCHANGED Map
<1>1. ASSUME NEW e \in Stamp, e # b PROVE PlaceOf(e)' = PlaceOf(e)
  BY <1>1 DEF PlaceOf
<1>2. CASE Held' = Held
  <2>1. PlaceOf(b)' = PlaceOf(b)
    BY <1>2 DEF PlaceOf
  <2> QED
    BY <1>1, <2>1 DEF Map
<1>3. CASE Held' = Held \ {b}
  <2>1. PlaceOf(b)' = "sent" /\ PlaceOf(b) = "held"
    BY <1>3 DEF PlaceOf
  <2>2. Map' = [e \in Stamp |-> IF e \in {b} THEN "sent" ELSE Map[e]]
    BY <1>1, <2>1 DEF Map
  <2> QED
    BY <2>1, <2>2 DEF Life!Send, Life!Move, Map
<1> QED
  BY <1>2, <1>3

(* An event the server takes into the table, or refuses, is Stored/Rejected. *)
LEMMA LifeSettle ==
    ASSUME OutboxInv, NEW b \in Stamp, b \in Sent, Held' = Held,
           lost' = lost, again' = again,
           Sent' \subseteq Sent, Sent \subseteq Sent' \union {b},
           \/ Stored' = Stored \union {b} /\ rejected' = rejected
           \/ Stored' = Stored /\ rejected' = rejected \union {b}
    PROVE  Life!Store \/ Life!Reject \/ UNCHANGED Map
<1>1. ASSUME NEW e \in Stamp, e # b PROVE PlaceOf(e)' = PlaceOf(e)
  <2>1. (e \in Sent' <=> e \in Sent) /\ (e \in Stored' <=> e \in Stored)
        /\ (e \in rejected' <=> e \in rejected)
    BY <1>1
  <2> QED
    BY <2>1 DEF PlaceOf
<1>2. CASE b \in Held \/ b \in Sent'
  <2>1. PlaceOf(b)' = PlaceOf(b)
    BY <1>2 DEF PlaceOf
  <2> QED
    BY <1>1, <2>1 DEF Map
<1>3. CASE b \notin Held /\ b \notin Sent' /\ b \in Stored'
  <2>1. PlaceOf(b)' = "stored" /\ PlaceOf(b) = "sent"
    BY <1>3 DEF PlaceOf
  <2>2. Map' = [e \in Stamp |-> IF e \in {b} THEN "stored" ELSE Map[e]]
    BY <1>1, <2>1 DEF Map
  <2> QED
    BY <2>1, <2>2 DEF Life!Store, Life!Move, Map
<1>4. CASE b \notin Held /\ b \notin Sent' /\ b \notin Stored'
  <2>1. PlaceOf(b)' = "rejected" /\ PlaceOf(b) = "sent"
    BY <1>4 DEF PlaceOf
  <2>2. Map' = [e \in Stamp |-> IF e \in {b} THEN "rejected" ELSE Map[e]]
    BY <1>1, <2>1 DEF Map
  <2> QED
    BY <2>1, <2>2 DEF Life!Reject, Life!Move, Map
<1> QED
  BY <1>2, <1>3, <1>4

(* Any events that leave the client or the wire for good are a Lose.         *)
LEMMA LifeLose ==
    ASSUME OutboxInv, NEW S, S \subseteq Held \union Sent,
           Held' \subseteq Held, Sent' \subseteq Sent,
           Held \subseteq Held' \union S, Sent \subseteq Sent' \union S,
           lost' = lost \union S, UNCHANGED <<Stored, rejected, again>>
    PROVE  Life!Lose
<1>1. Map' \in [Stamp -> Life!Place]
  <2>1. \A e \in Stamp : PlaceOf(e)' \in Life!Place
    BY PlaceFacts
  <2> QED
    BY <2>1 DEF Map
<1>2. ASSUME NEW e \in Stamp
      PROVE  \/ PlaceOf(e)' = PlaceOf(e)
             \/ PlaceOf(e) \in {"held", "sent"} /\ PlaceOf(e)' = "lost"
             \/ e \in again /\ PlaceOf(e)' \in Life!Ahead(PlaceOf(e))
  <2>1. CASE e \in Held'
    BY <2>1 DEF PlaceOf
  <2>2. CASE e \notin Held' /\ e \notin Held /\ e \in Sent'
    BY <2>2 DEF PlaceOf
  <2>3. CASE e \notin Held /\ e \notin Sent
    <3>1. e \notin S /\ (e \in lost' <=> e \in lost)
      BY <2>3
    <3> QED
      BY <2>3, <3>1 DEF PlaceOf
  <2>4. CASE e \in Held /\ e \notin Held'
    <3>1. PlaceOf(e) = "held" /\ e \in lost' /\ PlaceOf(e)' \in {"sent", "stored", "rejected", "lost"}
      BY <2>4 DEF PlaceOf
    <3>2. Life!Ahead(PlaceOf(e)) = {"sent", "stored", "rejected"}
      BY <3>1 DEF Life!Ahead
    <3>3. CASE e \notin again
      <4>1. e \notin Sent /\ e \notin Stored /\ e \notin rejected
        BY <2>4, <3>3 DEF OutboxInv, OnePlace, Single, Gone
      <4>2. PlaceOf(e)' = "lost"
        BY <2>4, <3>1, <4>1 DEF PlaceOf
      <4> QED
        BY <3>1, <4>2
    <3> QED
      BY <3>1, <3>2, <3>3
  <2>5. CASE e \notin Held /\ e \in Sent /\ e \notin Sent'
    <3>1. PlaceOf(e) = "sent" /\ e \in lost' /\ PlaceOf(e)' \in {"stored", "rejected", "lost"}
      BY <2>5 DEF PlaceOf
    <3>2. Life!Ahead(PlaceOf(e)) = {"stored", "rejected"}
      BY <3>1 DEF Life!Ahead
    <3>3. CASE e \notin again
      <4>1. e \notin Stored /\ e \notin rejected
        BY <2>5, <3>3 DEF OutboxInv, OnePlace, Single, Gone
      <4>2. PlaceOf(e)' = "lost"
        BY <2>5, <3>1, <4>1 DEF PlaceOf
      <4> QED
        BY <3>1, <4>2
    <3> QED
      BY <3>1, <3>2, <3>3
  <2> QED
    BY <2>1, <2>2, <2>3, <2>4, <2>5
<1> QED
  BY <1>1, <1>2 DEF Life!Lose, Map

(* A pop_back() that takes another event than back() read is an Overtake.    *)
LEMMA LifePop ==
    ASSUME OutboxInv, ListenPop
    PROVE  Life!Overtake \/ UNCHANGED <<Map, again>>
<1>a. Listen
  BY DEF Listen
<1>1. Sent' = Sent /\ Stored' = Stored /\ rejected' = rejected /\ hand \in Held
      /\ Last(events) \in Held /\ hand \in Stamp /\ Last(events) \in Stamp
      /\ Held' = (Held \ {Last(events)}) \union {hand}
  BY <1>a, PopFacts, ListenQuiet DEF Held
<1>2. CASE Last(events) = hand /\ UNCHANGED <<lost, again>>
  <2>1. Held' = Held
    BY <1>1, <1>2
  <2> QED
    BY <1>1, <1>2, <2>1, LifeQuiet
<1>3. CASE /\ Last(events) # hand /\ Last(events) \notin again
           /\ lost' = lost \union {Last(events)} /\ again' = again \union {hand}
  <2>1. PICK f \in Stamp : f = Last(events)
    BY <1>1
  <2>2. f \in Held /\ f \notin Sent /\ f \notin Stored /\ f \notin rejected
    BY <1>1, <1>3, <2>1 DEF OutboxInv, OnePlace, Single, Gone
  <2>3. PlaceOf(f) = "held" /\ PlaceOf(f)' = "lost" /\ PlaceOf(hand) = "held"
    BY <1>1, <1>3, <2>1, <2>2 DEF PlaceOf
  <2>4. ASSUME NEW e \in Stamp, e # f PROVE PlaceOf(e)' = PlaceOf(e)
    <3>1. (e \in Held' <=> e \in Held) /\ (e \in lost' <=> e \in lost)
      BY <1>1, <1>3, <2>1, <2>4
    <3> QED
      BY <1>1, <3>1 DEF PlaceOf
  <2>5. Map' = [Map EXCEPT ![f] = "lost"]
    BY <2>3, <2>4 DEF Map
  <2> QED
    BY <1>1, <1>3, <2>1, <2>3, <2>5 DEF Life!Overtake, Map
<1> QED
  BY <1>2, <1>3, PopFacts

(* Every step of the detailed specification is a step of EventLife, or none. *)
LEMMA LifeStep ==
    OutboxInv /\ [Next]_vars => Life!Next \/ UNCHANGED <<Map, again>>
<1> SUFFICES ASSUME OutboxInv, [Next]_vars PROVE Life!Next \/ UNCHANGED <<Map, again>>
  OBVIOUS
<1>0. TypeOK
  BY DEF OutboxInv
<1>q. ASSUME UNCHANGED <<made, events, hand, inflight, received, table, rejected, lost, again>>
      PROVE  UNCHANGED <<Map, again>>
  BY <1>q, LifeQuiet DEF Held, Sent, Stored, FullIn, Range
<1>1. CASE GatherBuild
  <2>1. made = NoEvent /\ \A e \in Used : e < minute
    <3>1. made = NoEvent /\ Horizon = start /\ start < minute
      BY <1>0, <1>1 DEF GatherBuild, OutboxInv, Horizon, TypeOK
    <3>2. ASSUME NEW e \in Used PROVE e < minute
      <4>1. e \in Stamp /\ e <= start
        BY <1>0, <3>1, UsedAreStamps DEF OutboxInv
      <4> QED
        BY <1>0, <3>1, <4>1 DEF Stamp, TypeOK
    <3> QED
      BY <3>1, <3>2
  <2>2. UNCHANGED <<Sent, Stored, rejected, lost, again>> /\ Range(events)' = Range(events)
    BY <1>1 DEF GatherBuild, Sent, Stored, FullIn, svars, hvars, Range
  <2>3. CASE made' = NoEvent
    BY <1>1, <2>1, <2>3, <1>q DEF GatherBuild, lvars, svars, hvars
  <2>4. CASE made' = minute /\ minute # NoEvent
    <3>1. Held' = Held \union {minute}
      BY <1>1, <2>1, <2>2, <2>4 DEF GatherBuild, Held, lvars, NoEvent
    <3>2. minute \in Stamp /\ minute \notin Used
      BY <1>0, <2>1, <2>4 DEF TypeOK, Stamp, NoEvent
    <3>3. PICK b \in Stamp : b = minute
      BY <3>2
    <3> QED
      BY <2>2, <3>1, <3>2, <3>3, LifeBuild DEF Life!Next
  <2> QED
    BY <1>1, <2>3, <2>4 DEF GatherBuild
<1>2. CASE GatherPush
  <2>1. Held' = Held
    <3>1. CASE made = NoEvent
      BY <1>2, <3>1 DEF GatherPush, Held, lvars, NoEvent, Range
    <3>2. CASE made # NoEvent
      <4>1. events \in Seq(Stamp) /\ made \in Stamp /\ events' = Append(events, made)
            /\ made' = NoEvent /\ hand' = hand
        BY <1>0, <1>2, <3>2 DEF GatherPush, TypeOK, lvars, Stamp, NoEvent
      <4>2. Range(events') = Range(events) \union {made}
        BY <4>1, AppendFacts
      <4> QED
        BY <3>2, <4>1, <4>2 DEF Held, Range
    <3> QED
      BY <3>1, <3>2
  <2> QED
    BY <1>2, <2>1, LifeQuiet DEF GatherPush, Sent, Stored, FullIn, svars, hvars
<1>3. CASE Listen
  <2>a. UNCHANGED <<made, table, rejected, Stored>>
    BY <1>3, ListenQuiet
  <2>1. CASE ListenRequest \/ ListenDrained
    BY <2>1, <2>a, <1>q DEF ListenRequest, ListenDrained, svars, hvars
  <2>2. CASE ListenSort
    <3>1. Range(events') = Range(events)
      <4>1. events \in Seq(Stamp) /\ events' \in Orders(events)
        BY <1>0, <2>2 DEF TypeOK, ListenSort
      <4> QED
        BY <4>1, OrderFacts
    <3>2. UNCHANGED <<hand, inflight, received, lost, again>>
      BY <2>2 DEF ListenSort, svars, hvars
    <3>3. Held' = Held /\ Sent' = Sent
      BY <2>a, <3>1, <3>2 DEF Held, Sent, FullIn, Range
    <3> QED
      BY <2>a, <3>2, <3>3, LifeQuiet
  <2>3. CASE ListenCurrent
    <3>1. FullIn(inflight)' = FullIn(inflight)
      BY <2>3, CurrentKeepsFull
    <3>2. UNCHANGED <<events, hand, received, lost, again>>
      BY <2>3 DEF ListenCurrent, svars, hvars
    <3>3. Held' = Held /\ Sent' = Sent
      BY <2>a, <3>1, <3>2 DEF Held, Sent, FullIn, Range
    <3> QED
      BY <2>a, <3>2, <3>3, LifeQuiet
  <2>4. CASE ListenBack
    <3>1. Held' = Held
      <4>1. events \in Seq(Stamp) /\ events # <<>> /\ hand' = Last(events) /\ events' = events
            /\ hand = NoEvent
        BY <1>0, <2>4 DEF TypeOK, ListenBack, OutboxInv
      <4>2. Last(events) \in Stamp /\ Last(events) = events[Len(events)]
            /\ Len(events) \in DOMAIN events
        BY <4>1, LastAndFront
      <4>3. Last(events) \in Range(events)
        BY <4>2 DEF Range
      <4> QED
        BY <2>a, <4>1, <4>3 DEF Held, Range
    <3>2. Sent' = Sent /\ UNCHANGED <<lost, again>>
      BY <2>4 DEF ListenBack, svars, hvars, Sent, FullIn
    <3> QED
      BY <2>a, <3>1, <3>2, LifeQuiet
  <2>5. CASE ListenPop
    BY <2>5, LifePop DEF Life!Next
  <2>6. CASE ListenWrite
    <3>1. PICK b \in Stamp : b = hand
      BY <2>6, WriteFacts
    <3>2. Held' \in {Held, Held \ {b}} /\ b \in Held /\ again' = again
      BY <2>6, <3>1, WriteFacts
    <3>3. CASE Sent' = Sent \union {hand} /\ lost' = lost
      BY <2>a, <3>1, <3>2, <3>3, LifeSend DEF Life!Next
    <3>4. CASE Sent' = Sent /\ lost' = lost \union {hand}
      <4>1. PICK S : S = {b}
        OBVIOUS
      <4>2. /\ S \subseteq Held \union Sent /\ Held' \subseteq Held /\ Sent' \subseteq Sent
            /\ Held \subseteq Held' \union S /\ Sent \subseteq Sent' \union S
            /\ lost' = lost \union S
        BY <3>1, <3>2, <3>4, <4>1
      <4> QED
        BY <2>a, <3>2, <4>2, LifeLose DEF Life!Next
    <3> QED
      BY <2>6, <3>3, <3>4, WriteFacts
  <2>7. CASE ListenClear
    <3>1. PICK S : S = Range(events)
      OBVIOUS
    <3>2. /\ S \subseteq Held \union Sent /\ Held' \subseteq Held /\ Sent' \subseteq Sent
          /\ Held \subseteq Held' \union S /\ Sent \subseteq Sent' \union S
          /\ lost' = lost \union S /\ again' = again
      BY <2>7, <3>1, ClearFacts
    <3> QED
      BY <2>a, <3>2, LifeLose DEF Life!Next
  <2> QED
    BY <1>3, <2>1, <2>2, <2>3, <2>4, <2>5, <2>6, <2>7 DEF Listen
<1>4. CASE Break
  <2>1. PICK S \in SUBSET Sent : lost' = lost \union S /\ Sent' \subseteq Sent
                               /\ Sent \subseteq Sent' \union S
    BY <1>4, BreakFacts
  <2>2. Held' = Held /\ Stored' = Stored /\ rejected' = rejected /\ again' = again
    BY <1>4, BreakFacts
  <2>3. S \subseteq Held \union Sent /\ Held' \subseteq Held /\ Held \subseteq Held' \union S
    BY <2>1, <2>2
  <2> QED
    BY <2>1, <2>2, <2>3, LifeLose DEF Life!Next
<1>5. CASE Crash
  <2>1. PICK S : S = Held \union FullIn(inflight)
    OBVIOUS
  <2>2. /\ S \subseteq Held \union Sent /\ Held' \subseteq Held /\ Sent' \subseteq Sent
        /\ Held \subseteq Held' \union S /\ Sent \subseteq Sent' \union S
        /\ lost' = lost \union S /\ UNCHANGED <<Stored, rejected, again>>
    BY <1>5, <2>1, CrashFacts DEF Sent
  <2> QED
    BY <2>2, LifeLose DEF Life!Next
<1>6. ASSUME NEW m \in received, Upload(m) PROVE Life!Next \/ UNCHANGED <<Map, again>>
  <2>1. Held' = Held /\ lost' = lost /\ again' = again
    BY <1>6, UploadFacts
  <2>2. CASE Sent' = Sent /\ Stored' = Stored /\ rejected' = rejected
    BY <2>1, <2>2, LifeQuiet
  <2>3. ASSUME NEW b \in Stamp, b \in Sent,
               Sent' \subseteq Sent /\ Sent \subseteq Sent' \union {b},
               \/ Stored' = Stored \union {b} /\ rejected' = rejected
               \/ Stored' = Stored /\ rejected' = rejected \union {b}
        PROVE  Life!Next \/ UNCHANGED <<Map, again>>
    BY <2>1, <2>3, LifeSettle DEF Life!Next
  <2> QED
    BY <1>6, <2>2, <2>3, UploadFacts
<1>7. CASE Tick \/ (\E u \in {"none", "local", "remote"} : GatherLogin(u))
           \/ GatherPoll \/ GatherCleanup \/ UNCHANGED vars
  BY <1>7, <1>q DEF Tick, GatherLogin, GatherPoll, GatherCleanup, vars, gvars, lvars, svars, hvars
<1> QED
  BY <1>1, <1>2, <1>3, <1>4, <1>5, <1>6, <1>7 DEF Next, Gather

(* The two threads, the connection and the table implement EventLife: every  *)
(* event is built once and only moves forward, and one is sent again only    *)
(* when another overtook it and was lost.                                    *)
THEOREM OutboxImplementsLife == Spec => LifeImplemented
<1>1. Init => Life!Init
  <2> SUFFICES ASSUME Init PROVE Life!Init
    OBVIOUS
  <2>1. Used = {} /\ again = {}
    BY InitInv DEF Init
  <2>2. \A e \in Stamp : PlaceOf(e) = "unbuilt"
    BY <2>1 DEF Used, Seen, PlaceOf, Held, Gone
  <2> QED
    BY <2>1, <2>2 DEF Life!Init
<1>2. OutboxInv /\ [Next]_vars => [Life!Next]_<<Map, again>>
  BY LifeStep
<1> QED
  BY <1>1, <1>2, AlwaysInv, PTL DEF Spec, LifeImplemented, Life!Spec, Life!lifevars, Map
=============================================================================
