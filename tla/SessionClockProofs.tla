------------------------- MODULE SessionClockProofs -------------------------
(* Proofs about SessionClock for any accounts, scripts, week, limit and      *)
(* horizon: the types, that no warning follows an expiry message, and that   *)
(* no script starts twice in a minute with a login and one is missed only by *)
(* a pass that began late.                                                   *)
EXTENDS SessionClock, SequenceTheorems, TLAPS

(* The windows of the messages lie apart, each wider than a cycle.           *)
LEMMA Constants ==
    /\ Minute \in Nat /\ Minute > 2 /\ Limit \in Nat /\ RunTime \in Nat
    /\ Warn15 \in Nat /\ Warn5 \in Nat /\ Warn1 \in Nat
    /\ Warn1 < Warn5 /\ Warn5 < Warn15 /\ Warn15 < Limit
    /\ Minute <= Warn1 /\ Minute + Warn1 < Warn5 /\ Minute + Warn5 < Warn15
    /\ Guest \subseteq User /\ Nobody \notin User /\ Missing \notin Nat
BY SessionClockAssumption

\* A time is the beginning of its minute and its seconds.
LEMMA DivMod ==
    ASSUME NEW t \in Nat
    PROVE  /\ MinuteOf(t) \in Nat /\ Second(t) \in 0..(Minute - 1)
           /\ t = Minute * MinuteOf(t) + Second(t)
BY Constants DEF MinuteOf, Second

\* A cycle ends after it begins.
LEMMA CycleGoesOn ==
    ASSUME NEW t \in Nat, NEW e \in CycleEnds(t)
    PROVE  e \in Nat /\ e > t
<1>1. Second(t) \in 0..(Minute - 1)
  BY DivMod
<1>2. QED BY <1>1, Constants DEF CycleEnds

\* What can be due is one of the four messages or none.
LEMMA Stages ==
    ASSUME NEW t
    PROVE  Stage(t) \in {15, 5, 1, 0, Missing}
BY DEF Stage

\* Past the limit, only the expiry can be due.
LEMMA OnlyExpiry ==
    ASSUME NEW t \in Nat, now \in Nat, t + Limit < now
    PROVE  Stage(t) \in {0, Missing}
<1>1. /\ ~Between(t, Warn15, Warn5)
      /\ ~Between(t, Warn5, Warn1)
      /\ ~Between(t, Warn1, 0)
  BY Constants DEF Between
<1>2. QED BY <1>1 DEF Stage

\* The inductive invariant: an account whose expiry's turn came is past its limit
\* by the next poll.
Expired(g) == \E k \in DOMAIN turns[g] : turns[g][k] = 0
PastLimit ==
    \A g \in Guest : Expired(g) =>
        /\ since[g] # 0 /\ since[g] + Limit <= now
        /\ opening = Nobody => since[g] + Limit < wake
TableType == DOMAIN table \subseteq Script
IInv == TypeOK /\ TableType /\ PastLimit /\ ExpiryIsLast

LEMMA InitInv == Init => IInv
<1> SUFFICES ASSUME Init PROVE IInv
  OBVIOUS
<1>1. TableType
  <2>1. PICK c \in Configs : table = Load(c)
    BY DEF Init
  <2>2. \A s \in DOMAIN c : s \in Script
    BY SessionClockAssumption
  <2>3. DOMAIN Load(c) \subseteq DOMAIN c
    BY DEF Load
  <2>4. QED BY <2>1, <2>2, <2>3 DEF TableType
<1>2. QED BY <1>1, Constants DEF Init, IInv, TypeOK, PastLimit, ExpiryIsLast, Expired

\* What another thread puts into the buffer is a minute.
LEMMA PutTimeType ==
    ASSUME NEW t \in Nat, tm \in Nat, PutTime(t)
    PROVE  tm' \in Nat
BY DivMod DEF PutTime

LEMMA NextInv == IInv /\ [Next]_vars => IInv'
<1>1. SUFFICES ASSUME IInv, [Next]_vars PROVE IInv'
  OBVIOUS
<1> USE Constants
\* Steps that change neither the clock nor what the message thread keeps.
<1>2. ASSUME TypeOK', UNCHANGED <<now, table, mvars>> PROVE IInv'
  BY <1>1, <1>2 DEF IInv, TableType, PastLimit, ExpiryIsLast, Expired, mvars
<1>3. CASE GatherData
  <2>1. CASE TakeTime
    <3>1. MinuteOf(now) \in Nat
      BY <1>1, DivMod DEF IInv, TypeOK
    <3>2. TypeOK'
      BY <1>1, <2>1, <3>1 DEF TakeTime, IInv, TypeOK, TableType, mvars
    <3>3. QED BY <1>2, <2>1, <3>2 DEF TakeTime
  <2>2. ASSUME NEW s \in Script, CompareScript(s) PROVE IInv'
    <3>1. runs' \in [Script -> 0..2]
      BY <1>1, <2>2 DEF CompareScript, IInv, TypeOK
    <3>2. until' \in Nat /\ until' >= now
      BY <1>1, <2>2 DEF CompareScript, IInv, TypeOK
    <3>3. left' \subseteq Script /\ misread' \subseteq Script
      BY <1>1, <2>2 DEF CompareScript, IInv, TypeOK
    <3>4. TypeOK'
      BY <1>1, <2>2, <3>1, <3>2, <3>3 DEF CompareScript, IInv, TypeOK, mvars
    <3>5. QED BY <1>2, <2>2, <3>4 DEF CompareScript
  <2>3. CASE Login
    <3>1. until' \in Nat /\ until' >= now
      <4>1. now \in Nat /\ until' \in IF user = Nobody THEN {now} ELSE CycleEnds(now)
        BY <1>1, <2>3 DEF Login, IInv, TypeOK
      <4>2. CASE user = Nobody
        BY <4>1, <4>2
      <4>3. CASE user # Nobody
        BY <4>1, <4>3, CycleGoesOn
      <4>4. QED BY <4>2, <4>3
    <3>2. TypeOK'
      BY <1>1, <2>3, <3>1 DEF Login, IInv, TypeOK, mvars
    <3>3. QED BY <1>2, <2>3, <3>2 DEF Login
  <2>4. CASE EndCycle
    <3>1. TypeOK'
      BY <1>1, <2>4 DEF EndCycle, IInv, TypeOK, mvars
    <3>2. QED BY <1>2, <2>4, <3>1 DEF EndCycle
  <2>5. QED BY <1>3, <2>1, <2>2, <2>3, <2>4 DEF GatherData, ExecuteScript
<1>4. CASE MsgBox
  <2>1. ASSUME wake' \in Nat, wake' > now, UNCHANGED <<now, table, since, turns>>,
               IInv, opening' = Nobody
        PROVE  TableType' /\ PastLimit' /\ ExpiryIsLast'
    BY <2>1 DEF IInv, TypeOK, TableType, PastLimit, ExpiryIsLast, Expired
  <2>2. CASE PollEmpty
    <3>1. wake' \in Nat /\ wake' > now
      BY <1>1, <2>2 DEF PollEmpty, Sleep, IInv, TypeOK
    <3>2. TypeOK'
      BY <1>1, <2>2, <3>1 DEF PollEmpty, IInv, TypeOK, gvars
    <3>3. QED BY <1>1, <2>1, <2>2, <3>1, <3>2 DEF PollEmpty, IInv, gvars
  <2>3. CASE PollOther
    <3>1. wake' \in Nat /\ wake' > now
      BY <1>1, <2>3 DEF PollOther, Sleep, IInv, TypeOK
    <3>2. TypeOK'
      BY <1>1, <2>3, <3>1 DEF PollOther, IInv, TypeOK, gvars
    <3>3. QED BY <1>1, <2>1, <2>3, <3>1, <3>2 DEF PollOther, IInv, gvars
  <2>4. CASE Opened
    <3>1. wake' \in Nat /\ wake' > now
      BY <1>1, <2>4 DEF Opened, Sleep, IInv, TypeOK
    <3>2. tm' \in Nat
      <4>1. now + Warn15 \in Nat /\ tm \in Nat
        BY <1>1 DEF IInv, TypeOK
      <4>2. QED BY <2>4, <4>1, PutTimeType DEF Opened
    <3>3. shown' \in [Guest -> SUBSET {15, 5, 1, 0}]
      BY <1>1, <2>4 DEF Opened, IInv, TypeOK
    <3>4. TypeOK'
      BY <1>1, <2>4, <3>1, <3>2, <3>3 DEF Opened, IInv, TypeOK, gvars
    <3>5. QED BY <1>1, <2>1, <2>4, <3>1, <3>4 DEF Opened, IInv, gvars
  <2>5. ASSUME NEW g \in Guest, PollFirst(g) PROVE IInv'
    <3>1. wake' \in Nat /\ wake' > now
      BY <1>1, <2>5 DEF PollFirst, Sleep, IInv, TypeOK
    <3>2. TypeOK'
      BY <1>1, <2>5, <3>1 DEF PollFirst, IInv, TypeOK, gvars
    <3>3. ~Expired(g)
      BY <1>1, <2>5 DEF PollFirst, IInv, PastLimit
    <3>4. PastLimit' /\ ExpiryIsLast'
      BY <1>1, <2>5, <3>1, <3>3 DEF PollFirst, IInv, TypeOK, PastLimit, ExpiryIsLast, Expired
    <3>5. TableType'
      BY <1>1, <2>5 DEF PollFirst, IInv, TableType, gvars
    <3>6. QED BY <3>2, <3>4, <3>5 DEF IInv
  <2>6. ASSUME NEW g \in Guest, PollAgain(g) PROVE IInv'
    <3> DEFINE m == Stage(since[g])
    <3>1. wake' \in Nat /\ wake' > now
      <4>1. (\E late \in 0..1 : Sleep(Minute + late)) /\ now \in Nat
        BY <1>1, <2>6 DEF PollAgain, IInv, TypeOK
      <4>2. QED BY <4>1 DEF Sleep
    <3>2. m \in {15, 5, 1, 0, Missing}
      BY Stages
    <3>3. /\ turns' = IF m = Missing THEN turns ELSE [turns EXCEPT ![g] = Append(@, m)]
          /\ flags' = IF m = Missing THEN flags ELSE IF m = 0 THEN {} ELSE flags \union {m}
          /\ opening' \in Guest \union {Nobody}
          /\ clean' \subseteq clean
          /\ UNCHANGED <<now, user, gvars, seen, since, shown>>
      BY <2>6 DEF PollAgain
    <3>4. Expired(g) => m \in {0, Missing}
      BY <1>1, <2>6, OnlyExpiry DEF PollAgain, IInv, TypeOK, PastLimit
    <3>5. m = 0 => since[g] # 0 /\ since[g] + Limit <= now
      BY <2>6 DEF Stage, PollAgain
    <3> HIDE DEF m
    <3>6. turns' \in [Guest -> Seq({15, 5, 1, 0})]
      BY <1>1, <3>2, <3>3 DEF IInv, TypeOK
    <3>7. flags' \subseteq {15, 5, 1}
      BY <1>1, <3>2, <3>3 DEF IInv, TypeOK
    <3>a. tm' \in Nat
      <4>1. now + Warn5 \in Nat /\ now + Warn1 \in Nat /\ tm \in Nat
        BY <1>1 DEF IInv, TypeOK
      <4>2. PutTime(now + Warn5) \/ PutTime(now + Warn1) \/ tm' = tm
        BY <2>6, <3>2, Stages DEF PollAgain
      <4>3. QED BY <4>1, <4>2, PutTimeType
    <3>8. TypeOK' /\ TableType'
      BY <1>1, <3>1, <3>3, <3>6, <3>7, <3>a DEF IInv, TypeOK, TableType, gvars
    <3>9. ASSUME NEW h \in Guest
          PROVE  /\ Expired(h)' => since[h] # 0 /\ since[h] + Limit <= now
                 /\ \A k, j \in DOMAIN turns'[h] :
                       turns'[h][k] = 0 /\ k < j => turns'[h][j] = 0
      <4>1. CASE h = g /\ m # Missing
        <5>1. turns'[h] = Append(turns[h], m) /\ turns[h] \in Seq({15, 5, 1, 0})
          BY <1>1, <3>3, <4>1 DEF IInv, TypeOK
        <5>2. /\ DOMAIN turns'[h] = 1..Len(turns[h]) + 1
              /\ DOMAIN turns[h] = 1..Len(turns[h]) /\ Len(turns[h]) \in Nat
              /\ \A k \in 1..Len(turns[h]) : turns'[h][k] = turns[h][k]
              /\ turns'[h][Len(turns[h]) + 1] = m
          BY <5>1
        <5>3. \A k, j \in DOMAIN turns[h] : turns[h][k] = 0 /\ k < j => turns[h][j] = 0
          BY <1>1 DEF IInv, ExpiryIsLast
        <5>4. Expired(h) => since[h] # 0 /\ since[h] + Limit <= now
          BY <1>1 DEF IInv, PastLimit
        <5>5. Expired(h)' => since[h] # 0 /\ since[h] + Limit <= now
          BY <3>5, <4>1, <5>2, <5>4 DEF Expired
        <5>6. ASSUME NEW k \in DOMAIN turns'[h], NEW j \in DOMAIN turns'[h],
                     turns'[h][k] = 0, k < j
              PROVE  turns'[h][j] = 0
          <6>1. k \in DOMAIN turns[h] /\ turns[h][k] = 0
            BY <5>2, <5>6
          <6>2. m = 0
            BY <3>4, <4>1, <6>1 DEF Expired
          <6>3. QED BY <5>2, <5>3, <5>6, <6>1, <6>2
        <5>7. QED BY <5>5, <5>6
      <4>2. CASE ~(h = g /\ m # Missing)
        <5>1. turns'[h] = turns[h]
          BY <1>1, <3>3, <4>2 DEF IInv, TypeOK
        <5>2. QED BY <1>1, <5>1 DEF IInv, PastLimit, ExpiryIsLast, Expired
      <4>3. QED BY <4>1, <4>2
    <3>10. PastLimit'
      BY <1>1, <3>1, <3>3, <3>9 DEF IInv, TypeOK, PastLimit
    <3>11. ExpiryIsLast'
      BY <3>9 DEF ExpiryIsLast
    <3>12. QED BY <3>8, <3>10, <3>11 DEF IInv
  <2>7. QED BY <1>4, <2>2, <2>3, <2>4, <2>5, <2>6 DEF MsgBox
<1>5. ASSUME NEW u \in User \union {Nobody}, Log(u) PROVE IInv'
  <2>1. TypeOK'
    BY <1>1, <1>5 DEF Log, IInv, TypeOK, gvars, mvars
  <2>2. QED BY <1>2, <1>5, <2>1 DEF Log, gvars
<1>a. CASE OtherTime
  <2>1. tm' \in Nat
    BY <1>1, <1>a, PutTimeType DEF OtherTime, IInv, TypeOK
  <2>2. TypeOK'
    BY <1>1, <1>a, <2>1 DEF OtherTime, IInv, TypeOK, gvars, mvars
  <2>3. QED BY <1>2, <1>a, <2>2 DEF OtherTime, gvars
<1>6. CASE Tick
  <2>1. runs' \in [Script -> 0..2]
    BY <1>1, <1>6 DEF Tick, IInv, TypeOK
  <2>2. TypeOK'
    BY <1>1, <1>6, <2>1 DEF Tick, IInv, TypeOK
  <2>3. TableType' /\ PastLimit' /\ ExpiryIsLast'
    BY <1>1, <1>6 DEF Tick, IInv, TypeOK, TableType, PastLimit, ExpiryIsLast, Expired
  <2>4. QED BY <2>2, <2>3 DEF IInv
<1>7. CASE UNCHANGED vars
  <2>1. TypeOK'
    BY <1>1, <1>7 DEF vars, gvars, mvars, IInv, TypeOK
  <2>2. QED BY <1>2, <1>7, <2>1 DEF vars, gvars
<1>8. QED BY <1>1, <1>3, <1>4, <1>5, <1>a, <1>6, <1>7 DEF Next

\* TypeOK holds in every reachable state: the threads' clocks never fall behind
\* the time, whatever the length of minutes, cycles and scripts.
THEOREM TypeCorrect == Spec => []TypeOK
<1>1. Spec => []IInv
  BY InitInv, NextInv, PTL DEF Spec
<1>2. IInv => TypeOK
  BY DEF IInv
<1>3. QED BY <1>1, <1>2, PTL

\* ExpiryIsLast holds in every reachable state, for any number of guests that
\* share the flags of the message thread, and for any limit and windows.
THEOREM NoWarningAfterExpiry == Spec => []ExpiryIsLast
<1>1. Spec => []IInv
  BY InitInv, NextInv, PTL DEF Spec
<1>2. IInv => ExpiryIsLast
  BY DEF IInv
<1>3. QED BY <1>1, <1>2, PTL

(* The windows.  A guest whom every sample found is behind by less than a    *)
(* poll: with each message issued comes a bound on the next poll that leaves *)
(* it inside the next window.                                                *)
Left(g, w) == since[g] + (Limit - w) + Minute
OnTime(g) ==
    /\ since[g] # 0
    /\ IF opening = Nobody
       THEN \/ turns[g] = <<>>          /\ flags = {}         /\ wake <= Left(g, Warn15)
            \/ turns[g] = <<15>>        /\ flags = {15}       /\ wake <= Left(g, Warn5)
            \/ turns[g] = <<15, 5>>     /\ flags = {15, 5}    /\ wake <= Left(g, Warn1)
            \/ turns[g] = <<15, 5, 1>>  /\ flags = {15, 5, 1} /\ wake <= Left(g, 0) + 1
            \/ turns[g] = <<15, 5, 1, 0>> /\ flags = {}
       ELSE turns[g] = <<15>> /\ flags = {15} /\ now <= Left(g, Warn15)
NewNone == \A g \in Guest : since[g] = 0 => turns[g] = <<>>
WInv == NewNone /\ \A g \in clean : OnTime(g)

LEMMA Appends ==
    /\ Append(<<15>>, 5) = <<15, 5>>
    /\ Append(<<15, 5>>, 1) = <<15, 5, 1>>
    /\ Append(<<15, 5, 1>>, 0) = <<15, 5, 1, 0>>
<1> DEFINE M == {15, 5, 1, 0}
<1>1. Append(<<15>>, 5) = <<15, 5>>
  <2>1. Append(<<15>>, 5) \in Seq(M) /\ <<15, 5>> \in Seq(M)
    OBVIOUS
  <2>2. Len(Append(<<15>>, 5)) = 2 /\ Len(<<15, 5>>) = 2
    OBVIOUS
  <2>3. \A i \in 1..2 : Append(<<15>>, 5)[i] = <<15, 5>>[i]
    OBVIOUS
  <2>4. QED BY <2>1, <2>2, <2>3, SeqEqual
<1>2. Append(<<15, 5>>, 1) = <<15, 5, 1>>
  <2>1. Append(<<15, 5>>, 1) \in Seq(M) /\ <<15, 5, 1>> \in Seq(M)
    OBVIOUS
  <2>2. Len(Append(<<15, 5>>, 1)) = 3 /\ Len(<<15, 5, 1>>) = 3
    OBVIOUS
  <2>3. \A i \in 1..3 : Append(<<15, 5>>, 1)[i] = <<15, 5, 1>>[i]
    OBVIOUS
  <2>4. QED BY <2>1, <2>2, <2>3, SeqEqual
<1>3. Append(<<15, 5, 1>>, 0) = <<15, 5, 1, 0>>
  <2>1. Append(<<15, 5, 1>>, 0) \in Seq(M) /\ <<15, 5, 1, 0>> \in Seq(M)
    OBVIOUS
  <2>2. Len(Append(<<15, 5, 1>>, 0)) = 4 /\ Len(<<15, 5, 1, 0>>) = 4
    OBVIOUS
  <2>3. \A i \in 1..4 : Append(<<15, 5, 1>>, 0)[i] = <<15, 5, 1, 0>>[i]
    OBVIOUS
  <2>4. QED BY <2>1, <2>2, <2>3, SeqEqual
<1>4. QED BY <1>1, <1>2, <1>3

LEMMA WarnedInit == Init => WInv
BY DEF Init, WInv, NewNone

LEMMA WarnedStep == IInv /\ WInv /\ [Next]_vars => WInv'
<1>1. SUFFICES ASSUME IInv, WInv, [Next]_vars PROVE WInv'
  OBVIOUS
<1> USE Constants
<1>2. ASSUME UNCHANGED <<now, mvars>> PROVE WInv'
  BY <1>1, <1>2 DEF WInv, NewNone, OnTime, Left, mvars
<1>3. ASSUME clean' = {}, UNCHANGED <<since, turns>> PROVE WInv'
  BY <1>1, <1>3 DEF WInv, NewNone
<1>4. CASE GatherData
  BY <1>2, <1>4 DEF GatherData, ExecuteScript, TakeTime, CompareScript, Login, EndCycle
<1>5. CASE PollEmpty
  BY <1>3, <1>5 DEF PollEmpty
<1>6. CASE PollOther
  BY <1>3, <1>6 DEF PollOther
<1>7. CASE Opened
  <2>1. NewNone'
    BY <1>1, <1>7 DEF Opened, WInv, NewNone
  <2>2. ASSUME NEW g \in clean PROVE OnTime(g)'
    <3>1. since[g] # 0 /\ turns[g] = <<15>> /\ flags = {15} /\ now <= Left(g, Warn15)
      BY <1>1, <1>7 DEF Opened, WInv, OnTime
    <3>2. now \in Nat /\ since[g] \in Nat
      BY <1>1 DEF IInv, TypeOK
    <3>3. wake' \in Nat /\ wake' <= now + Minute + 1
      BY <1>7, <3>2 DEF Opened, Sleep
    <3>4. wake' <= Left(g, Warn5)
      BY <3>1, <3>2, <3>3 DEF Left
    <3>5. QED BY <1>7, <3>1, <3>4 DEF Opened, OnTime, Left
  <2>3. QED BY <1>7, <2>1, <2>2 DEF Opened, WInv
<1>8. ASSUME NEW g \in Guest, PollFirst(g) PROVE WInv'
  <2>1. turns[g] = <<>> /\ turns' = turns /\ opening' = Nobody
    BY <1>1, <1>8 DEF PollFirst, WInv, NewNone
  <2>2. since' = [since EXCEPT ![g] = now] /\ now \in Nat /\ since \in [Guest -> Nat]
    BY <1>1, <1>8 DEF PollFirst, IInv, TypeOK
  <2>3. now # 0
    BY <1>1 DEF IInv, TypeOK
  <2>4. wake' \in Nat /\ wake' <= now + Minute + 1
    BY <1>8, <2>2 DEF PollFirst, Sleep
  <2>5. NewNone'
    BY <1>1, <2>1, <2>2, <2>3 DEF WInv, NewNone
  <2>6. \A h \in clean' : h = g /\ flags' = {}
    BY <1>8 DEF PollFirst
  <2>7. since'[g] = now /\ wake' <= Left(g, Warn15)'
    <3>1. since'[g] = now
      BY <2>2
    <3>2. QED BY <2>2, <2>4, <3>1 DEF Left
  <2>8. \A h \in clean' : OnTime(h)'
    <3>1. SUFFICES ASSUME g \in clean' PROVE OnTime(g)'
      BY <2>6
    <3>2. flags' = {} /\ turns'[g] = <<>>
      BY <2>1, <2>6, <3>1
    <3>3. QED BY <2>1, <2>3, <2>7, <3>2 DEF OnTime
  <2>9. QED BY <2>5, <2>8 DEF WInv
<1>9. ASSUME NEW g \in Guest, PollAgain(g) PROVE WInv'
  <2> DEFINE m == Stage(since[g])
             e == since[g]
  <2>1. /\ turns' = IF m = Missing THEN turns ELSE [turns EXCEPT ![g] = Append(@, m)]
        /\ flags' = IF m = Missing THEN flags ELSE IF m = 0 THEN {} ELSE flags \union {m}
        /\ clean' \subseteq clean \intersect {g}
        /\ since' = since /\ e # 0 /\ wake = now
    BY <1>9 DEF PollAgain
  <2>a. opening = Nobody /\ now' = now /\ (m # 15 => opening' = Nobody)
    BY <1>9 DEF PollAgain
  <2>2. /\ now \in Nat /\ e \in Nat /\ e <= now
        /\ turns \in [Guest -> Seq({15, 5, 1, 0})]
    BY <1>1, <1>9 DEF IInv, TypeOK
  <2>3. wake' \in Nat /\ wake' <= now + Minute + 1
    <3>1. \E late \in 0..1 : Sleep(Minute + late)
      BY <1>9 DEF PollAgain
    <3>2. QED BY <2>2, <3>1 DEF Sleep
  <2>4. NewNone'
    BY <1>1, <2>1, <2>2 DEF WInv, NewNone
  <2>5. ASSUME NEW h \in clean' PROVE OnTime(h)'
    <3>1. h = g /\ OnTime(g)
      BY <1>1, <2>1, <2>5 DEF WInv
    <3>2. m # Missing => turns'[g] = Append(turns[g], m)
      BY <2>1, <2>2
    <3>3. m = Missing => turns'[g] = turns[g] /\ flags' = flags
      BY <2>1
    <3>4. CASE turns[g] = <<>> /\ flags = {} /\ wake <= e + (Limit - Warn15) + Minute
      <4>1. CASE now < e + (Limit - Warn15)
        <5>1. m = Missing
          BY <2>2, <3>4, <4>1 DEF Stage, Between
        <5>2. QED
          BY <2>1, <2>2, <2>3, <2>a, <3>1, <3>3, <3>4, <4>1, <5>1 DEF OnTime, Left
      <4>2. CASE now >= e + (Limit - Warn15)
        <5>1. m = 15
          BY <2>1, <2>2, <3>4, <4>2 DEF Stage, Between
        <5>2. turns'[g] = <<15>> /\ flags' = {15}
          BY <2>1, <3>2, <3>4, <5>1
        <5>3. wake' <= e + (Limit - Warn5) + Minute
          BY <2>1, <2>2, <2>3, <3>4
        <5>4. now' <= e + (Limit - Warn15) + Minute
          BY <2>1, <2>a, <3>4
        <5>5. QED BY <2>1, <2>a, <3>1, <5>1, <5>2, <5>3, <5>4 DEF OnTime, Left
      <4>3. QED BY <2>2, <4>1, <4>2
    <3>5. CASE turns[g] = <<15>> /\ flags = {15} /\ wake <= e + (Limit - Warn5) + Minute
      <4>1. CASE now < e + (Limit - Warn5)
        <5>1. m = Missing
          BY <2>2, <3>5, <4>1 DEF Stage, Between
        <5>2. QED
          BY <2>1, <2>2, <2>3, <2>a, <3>1, <3>3, <3>5, <4>1, <5>1 DEF OnTime, Left
      <4>2. CASE now >= e + (Limit - Warn5)
        <5>1. m = 5
          BY <2>1, <2>2, <3>5, <4>2 DEF Stage, Between
        <5>2. turns'[g] = <<15, 5>> /\ flags' = {15, 5}
          BY <2>1, <3>2, <3>5, <5>1, Appends
        <5>3. wake' <= e + (Limit - Warn1) + Minute
          BY <2>1, <2>2, <2>3, <3>5
        <5>4. QED BY <2>1, <2>a, <3>1, <5>1, <5>2, <5>3 DEF OnTime, Left
      <4>3. QED BY <2>2, <4>1, <4>2
    <3>6. CASE turns[g] = <<15, 5>> /\ flags = {15, 5} /\ wake <= e + (Limit - Warn1) + Minute
      <4>1. CASE now < e + (Limit - Warn1)
        <5>1. m = Missing
          BY <2>2, <3>6, <4>1 DEF Stage, Between
        <5>2. QED
          BY <2>1, <2>2, <2>3, <2>a, <3>1, <3>3, <3>6, <4>1, <5>1 DEF OnTime, Left
      <4>2. CASE now >= e + (Limit - Warn1)
        <5>1. m = 1
          BY <2>1, <2>2, <3>6, <4>2 DEF Stage, Between
        <5>2. turns'[g] = <<15, 5, 1>> /\ flags' = {15, 5, 1}
          BY <2>1, <3>2, <3>6, <5>1, Appends
        <5>3. wake' <= e + (Limit - 0) + Minute + 1
          BY <2>1, <2>2, <2>3, <3>6
        <5>4. QED BY <2>1, <2>a, <3>1, <5>1, <5>2, <5>3 DEF OnTime, Left
      <4>3. QED BY <2>2, <4>1, <4>2
    <3>7. CASE turns[g] = <<15, 5, 1>> /\ flags = {15, 5, 1}
               /\ wake <= e + (Limit - 0) + Minute + 1
      <4>1. CASE now < e + Limit
        <5>1. m = Missing
          BY <2>2, <3>7, <4>1 DEF Stage
        <5>2. QED
          BY <2>1, <2>2, <2>3, <2>a, <3>1, <3>3, <3>7, <4>1, <5>1 DEF OnTime, Left
      <4>2. CASE now >= e + Limit
        <5>1. m = 0
          BY <2>2, <3>7, <4>2 DEF Stage
        <5>2. turns'[g] = <<15, 5, 1, 0>> /\ flags' = {}
          BY <2>1, <3>2, <3>7, <5>1, Appends
        <5>3. QED BY <2>1, <2>a, <3>1, <5>1, <5>2 DEF OnTime, Left
      <4>3. QED BY <2>2, <4>1, <4>2
    <3>8. CASE turns[g] = <<15, 5, 1, 0>> /\ flags = {}
      <4>1. Expired(g)
        <5>1. 4 \in DOMAIN turns[g] /\ turns[g][4] = 0
          BY <3>8
        <5>2. QED BY <5>1 DEF Expired
      <4>2. m \in {0, Missing}
        BY <1>1, <1>9, <2>1, <2>2, <4>1, OnlyExpiry DEF PollAgain, IInv, PastLimit
      <4>3. m = Missing
        BY <3>8, <4>2 DEF Stage
      <4>4. QED BY <2>1, <2>a, <3>1, <3>3, <3>8, <4>3 DEF OnTime, Left
    <3>9. QED BY <2>a, <3>1, <3>4, <3>5, <3>6, <3>7, <3>8 DEF OnTime, Left
  <2>6. QED BY <2>4, <2>5 DEF WInv
<1>10. CASE Tick
  <2>1. UNCHANGED <<since, turns, flags, opening, wake>>
        /\ clean' = IF opening = Nobody THEN clean ELSE {}
    BY <1>10 DEF Tick
  <2>2. QED BY <1>1, <2>1 DEF WInv, NewNone, OnTime, Left
<1>a. CASE OtherTime
  BY <1>2, <1>a DEF OtherTime
<1>11. ASSUME NEW u \in User \union {Nobody}, Log(u) PROVE WInv'
  BY <1>2, <1>11 DEF Log
<1>12. CASE UNCHANGED vars
  BY <1>2, <1>12 DEF vars
<1>13. QED
  BY <1>1, <1>4, <1>5, <1>6, <1>7, <1>8, <1>9, <1>10, <1>a, <1>11, <1>12 DEF Next, MsgBox

\* EveryTurnComes holds in every reachable state, for any limit and windows that
\* are at least as long as a poll: the minute between two polls never jumps over a
\* window, although the last one is no longer than a minute.  It is about when
\* display_linux_msgbox gets to a message, not about what the guest sees.
THEOREM WindowsMeetPolls == Spec => []EveryTurnComes
<1>1. Spec => []IInv
  BY InitInv, NextInv, PTL DEF Spec
<1>2. Spec => []WInv
  BY <1>1, WarnedInit, WarnedStep, PTL DEF Spec
<1>3. IInv /\ WInv => EveryTurnComes
  <2>1. SUFFICES ASSUME IInv, WInv, NEW g \in clean,
                        now > since[g] + Limit + Minute + 1
                 PROVE  turns[g] = <<15, 5, 1, 0>>
    BY DEF EveryTurnComes
  <2>2. OnTime(g) /\ since[g] \in Nat /\ now \in Nat /\ wake \in Nat
    BY <2>1 DEF WInv, IInv, TypeOK
  <2>a. ~(now <= Left(g, Warn15))
    BY <2>1, <2>2, Constants DEF Left
  <2>b. opening = Nobody /\ wake >= now
    BY <2>1, <2>2, <2>a DEF IInv, TypeOK, OnTime
  <2>3. /\ ~(wake <= Left(g, Warn15)) /\ ~(wake <= Left(g, Warn5))
        /\ ~(wake <= Left(g, Warn1)) /\ ~(wake <= Left(g, 0) + 1)
    BY <2>1, <2>2, <2>b, Constants DEF Left
  <2>4. QED BY <2>2, <2>b, <2>3 DEF OnTime
<1>4. QED BY <1>1, <1>2, <1>3, PTL

----------------------------------------------------------------------------
(* Minutes and seconds.                                                      *)

\* No other minute holds it.
LEMMA InMinute ==
    ASSUME NEW q \in Nat, NEW r \in 0..(Minute - 1)
    PROVE  MinuteOf(Minute * q + r) = q /\ Second(Minute * q + r) = r
<1> DEFINE t == Minute * q + r
           d == MinuteOf(t)
           e == Second(t)
<1>1. t \in Nat /\ Minute \in Nat \ {0}
  BY Constants
<1>2. d \in Nat /\ e \in 0..(Minute - 1) /\ Minute * q + r = Minute * d + e
  BY <1>1, DivMod
<1> HIDE DEF d, e
<1>3. ASSUME d >= q + 1 PROVE FALSE
  <2>1. Minute * d >= Minute * (q + 1)
    BY <1>1, <1>2, <1>3
  <2>2. Minute * (q + 1) = Minute * q + Minute
    BY <1>1
  <2>3. QED BY <1>1, <1>2, <2>1, <2>2
<1>4. ASSUME q >= d + 1 PROVE FALSE
  <2>1. Minute * q >= Minute * (d + 1)
    BY <1>1, <1>2, <1>4
  <2>2. Minute * (d + 1) = Minute * d + Minute
    BY <1>1, <1>2
  <2>3. QED BY <1>1, <1>2, <2>1, <2>2
<1>5. d = q
  <2>1. ~(d >= q + 1) /\ ~(q >= d + 1)
    BY <1>3, <1>4
  <2>2. QED BY <1>2, <2>1
<1>6. e = r
  BY <1>1, <1>2, <1>5
<1>7. QED BY <1>5, <1>6 DEF d, e

\* What comes before the next minute does is in this one.
LEMMA SameMinute ==
    ASSUME NEW q \in Nat, NEW t \in Nat, Minute * q <= t, t < Minute * q + Minute
    PROVE  MinuteOf(t) = q
<1>1. t - Minute * q \in 0..(Minute - 1) /\ t = Minute * q + (t - Minute * q)
  BY Constants
<1>2. QED BY <1>1, InMinute

\* A cycle ends in a later minute than it began: when its own ends, if it began in
\* the first two seconds.
LEMMA CycleEndsMinute ==
    ASSUME NEW t \in Nat, NEW e \in CycleEnds(t)
    PROVE  /\ MinuteOf(e) > MinuteOf(t)
           /\ Second(t) <= 1 => e = Minute * MinuteOf(t) + Minute
<1> DEFINE q == MinuteOf(t)
<1>1. q \in Nat /\ Second(t) \in 0..(Minute - 1) /\ t = Minute * q + Second(t)
  BY DivMod
<1>2. Minute \in Nat /\ 0 \in 0..(Minute - 1) /\ 1 \in 0..(Minute - 1)
  BY Constants
<1> HIDE DEF q
<1>3. Minute * (q + 1) = Minute * q + Minute /\ Minute * (q + 2) = Minute * q + Minute + Minute
  BY <1>1, <1>2
<1>4. /\ \/ e = Minute * (q + 1) + 0
         \/ e = Minute * (q + 1) + 1
         \/ e = Minute * (q + 2) + 0
      /\ Second(t) <= 1 => e = Minute * q + Minute
  <2>1. CASE Second(t) <= 1
    BY <1>1, <1>2, <1>3, <2>1 DEF CycleEnds
  <2>2. CASE Second(t) = 2
    BY <1>1, <1>2, <1>3, <2>2 DEF CycleEnds
  <2>3. CASE Second(t) > 2
    BY <1>1, <1>2, <1>3, <2>3 DEF CycleEnds
  <2>4. QED BY <1>1, <2>1, <2>2, <2>3
<1>5. MinuteOf(Minute * (q + 1) + 0) = q + 1 /\ MinuteOf(Minute * (q + 1) + 1) = q + 1
  <2>1. q + 1 \in Nat
    BY <1>1
  <2>2. QED BY <1>2, <2>1, InMinute
<1>6. MinuteOf(Minute * (q + 2) + 0) = q + 2
  <2>1. q + 2 \in Nat
    BY <1>1
  <2>2. QED BY <1>2, <2>1, InMinute
<1>7. MinuteOf(e) = q + 1 \/ MinuteOf(e) = q + 2
  BY <1>4, <1>5, <1>6
<1>8. QED BY <1>1, <1>4, <1>7 DEF q

\* Minutes never go back.
LEMMA MinutesGrow ==
    ASSUME NEW t \in Nat, NEW u \in Nat, t <= u
    PROVE  MinuteOf(t) <= MinuteOf(u)
<1> DEFINE a == MinuteOf(t)
           b == MinuteOf(u)
           x == Second(t)
           y == Second(u)
<1>0. /\ a \in Nat /\ x \in 0..(Minute - 1) /\ t = Minute * a + x
      /\ b \in Nat /\ y \in 0..(Minute - 1) /\ u = Minute * b + y
  BY DivMod
<1>1. Minute \in Nat
  BY Constants
<1> HIDE DEF a, b, x, y
<1>2. a \in Nat /\ b \in Nat /\ Minute * a < Minute * b + Minute
  BY <1>0, <1>1
<1>3. ASSUME a >= b + 1 PROVE FALSE
  <2>1. Minute * a >= Minute * (b + 1) /\ Minute * (b + 1) = Minute * b + Minute
    BY <1>1, <1>2, <1>3
  <2>2. QED BY <1>1, <1>2, <2>1
<1>4. a <= b
  BY <1>2, <1>3
<1>5. QED BY <1>4 DEF a, b

\* A tick leads to the next minute if it leads to its second 0, and else stays.
LEMMA NextTick ==
    ASSUME NEW t \in Nat
    PROVE  MinuteOf(t + 1) = IF Second(t + 1) = 0 THEN MinuteOf(t) + 1 ELSE MinuteOf(t)
<1> DEFINE q == MinuteOf(t)
           s == Second(t)
<1>1. q \in Nat /\ s \in 0..(Minute - 1) /\ t = Minute * q + s /\ Minute \in Nat
  BY DivMod, Constants
<1>2. 0 \in 0..(Minute - 1)
  BY Constants
<1> HIDE DEF q, s
<1>3. CASE s = Minute - 1
  <2>1. t + 1 = Minute * (q + 1) + 0 /\ q + 1 \in Nat
    BY <1>1, <1>3
  <2>2. MinuteOf(Minute * (q + 1) + 0) = q + 1 /\ Second(Minute * (q + 1) + 0) = 0
    BY <1>2, <2>1, InMinute
  <2>3. QED BY <2>1, <2>2 DEF q
<1>4. CASE s # Minute - 1
  <2>1. t + 1 = Minute * q + (s + 1) /\ s + 1 \in 0..(Minute - 1) /\ s + 1 # 0
    BY <1>1, <1>4
  <2>2. MinuteOf(Minute * q + (s + 1)) = q /\ Second(Minute * q + (s + 1)) = s + 1
    BY <1>1, <2>1, InMinute
  <2>3. QED BY <2>1, <2>2 DEF q
<1>5. QED BY <1>3, <1>4
----------------------------------------------------------------------------
(* The invariant.                                                            *)

\* A script whose minute this is has started if the pass looked for it in this
\* minute, is past it, and read this minute for it.
Started ==
    MinuteOf(now) = MinuteOf(looked) =>
        \A s \in Script : Due(s, MinuteOf(looked)) =>
            runs[s] >= 1 \/ s \in left \/ s \in misread

\* Nothing is left to compare when execute_script is over.
Compared == gpc # "compare" => left = {}

\* A prompt pass is over with its minute.
WithinMinute == Prompt => until <= Minute * MinuteOf(began) + Minute

\* With a login the pass ends in a later minute than its cycle began, before a
\* script starts in it.
LaterMinute ==
    ~idle /\ gpc # "compare" =>
        /\ MinuteOf(until) > MinuteOf(began)
        /\ gpc = "script" => until = now
        /\ MinuteOf(now) > MinuteOf(began) => \A s \in Script : runs[s] = 0

\* And what the next pass compares has not started in that minute.
NotYet == ~idle /\ gpc = "compare" => \A s \in left : runs[s] = 0

\* Nothing waits while nobody is there.
IdleNow == idle /\ gpc = "cycle" => until = began

ScriptInv ==
    TypeOK /\ TableType /\ Started /\ Compared /\ WithinMinute /\ LaterMinute /\ NotYet
    /\ IdleNow

\* The first look-up is still to come.
LEMMA ScriptInit == Init => ScriptInv
<1> SUFFICES ASSUME Init PROVE ScriptInv
  OBVIOUS
<1>1. TypeOK /\ TableType
  BY InitInv DEF IInv
<1>2. now = Minute * 1 + 0 /\ looked = Minute * 0 + 0 /\ began = now
  BY Constants DEF Init
<1>3. MinuteOf(Minute * 1 + 0) = 1 /\ MinuteOf(Minute * 0 + 0) = 0
  BY InMinute, Constants
<1>4. MinuteOf(now) # MinuteOf(looked) /\ MinuteOf(began) # MinuteOf(looked)
  BY <1>2, <1>3
<1>5. QED
  BY <1>1, <1>4 DEF Init, ScriptInv, Started, Compared, WithinMinute, LaterMinute, NotYet,
                    IdleNow, Prompt

\* A pass takes the time: everything is left to compare.
LEMMA ScriptTakeTime == ASSUME ScriptInv, TypeOK', TakeTime PROVE ScriptInv'
<1>1. /\ now' = now /\ looked' = now /\ gpc' = "compare" /\ left' = DOMAIN table
      /\ gpc = "script" /\ until = now
      /\ UNCHANGED <<table, runs, until, began, idle>>
  BY DEF TakeTime
<1>2. Started'
  <2>1. \A s \in Script : Due(s, MinuteOf(looked))' => s \in left'
    BY <1>1 DEF Due
  <2>2. QED BY <2>1 DEF Started
<1>3. NotYet'
  <2>1. SUFFICES ASSUME ~idle PROVE \A s \in left' : runs[s] = 0
    BY <1>1 DEF NotYet
  <2>2. MinuteOf(now) > MinuteOf(began) /\ left' \subseteq Script
    BY <1>1, <2>1 DEF ScriptInv, LaterMinute, TableType
  <2>3. QED BY <1>1, <2>1, <2>2 DEF ScriptInv, LaterMinute
<1>4. TableType'
  BY <1>1 DEF ScriptInv, TableType
<1>5. QED
  BY <1>1, <1>2, <1>3, <1>4 DEF ScriptInv, Compared, WithinMinute, Prompt, LaterMinute, IdleNow

\* A script that is compared with the pass's minute starts if it is due then.
LEMMA ScriptCompare ==
    ASSUME NEW s \in Script, ScriptInv, TypeOK', CompareScript(s)
    PROVE  ScriptInv'
<1>1. /\ UNCHANGED <<now, looked, table, tm, gpc, idle>> /\ gpc = "compare"
      /\ left' = left \ {s}
      /\ misread' = IF tm = MinuteOf(looked) THEN misread ELSE misread \union {s}
      /\ runs' = IF Due(s, tm) /\ runs[s] < 2 THEN [runs EXCEPT ![s] = @ + 1] ELSE runs
      /\ runs \in [Script -> 0..2] /\ left \subseteq Script
  BY DEF CompareScript, ScriptInv, TypeOK
<1>2. Started'
  <2>1. SUFFICES ASSUME MinuteOf(now) = MinuteOf(looked), NEW r \in Script,
                        Due(r, MinuteOf(looked))
                 PROVE  runs'[r] >= 1 \/ r \in left' \/ r \in misread'
    BY <1>1 DEF Started, Due, Weekday, MinuteOf
  <2>2. runs[r] >= 1 \/ r \in left \/ r \in misread
    BY <2>1 DEF ScriptInv, Started
  <2>3. CASE r # s
    BY <1>1, <2>2, <2>3
  <2>4. CASE r = s /\ tm = MinuteOf(looked)
    BY <1>1, <2>1, <2>4
  <2>5. CASE r = s /\ tm # MinuteOf(looked)
    BY <1>1, <2>5
  <2>6. QED BY <2>3, <2>4, <2>5
<1>3. NotYet'
  BY <1>1 DEF ScriptInv, NotYet
<1>4. TableType'
  BY <1>1 DEF ScriptInv, TableType
<1>5. QED
  BY <1>1, <1>2, <1>3, <1>4 DEF ScriptInv, Compared, WithinMinute, Prompt, LaterMinute, IdleNow

\* A cycle that begins promptly ends with the minute.
LEMMA ScriptLogin == ASSUME ScriptInv, TypeOK', Login PROVE ScriptInv'
<1>1. /\ UNCHANGED <<now, looked, runs, table, left, misread>> /\ began' = now
      /\ gpc' = "cycle" /\ left = {} /\ now \in Nat /\ idle' = (user = Nobody)
      /\ until' \in IF user = Nobody THEN {now} ELSE CycleEnds(now)
  BY DEF Login, ScriptInv, TypeOK
<1>2. Started' /\ TableType'
  BY <1>1 DEF ScriptInv, TableType, Started, Due, Weekday, MinuteOf
<1>3. WithinMinute'
  <2>1. SUFFICES ASSUME Second(now) <= 1
                 PROVE  until' <= Minute * MinuteOf(now) + Minute
    BY <1>1 DEF WithinMinute, Prompt, MinuteOf, Second
  <2>2. Minute * MinuteOf(now) + Minute \in Nat /\ now < Minute * MinuteOf(now) + Minute
    <3> DEFINE q == MinuteOf(now)
               r == Second(now)
    <3>1. q \in Nat /\ r \in 0..(Minute - 1) /\ now = Minute * q + r /\ Minute \in Nat
      BY <1>1, DivMod, Constants
    <3> HIDE DEF q, r
    <3>2. Minute * q + Minute \in Nat /\ now < Minute * q + Minute
      BY <3>1
    <3>3. QED BY <3>2 DEF q
  <2>3. CASE user = Nobody
    BY <1>1, <2>2, <2>3
  <2>4. CASE user # Nobody
    <3>1. until' = Minute * MinuteOf(now) + Minute
      BY <1>1, <2>1, <2>4, CycleEndsMinute
    <3>2. QED BY <2>2, <3>1
  <2>5. QED BY <2>3, <2>4
<1>4. LaterMinute'
  <2>1. MinuteOf(now) \in Nat
    BY <1>1, DivMod
  <2>2. /\ MinuteOf(now)' = MinuteOf(now) /\ MinuteOf(began)' = MinuteOf(now)
        /\ MinuteOf(until)' = MinuteOf(until')
    BY <1>1 DEF MinuteOf
  <2>3. ~(MinuteOf(now) > MinuteOf(now))
    BY <2>1
  <2>4. user # Nobody => MinuteOf(until') > MinuteOf(now)
    BY <1>1, CycleEndsMinute
  <2>5. QED BY <1>1, <2>2, <2>3, <2>4 DEF LaterMinute
<1>5. QED
  BY <1>1, <1>2, <1>3, <1>4 DEF ScriptInv, Compared, NotYet, IdleNow

\* A pass without a login is over in the next tick, one with a login at once.
LEMMA ScriptEndCycle == ASSUME ScriptInv, TypeOK', EndCycle PROVE ScriptInv'
<1>1. /\ UNCHANGED <<now, looked, runs, table, began, idle, left, misread>>
      /\ gpc = "cycle" /\ gpc' = "script" /\ until = now
      /\ until' = IF idle THEN now + 1 ELSE now
      /\ now \in Nat /\ began \in Nat
  BY DEF EndCycle, ScriptInv, TypeOK
<1>2. Started' /\ TableType'
  BY <1>1 DEF ScriptInv, TableType, Started, Due, Weekday, MinuteOf
<1>3. WithinMinute'
  <2>1. CASE idle
    <3> DEFINE q == MinuteOf(began)
               r == Second(began)
    <3>1. q \in Nat /\ r \in 0..(Minute - 1) /\ began = Minute * q + r /\ Minute \in Nat
      BY <1>1, DivMod, Constants
    <3> HIDE DEF q, r
    <3>2. until' = began + 1
      BY <1>1, <2>1 DEF ScriptInv, IdleNow
    <3>3. until' <= Minute * q + Minute
      BY <3>1, <3>2
    <3>4. QED BY <1>1, <3>3 DEF q, WithinMinute, MinuteOf
  <2>2. CASE ~idle
    BY <1>1, <2>2 DEF ScriptInv, WithinMinute, Prompt, MinuteOf, Second
  <2>3. QED BY <2>1, <2>2
<1>4. LaterMinute' /\ IdleNow' /\ NotYet' /\ Compared'
  BY <1>1 DEF ScriptInv, LaterMinute, IdleNow, NotYet, Compared, MinuteOf
<1>5. QED BY <1>2, <1>3, <1>4 DEF ScriptInv

\* A new minute starts without runs.
LEMMA ScriptTick == ASSUME ScriptInv, TypeOK', Tick PROVE ScriptInv'
<1>1. /\ UNCHANGED <<looked, table, began, idle, gpc, until, left, misread>>
      /\ now' = now + 1 /\ until > now /\ now \in Nat /\ looked \in Nat /\ looked <= now
      /\ runs' = IF Second(now + 1) = 0 THEN [s \in Script |-> 0] ELSE runs
      /\ left \subseteq Script /\ began \in Nat
  BY DEF Tick, ScriptInv, TypeOK
<1>a. /\ MinuteOf(now)' = MinuteOf(now + 1) /\ MinuteOf(looked)' = MinuteOf(looked)
      /\ MinuteOf(began)' = MinuteOf(began) /\ MinuteOf(until)' = MinuteOf(until)
  BY <1>1 DEF MinuteOf
<1>2. Started'
  <2>1. CASE Second(now + 1) = 0
    <3>1. MinuteOf(now + 1) = MinuteOf(now) + 1
      BY <1>1, <2>1, NextTick
    <3>2. /\ MinuteOf(looked) <= MinuteOf(now)
          /\ MinuteOf(looked) \in Nat /\ MinuteOf(now) \in Nat
      BY <1>1, MinutesGrow, DivMod
    <3>3. MinuteOf(now + 1) # MinuteOf(looked)
      BY <3>1, <3>2
    <3>4. QED BY <1>a, <3>3 DEF Started
  <2>2. CASE Second(now + 1) # 0
    <3>1. MinuteOf(now + 1) = MinuteOf(now)
      BY <1>1, <2>2, NextTick
    <3>2. QED BY <1>1, <1>a, <2>2, <3>1 DEF ScriptInv, Started, Due, Weekday
  <2>3. QED BY <2>1, <2>2
<1>3. WithinMinute' /\ IdleNow' /\ Compared' /\ TableType'
  BY <1>1 DEF ScriptInv, WithinMinute, IdleNow, Compared, TableType, Prompt, MinuteOf, Second
<1>4. LaterMinute'
  <2>1. SUFFICES ASSUME ~idle, gpc # "compare"
                 PROVE  /\ MinuteOf(until) > MinuteOf(began) /\ gpc # "script"
                        /\ MinuteOf(now + 1) > MinuteOf(began) =>
                              \A s \in Script : runs'[s] = 0
    BY <1>1, <1>a DEF LaterMinute
  <2>2. MinuteOf(until) > MinuteOf(began) /\ gpc # "script"
    BY <1>1, <2>1 DEF ScriptInv, LaterMinute
  <2>3. CASE Second(now + 1) = 0
    BY <1>1, <2>2, <2>3
  <2>4. CASE Second(now + 1) # 0
    <3>1. MinuteOf(now + 1) = MinuteOf(now)
      BY <1>1, <2>4, NextTick
    <3>2. QED BY <1>1, <2>1, <2>2, <2>4, <3>1 DEF ScriptInv, LaterMinute
  <2>5. QED BY <2>3, <2>4
<1>5. NotYet'
  BY <1>1 DEF ScriptInv, NotYet
<1>6. QED BY <1>2, <1>3, <1>4, <1>5 DEF ScriptInv

\* Only gather_data's steps and the clock touch what it is about.
LEMMA ScriptStep == ScriptInv /\ TypeOK' /\ [Next]_vars => ScriptInv'
<1> SUFFICES ASSUME ScriptInv, TypeOK', [Next]_vars PROVE ScriptInv'
  OBVIOUS
<1>1. ASSUME UNCHANGED <<now, gvars>> PROVE ScriptInv'
  BY <1>1 DEF gvars, ScriptInv, TableType, Started, Compared, WithinMinute, LaterMinute,
              NotYet, IdleNow, Prompt, Due, Weekday, MinuteOf, Second
<1>2. CASE GatherData
  BY <1>2, ScriptTakeTime, ScriptCompare, ScriptLogin, ScriptEndCycle
  DEF GatherData, ExecuteScript
<1>3. CASE MsgBox \/ OtherTime
  <2>1. UNCHANGED <<now, gvars>>
    BY <1>3 DEF MsgBox, PollEmpty, PollOther, PollFirst, PollAgain, Opened, OtherTime
  <2>2. QED BY <1>1, <2>1
<1>4. ASSUME NEW u \in User \union {Nobody}, Log(u) PROVE ScriptInv'
  <2>1. UNCHANGED <<now, gvars>>
    BY <1>4 DEF Log
  <2>2. QED BY <1>1, <2>1
<1>5. CASE Tick
  BY <1>5, ScriptTick
<1>6. CASE UNCHANGED vars
  <2>1. UNCHANGED <<now, gvars>>
    BY <1>6 DEF vars
  <2>2. QED BY <1>1, <2>1
<1>7. QED BY <1>2, <1>3, <1>4, <1>5, <1>6 DEF Next

\* It holds in every reachable state.
LEMMA AlwaysScriptInv == Spec => []ScriptInv
<1>1. IInv => TypeOK
  BY DEF IInv
<1>2. QED BY <1>1, InitInv, NextInv, ScriptInit, ScriptStep, PTL DEF Spec

----------------------------------------------------------------------------
\* MissedOnlyWhenLate: execute_script and the cycle's wait for the minute's end
\* miss a script's minute only after a pass whose cycle began later than in second
\* 1, or in another minute than its look-up, or in which another thread had put
\* another time into the buffer, whatever the scripts and the minute.
THEOREM PromptPassesMissNothing == Spec => MissedOnlyWhenLate
<1>1. ASSUME ScriptInv, [Next]_vars, now' # now, NEW s \in Script,
             Due(s, MinuteOf(now)), runs[s] = 0
      PROVE  ~Prompt \/ s \in misread
  <2>1. SUFFICES ASSUME Prompt, s \notin misread PROVE FALSE
    OBVIOUS
  <2>2. until > now /\ now \in Nat /\ until \in Nat /\ began \in Nat /\ began <= now
    <3>1. Tick
      BY <1>1 DEF Next, GatherData, ExecuteScript, TakeTime, CompareScript, Login, EndCycle,
                  MsgBox, PollEmpty, PollOther, PollFirst, PollAgain, Opened, OtherTime,
                  Log, vars
    <3>2. QED BY <1>1, <3>1 DEF Tick, ScriptInv, TypeOK
  <2>3. until <= Minute * MinuteOf(began) + Minute /\ MinuteOf(began) = MinuteOf(looked)
    BY <1>1, <2>1 DEF ScriptInv, WithinMinute, Prompt
  <2>4. MinuteOf(now) = MinuteOf(began)
    <3> DEFINE q == MinuteOf(began)
               r == Second(began)
    <3>1. q \in Nat /\ r \in 0..(Minute - 1) /\ began = Minute * q + r /\ Minute \in Nat
      BY <2>2, DivMod, Constants
    <3>2. until <= Minute * q + Minute
      BY <2>3
    <3> HIDE DEF q, r
    <3>3. Minute * q <= now /\ now < Minute * q + Minute
      BY <2>2, <3>1, <3>2
    <3>4. QED BY <2>2, <3>1, <3>3, SameMinute DEF q
  <2>5. MinuteOf(now) = MinuteOf(looked) /\ left = {}
    BY <1>1, <2>1, <2>3, <2>4 DEF ScriptInv, Compared, Prompt
  <2>6. runs[s] >= 1
    BY <1>1, <2>1, <2>5 DEF ScriptInv, Started
  <2>7. QED BY <1>1, <2>6
<1>2. ScriptInv /\ [Next]_vars =>
          [now' # now /\ Second(now') = 0 =>
              \A s \in Script : Due(s, MinuteOf(now)) /\ runs[s] = 0 =>
                  ~Prompt \/ s \in misread]_vars
  BY <1>1
<1>3. QED BY <1>2, AlwaysScriptInv, PTL DEF Spec, MissedOnlyWhenLate

\* OnceWhileLoggedIn: when the pass before found somebody logged in, no script
\* that is still to be compared has started in that minute.
THEOREM LoginsRunScriptsOnce == Spec => OnceWhileLoggedIn
<1>1. ASSUME ScriptInv, [Next]_vars, NEW s \in Script, runs[s] = 1, runs'[s] = 2
      PROVE  idle
  <2>1. PICK r \in Script : CompareScript(r)
    <3>1. CASE Tick
      BY <1>1, <3>1 DEF Tick
    <3>2. QED
      BY <1>1, <3>1 DEF Next, GatherData, ExecuteScript, TakeTime, Login, EndCycle, MsgBox,
                  PollEmpty, PollOther, PollFirst, PollAgain, Opened, OtherTime, Log, vars,
                  gvars
  <2>2. r = s
    BY <1>1, <2>1 DEF CompareScript, ScriptInv, TypeOK
  <2>3. QED BY <1>1, <2>1, <2>2 DEF CompareScript, ScriptInv, NotYet
<1>2. ScriptInv /\ [Next]_vars =>
          [\A s \in Script : runs[s] = 1 /\ runs'[s] = 2 => idle]_vars
  BY <1>1
<1>3. QED BY <1>2, AlwaysScriptInv, PTL DEF Spec, OnceWhileLoggedIn
=============================================================================
