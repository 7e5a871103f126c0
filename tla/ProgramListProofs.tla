-------------------------- MODULE ProgramListProofs --------------------------
(* Proofs about ProgramList and ProgramSetup, for any programs, lists and    *)
(* number of calls home: pf_mutex keeps every load away from a file that is  *)
(* being written; bits are right as long as one list was loaded; and what    *)
(* the server joins, the client splits, writes and reads back is linux_list. *)
EXTENDS ProgramSetup, SequenceLemmas, FiniteSetTheorems

\* The places of both threads.
Place == {"start", "begin", "poll", "idle", "open", "wlock", "write", "close",
          "lock", "read", "count"}

(* Who is inside linux_set_program_list's or write_program_file's locked     *)
(* part is the one who locked pf_mutex last.  The converse is HolderInside:  *)
(* it needs a list file, because after a failed fopen the mutex stays locked.*)
InsideHoldsMutex ==
    /\ pc \in [Thread -> Place]
    /\ \A t \in Thread : pc[t] \in {"read", "write", "close"} => mutex = t
    /\ pc["gather"] \notin {"write", "close"}

(* Fresh threads are outside.                                                *)
LEMMA InitInside == Init => InsideHoldsMutex
  BY DEF Init, InsideHoldsMutex, Thread, Place

(* linux_set_program_list, run by either thread, keeps the invariant: only   *)
(* the thread that is inside unlocks.                                        *)
LEMMA SetProgramListInside ==
  ASSUME NEW t \in Thread, InsideHoldsMutex, SetProgramList(t)
  PROVE  InsideHoldsMutex'
<1> USE DEF InsideHoldsMutex, Goto, Place
<1>1. CASE SetLock(t)
  BY <1>1 DEF SetLock, Thread
<1>2. CASE SetFail(t)
  BY <1>2 DEF SetFail, Return, fvars, Thread
<1>3. CASE SetRead(t)
  BY <1>3 DEF SetRead, Thread
<1>4. CASE SetCount(t)
  BY <1>4 DEF SetCount, Return, fvars, Thread
<1>5. QED
  BY <1>1, <1>2, <1>3, <1>4 DEF SetProgramList

(* The rest of gather_data leaves the mutex alone.                           *)
LEMMA GatherInside ==
  ASSUME InsideHoldsMutex, Gather
  PROVE  InsideHoldsMutex'
<1>1. CASE SetProgramList("gather")
  BY <1>1, SetProgramListInside DEF Thread
<1>2. CASE GatherStart \/ GatherBegin \/ GatherEnd
  BY <1>2 DEF GatherStart, GatherBegin, GatherEnd, InsideHoldsMutex, Goto, Place, fvars, Thread
<1>3. CASE \E R \in SUBSET Program : GatherPoll(R)
  BY <1>3 DEF GatherPoll, InsideHoldsMutex, fvars
<1>4. QED
  BY <1>1, <1>2, <1>3 DEF Gather

(* write_program_file is inside from its lock to its unlock.                 *)
LEMMA HomeInside ==
  ASSUME InsideHoldsMutex, Home
  PROVE  InsideHoldsMutex'
<1> USE DEF InsideHoldsMutex, Goto, Place, Thread
<1>1. CASE SetProgramList("home")
  BY <1>1, SetProgramListInside
<1>2. CASE \E l \in Lists : HomeReceive(l)
  BY <1>2 DEF HomeReceive, fvars
<1>3. CASE HomeOpen
  BY <1>3 DEF HomeOpen, fvars
<1>4. CASE HomeLock
  BY <1>4 DEF HomeLock
<1>5. CASE HomeFlush
  BY <1>5 DEF HomeFlush
<1>6. CASE HomeClose
  BY <1>6 DEF HomeClose
<1>7. QED
  BY <1>1, <1>2, <1>3, <1>4, <1>5, <1>6 DEF Home, WriteList

(* Every step of the client keeps the invariant.                             *)
LEMMA StepInside == InsideHoldsMutex /\ [Next]_vars => InsideHoldsMutex'
<1> SUFFICES ASSUME InsideHoldsMutex, [Next]_vars
             PROVE  InsideHoldsMutex'
  OBVIOUS
<1>1. CASE Gather
  BY <1>1, GatherInside
<1>2. CASE Home
  BY <1>2, HomeInside
<1>3. CASE Restart
  BY <1>3 DEF Restart, InsideHoldsMutex, Thread, Place
<1>4. CASE UNCHANGED vars
  BY <1>4 DEF vars, fvars, InsideHoldsMutex
<1>5. QED
  BY <1>1, <1>2, <1>3, <1>4 DEF Next

(* Whoever is inside the locked parts holds pf_mutex.                        *)
THEOREM OnlyHolderInside == Spec => []InsideHoldsMutex
  BY InitInside, StepInside, PTL DEF Spec

(* PROGRAM_LIST grows in SetRead only.                                       *)
LEMMA GrowsInRead ==
  ASSUME [Next]_vars, list' # list, loaded' # <<>>
  PROVE  \E t \in Thread : pc[t] = "read"
<1>1. CASE \E t \in Thread : SetProgramList(t)
  BY <1>1 DEF SetProgramList, SetLock, SetFail, SetRead, SetCount, lvars
<1>2. CASE GatherStart \/ GatherBegin \/ GatherEnd \/ \E R \in SUBSET Program : GatherPoll(R)
  BY <1>2 DEF GatherStart, GatherBegin, GatherEnd, GatherPoll, lvars
<1>3. CASE HomeOpen \/ HomeLock \/ HomeFlush \/ HomeClose \/ \E l \in Lists : HomeReceive(l)
  BY <1>3 DEF HomeOpen, HomeLock, HomeFlush, HomeClose, HomeReceive, lvars
<1>4. CASE Restart
  BY <1>4 DEF Restart
<1>5. CASE UNCHANGED vars
  BY <1>5 DEF vars, lvars
<1>6. QED
  BY <1>1, <1>2, <1>3, <1>4, <1>5 DEF Next, Gather, Home, WriteList, Thread

(* linux_set_program_list never loads a file that write_program_file is in   *)
(* the middle of writing.                                                    *)
THEOREM LoadsAreWhole == Spec => LoadsWholeFile
<1>1. InsideHoldsMutex /\ [Next]_vars
        => (list' # list /\ loaded' # <<>> => pc["home"] # "close")
  BY GrowsInRead DEF InsideHoldsMutex, Thread
<1>2. QED
  BY <1>1, OnlyHolderInside, PTL DEF Spec, LoadsWholeFile

----------------------------------------------------------------------------
(* What the operators on texts return *)

(* A part of an initial segment of a sequence is counted by a number.        *)
LEMMA CountType ==
  ASSUME NEW n \in Int, NEW S, S \subseteq 1..n
  PROVE  Cardinality(S) \in Nat
<1>1. IsFiniteSet(1..n)
  BY FS_Interval
<1>2. IsFiniteSet(S)
  BY <1>1, FS_Subset
<1>3. QED
  BY <1>2, FS_CardinalityType

(* The lines of a text are entries.                                          *)
LEMMA LinesType ==
  ASSUME NEW t \in Seq(Entry)
  PROVE  Lines(t) \in Seq(Entry)
<1> DEFINE Ends(k) == {j \in 1..k : t[j] = NL}
           End(i)  == {k \in Ends(Len(t)) \ {1} : Cardinality(Ends(k)) = i}
           Cell(i) == IF End(i) = {} THEN NL ELSE t[(CHOOSE k \in End(i) : TRUE) - 1]
           n       == Cardinality(Ends(Len(t)))
<1>1. Len(t) \in Nat /\ n \in Nat
  BY LenProperties, CountType
<1>2. ASSUME NEW i \in 1..n PROVE Cell(i) \in Entry
  <2>1. CASE End(i) = {}
    BY <2>1 DEF Entry
  <2>2. CASE End(i) # {}
    <3> DEFINE e == CHOOSE k \in End(i) : TRUE
    <3>1. e \in (1..Len(t)) \ {1}
      BY <2>2
    <3>2. t[e - 1] \in Entry
      <4> HIDE DEF e
      <4>1. e - 1 \in 1..Len(t)
        BY <1>1, <3>1
      <4>2. QED
        BY <4>1, ElementOfSeq
    <3>3. QED
      BY <2>2, <3>2
  <2>3. QED
    BY <2>1, <2>2
<1>3. [i \in 1..n |-> Cell(i)] \in Seq(Entry)
  <2> HIDE DEF Cell, n
  <2>1. [i \in 1..n |-> Cell(i)] \in [1..n -> Entry]
    BY <1>2
  <2>2. QED
    BY <1>1, <2>1, SeqDef
<1>4. Lines(t) = [i \in 1..n |-> Cell(i)]
  BY DEF Lines
<1>5. QED
  BY <1>3, <1>4

\* How many of the first k cells of a text are c.
CountTo(t, k, c) == Cardinality({j \in 1..k : t[j] = c})

(* Every cell counts once if it is c.                                        *)
LEMMA CountSteps ==
  ASSUME NEW t, NEW c
  PROVE  /\ CountTo(t, 0, c) = 0
         /\ \A k \in Nat : /\ CountTo(t, k, c) \in Nat
                           /\ CountTo(t, k + 1, c)
                                = CountTo(t, k, c) + (IF t[k + 1] = c THEN 1 ELSE 0)
<1> DEFINE S(k) == {j \in 1..k : t[j] = c}
<1>1. ASSUME NEW k \in Nat PROVE IsFiniteSet(S(k)) /\ Cardinality(S(k)) \in Nat
  <2>1. IsFiniteSet(1..k) /\ S(k) \in SUBSET (1..k)
    BY FS_Interval
  <2> HIDE DEF S
  <2>2. IsFiniteSet(S(k))
    BY <2>1, FS_Subset
  <2>3. QED
    BY <2>2, FS_CardinalityType
<1>2. S(0) = {}
  OBVIOUS
<1>3. ASSUME NEW k \in Nat PROVE S(k + 1) = IF t[k + 1] = c THEN S(k) \cup {k + 1} ELSE S(k)
  <2>1. 1..k + 1 = (1..k) \cup {k + 1}
    OBVIOUS
  <2>2. QED
    BY <2>1
<1>4. \A k \in Nat : k + 1 \notin S(k)
  OBVIOUS
<1> HIDE DEF S
<1>5. ASSUME NEW k \in Nat
      PROVE  Cardinality(S(k + 1)) = Cardinality(S(k)) + (IF t[k + 1] = c THEN 1 ELSE 0)
  <2>1. CASE t[k + 1] = c
    <3>1. Cardinality(S(k) \cup {k + 1}) = Cardinality(S(k)) + 1
      BY <1>1, <1>4, FS_AddElement
    <3>2. QED
      BY <1>3, <2>1, <3>1
  <2>2. CASE t[k + 1] # c
    <3>1. S(k + 1) = S(k)
      BY <1>3, <2>2
    <3>2. Cardinality(S(k)) \in Nat
      BY <1>1
    <3>3. QED
      BY <2>2, <3>1, <3>2
  <2>3. QED
    BY <2>1, <2>2
<1>6. Cardinality(S(0)) = 0
  BY <1>2, FS_EmptySet
<1>7. QED
  BY <1>1, <1>5, <1>6 DEF CountTo, S

(* Fewer cells have fewer of them.                                           *)
LEMMA CountGrows ==
  ASSUME NEW t, NEW c, NEW m \in Nat, NEW k \in 0..m
  PROVE  CountTo(t, k, c) <= CountTo(t, m, c)
<1> DEFINE S(n) == {j \in 1..n : t[j] = c}
<1>1. IsFiniteSet(1..m) /\ S(m) \in SUBSET (1..m) /\ S(k) \in SUBSET S(m)
  BY FS_Interval
<1> HIDE DEF S
<1>2. IsFiniteSet(S(m))
  BY <1>1, FS_Subset
<1>3. Cardinality(S(k)) <= Cardinality(S(m))
  BY <1>1, <1>2, FS_Subset
<1>4. QED
  BY <1>3 DEF CountTo, S

----------------------------------------------------------------------------
(* A list, its text, and the lines of the text *)

\* Line i of a text and the NL after it.
EndAt(t, i) == {k \in {j \in 1..Len(t) : t[j] = NL} \ {1} : CountTo(t, k, NL) = i}
LineAt(t, i) == IF EndAt(t, i) = {} THEN NL ELSE t[(CHOOSE k \in EndAt(t, i) : TRUE) - 1]

(* What linux_set_program_list reads of a file, line by line.                *)
LEMMA LinesAre ==
  ASSUME NEW t \in Seq(Entry)
  PROVE  /\ Lines(t) \in Seq(Entry)
         /\ Len(Lines(t)) = CountTo(t, Len(t), NL) /\ Len(Lines(t)) \in Nat
         /\ \A i \in 1..CountTo(t, Len(t), NL) : Lines(t)[i] = LineAt(t, i)
<1> DEFINE L == [i \in 1..CountTo(t, Len(t), NL) |-> LineAt(t, i)]
<1>1. Lines(t) = L
  BY DEF Lines, CountTo, LineAt, EndAt
<1>2. CountTo(t, Len(t), NL) \in Nat
  BY LenProperties, CountSteps
<1>3. L \in Seq(Entry)
  <2>1. Lines(t) \in Seq(Entry)
    BY LinesType
  <2> HIDE DEF L
  <2>2. QED
    BY <1>1, <2>1
<1>4. DOMAIN L = 1..CountTo(t, Len(t), NL)
  OBVIOUS
<1>5. Len(L) = CountTo(t, Len(t), NL)
  <2> HIDE DEF L
  <2>1. QED
    BY <1>2, <1>3, <1>4, LenProperties
<1>6. QED
  BY <1>1, <1>2, <1>3, <1>5

\* An entry and its NL.
Line(e) == IF e = NL THEN <<NL>> ELSE <<e, NL>>

(* A line more, behind a complete line, is an entry more.                    *)
LEMMA LinesStep ==
  ASSUME NEW t \in Seq(Entry), NEW e \in Entry, t = <<>> \/ t[Len(t)] = NL
  PROVE  LET s == t \o Line(e) IN
         /\ s \in Seq(Entry) /\ s[Len(s)] = NL
         /\ Lines(s) = Append(Lines(t), e)
<1> DEFINE u == Line(e)
           s == t \o u
           m == Len(t)
           q == Len(s)
           n == CountTo(t, m, NL)
<1>1. u \in Seq(Entry)
  <2>1. NL \in Entry
    BY DEF Entry
  <2>2. CASE e = NL
    BY <2>1, <2>2 DEF Line
  <2>3. CASE e # NL
    BY <2>1, <2>3 DEF Line
  <2>4. QED
    BY <2>2, <2>3
<1>2. \/ e = NL /\ Len(u) = 1 /\ u[1] = NL
      \/ e # NL /\ Len(u) = 2 /\ u[1] = e /\ u[2] = NL
  BY DEF Line
<1>3. /\ s \in Seq(Entry) /\ m \in Nat /\ q = m + Len(u)
      /\ \A k \in 1..m : s[k] = t[k]
      /\ \A x \in 1..Len(u) : s[m + x] = u[x]
  <2> HIDE DEF u
  <2>1. QED
    BY <1>1, ConcatParts
<1>4. m = 0 \/ t[m] = NL
  BY EmptySeq
<1> HIDE DEF u, s, m, q, n
<1>5. \/ e = NL /\ q = m + 1 /\ s[m + 1] = NL
      \/ e # NL /\ q = m + 2 /\ s[m + 1] = e /\ s[m + 2] = NL
  <2>1. CASE e = NL
    <3>1. Len(u) = 1 /\ u[1] = NL /\ 1 \in 1..1
      BY <1>2, <2>1
    <3>2. QED
      BY <1>3, <2>1, <3>1
  <2>2. CASE e # NL
    <3>1. Len(u) = 2 /\ u[1] = e /\ u[2] = NL /\ 1 \in 1..2 /\ 2 \in 1..2
      BY <1>2, <2>2
    <3>2. QED
      BY <1>3, <2>2, <3>1
  <2>3. QED
    BY <2>1, <2>2
<1>6. /\ n \in Nat /\ \A k \in 0..m : CountTo(s, k, NL) = CountTo(t, k, NL) /\ CountTo(t, k, NL) <= n
  <2>1. n \in Nat
    BY <1>3, CountSteps DEF n
  <2>2. \A k \in 0..m : CountTo(s, k, NL) = CountTo(t, k, NL)
    <3>1. m \in Nat /\ \A k \in 1..m : s[k] = t[k]
      BY <1>3
    <3>2. ASSUME NEW k \in 0..m PROVE CountTo(s, k, NL) = CountTo(t, k, NL)
      <4>1. {j \in 1..k : s[j] = NL} = {j \in 1..k : t[j] = NL}
        BY <3>1
      <4>2. QED
        BY <4>1 DEF CountTo
    <3>3. QED
      BY <3>2
  <2>3. \A k \in 0..m : CountTo(t, k, NL) <= n
    BY <1>3, CountGrows DEF n
  <2>4. QED
    BY <2>1, <2>2, <2>3
<1>7. /\ CountTo(s, q, NL) = n + 1 /\ s[q] = NL /\ q \in Nat \ {0}
      /\ \A k \in 1..q : k <= m \/ k = q \/ s[k] # NL
  <2>1. CountTo(s, m, NL) = n
    <3>1. m \in 0..m
      BY <1>3
    <3>2. QED
      BY <1>6, <3>1 DEF n
  <2>0. \A k \in Nat : CountTo(s, k + 1, NL) = CountTo(s, k, NL) + (IF s[k + 1] = NL THEN 1 ELSE 0)
    BY CountSteps
  <2>2. CountTo(s, m + 1, NL) = n + (IF s[m + 1] = NL THEN 1 ELSE 0)
    BY <1>3, <2>0, <2>1
  <2>3. CASE e = NL
    BY <1>3, <1>5, <1>6, <2>2, <2>3
  <2>4. CASE e # NL
    <3>1. q = m + 2 /\ s[m + 1] # NL /\ s[m + 2] = NL
      BY <1>5, <2>4
    <3>2. CountTo(s, m + 1, NL) = n
      BY <1>6, <2>2, <3>1
    <3>3. CountTo(s, (m + 1) + 1, NL) = CountTo(s, m + 1, NL) + (IF s[(m + 1) + 1] = NL THEN 1 ELSE 0)
      <4>1. m + 1 \in Nat
        BY <1>3
      <4>2. QED
        BY <2>0, <4>1
    <3>4. (m + 1) + 1 = m + 2
      BY <1>3
    <3>5. CountTo(s, m + 2, NL) = n + 1
      BY <3>1, <3>2, <3>3, <3>4
    <3>6. \A k \in 1..m + 2 : k <= m \/ k = m + 1 \/ k = m + 2
      BY <1>3
    <3>7. QED
      BY <1>3, <3>1, <3>5, <3>6
  <2>5. QED
    BY <2>3, <2>4
<1>8. ASSUME NEW i \in 1..n PROVE EndAt(s, i) = EndAt(t, i)
  <2>1. ASSUME NEW k \in EndAt(s, i) PROVE k \in EndAt(t, i)
    <3>1. k \in 1..q /\ s[k] = NL /\ k # 1 /\ CountTo(s, k, NL) = i
      BY DEF EndAt, q
    <3>2. k # q
      BY <1>6, <1>7, <3>1
    <3>3. k \in 1..m /\ k \in 0..m
      BY <1>3, <1>7, <3>1, <3>2
    <3>4. QED
      BY <1>3, <1>6, <3>1, <3>3 DEF EndAt, m
  <2>2. ASSUME NEW k \in EndAt(t, i) PROVE k \in EndAt(s, i)
    <3>1. k \in 1..m /\ t[k] = NL /\ k # 1 /\ CountTo(t, k, NL) = i
      BY DEF EndAt, m
    <3>2. k \in 0..m /\ k \in 1..q
      BY <1>3, <1>5, <3>1
    <3>3. QED
      BY <1>3, <1>6, <3>1, <3>2 DEF EndAt, q
  <2>3. QED
    BY <2>1, <2>2
<1>9. ASSUME NEW i \in 1..n PROVE LineAt(s, i) = LineAt(t, i)
  <2>1. CASE EndAt(t, i) = {}
    BY <1>8, <2>1 DEF LineAt
  <2>2. CASE EndAt(t, i) # {}
    <3> DEFINE c == CHOOSE k \in EndAt(t, i) : TRUE
    <3>1. c \in EndAt(t, i)
      BY <2>2
    <3>2. LineAt(s, i) = s[c - 1] /\ LineAt(t, i) = t[c - 1]
      BY <1>8, <2>2 DEF LineAt
    <3> HIDE DEF c
    <3>3. c \in 1..m /\ c # 1
      BY <3>1 DEF EndAt, m
    <3>4. c - 1 \in 1..m
      BY <1>3, <3>3
    <3>5. QED
      BY <1>3, <3>2, <3>4
  <2>3. QED
    BY <2>1, <2>2
<1>10. EndAt(s, n + 1) = {q} \ {1}
  <2>1. ASSUME NEW k \in EndAt(s, n + 1) PROVE k = q /\ k # 1
    <3>1. k \in 1..q /\ s[k] = NL /\ k # 1 /\ CountTo(s, k, NL) = n + 1
      BY DEF EndAt, q
    <3>2. ~(k <= m)
      <4>1. SUFFICES ASSUME k <= m PROVE FALSE
        OBVIOUS
      <4>2. k \in 0..m
        BY <1>3, <3>1, <4>1
      <4>3. CountTo(s, k, NL) = CountTo(t, k, NL) /\ CountTo(t, k, NL) <= n
        BY <1>6, <4>2
      <4>4. n + 1 <= n
        BY <3>1, <4>3
      <4>5. QED
        BY <1>6, <4>4
    <3>3. QED
      BY <1>7, <3>1, <3>2
  <2>2. ASSUME q # 1 PROVE q \in EndAt(s, n + 1)
    BY <1>7, <2>2 DEF EndAt, q
  <2>3. QED
    BY <2>1, <2>2
<1>11. LineAt(s, n + 1) = e
  <2>1. CASE q = 1
    BY <1>3, <1>5, <1>10, <2>1 DEF LineAt
  <2>2. CASE q # 1
    <3>1. EndAt(s, n + 1) = {q}
      BY <1>10, <2>2
    <3>2. LineAt(s, n + 1) = s[q - 1]
      BY <3>1 DEF LineAt
    <3>3. CASE e = NL
      <4>1. q - 1 = m /\ m \in 1..m
        BY <1>3, <1>5, <2>2, <3>3
      <4>2. s[m] = NL
        BY <1>3, <1>4, <4>1
      <4>3. QED
        BY <3>2, <3>3, <4>1, <4>2
    <3>4. CASE e # NL
      <4>1. q - 1 = m + 1
        BY <1>3, <1>5, <3>4
      <4>2. QED
        BY <1>5, <3>2, <3>4, <4>1
    <3>5. QED
      BY <3>3, <3>4
  <2>3. QED
    BY <2>1, <2>2
<1>12. Lines(s) = Append(Lines(t), e)
  <2> DEFINE A == Lines(s)
             B == Lines(t)
             C == Append(B, e)
  <2>1. A \in Seq(Entry) /\ Len(A) = n + 1 /\ \A i \in 1..n + 1 : A[i] = LineAt(s, i)
    BY <1>3, <1>7, LinesAre DEF q
  <2>2. B \in Seq(Entry) /\ Len(B) = n /\ \A i \in 1..n : B[i] = LineAt(t, i)
    BY LinesAre DEF n, m
  <2> HIDE DEF A, B
  <2>3. C \in Seq(Entry) /\ Len(C) = n + 1 /\ C[n + 1] = e /\ \A i \in 1..n : C[i] = B[i]
    BY <2>2, AppendProperties
  <2> HIDE DEF C
  <2>4. \A i \in 1..n + 1 : i \in 1..n \/ i = n + 1
    BY <1>6
  <2>5. \A i \in 1..Len(A) : A[i] = C[i]
    BY <1>9, <1>11, <2>1, <2>2, <2>3, <2>4
  <2>6. A = C
    BY <2>1, <2>3, <2>5, SeqEqual
  <2>7. QED
    BY <2>6 DEF A, B, C
<1>13. QED
  BY <1>3, <1>7, <1>12 DEF s, q, u

(* The text of a list is its lines, one after the other.                     *)
LEMMA TextLines ==
  ASSUME NEW l \in Seq(Entry)
  PROVE  LET p == [i \in 1..Len(l) |-> Line(l[i])] IN
         /\ Text(l) = FlattenSeq(p) /\ p \in Seq(Seq(Entry)) /\ Len(p) = Len(l)
         /\ \A i \in 1..Len(l) : p[i] = Line(l[i]) /\ l[i] \in Entry
<1> DEFINE p == [i \in 1..Len(l) |-> Line(l[i])]
<1>1. Len(l) \in Nat /\ DOMAIN l = 1..Len(l) /\ \A i \in 1..Len(l) : l[i] \in Entry
  BY LenProperties, ElementOfSeq
<1>2. \A e \in Entry : Line(e) \in Seq(Entry)
  <2>1. NL \in Entry
    BY DEF Entry
  <2>2. ASSUME NEW e \in Entry PROVE Line(e) \in Seq(Entry)
    <3>1. CASE e = NL
      BY <2>1, <3>1 DEF Line
    <3>2. CASE e # NL
      BY <2>1, <3>2 DEF Line
    <3>3. QED
      BY <3>1, <3>2
  <2>3. QED
    BY <2>2
<1>3. p \in [1..Len(l) -> Seq(Entry)]
  BY <1>1, <1>2
<1>4. Text(l) = FlattenSeq(p)
  BY <1>1 DEF Text, Line
<1>5. \A i \in 1..Len(l) : p[i] = Line(l[i])
  OBVIOUS
<1> HIDE DEF p
<1>6. p \in Seq(Seq(Entry)) /\ Len(p) = Len(l)
  BY <1>1, <1>3, SequenceOfFunction
<1>7. QED
  BY <1>1, <1>4, <1>5, <1>6 DEF p

(* So it is a text.                                                          *)
LEMMA TextType ==
  ASSUME NEW l \in Seq(Entry)
  PROVE  Text(l) \in Seq(Entry)
  BY TextLines, FlattenType

(* What linux_set_program_list reads of the file that write_program_file     *)
(* wrote is the list, blank entries included.                                *)
LEMMA LinesOfText ==
  ASSUME NEW l \in Seq(Entry)
  PROVE  Lines(Text(l)) = l
<1> DEFINE p    == [i \in 1..Len(l) |-> Line(l[i])]
           P(n) == FlattenSeq(SubSeq(p, 1, n))
           Ok(n) == /\ P(n) \in Seq(Entry) /\ (P(n) = <<>> \/ P(n)[Len(P(n))] = NL)
                    /\ Lines(P(n)) = SubSeq(l, 1, n)
           T    == {n \in Nat : n <= Len(l) => Ok(n)}
<1>1. /\ Text(l) = FlattenSeq(p) /\ p \in Seq(Seq(Entry)) /\ Len(p) = Len(l)
      /\ \A i \in 1..Len(l) : p[i] = Line(l[i]) /\ l[i] \in Entry
      /\ Len(l) \in Nat
  BY TextLines, LenProperties
<1> HIDE DEF p
<1>2. \A n \in 1..Len(l) : P(n) = P(n - 1) \o Line(l[n])
  BY <1>1, FlattenNext
<1>3. P(0) = <<>>
  <2>1. SubSeq(p, 1, 0) = <<>>
    BY SubSeqEmpty
  <2>2. P(0) = FlattenSeq(<<>>)
    BY <2>1
  <2>3. QED
    BY <2>2, FlattenEmpty
<1>4. P(Len(l)) = Text(l)
  BY <1>1, SubSeqFull
<1> HIDE DEF P
<1>5. Ok(0)
  <2>1. SubSeq(l, 1, 0) = <<>>
    BY SubSeqEmpty
  <2>2. Lines(<<>>) = <<>>
    <3> DEFINE e == <<>>
    <3>1. e \in Seq(Entry) /\ Len(e) = 0
      BY EmptySeq
    <3> HIDE DEF e
    <3>2. Lines(e) \in Seq(Entry) /\ Len(Lines(e)) = 0
      <4>1. Lines(e) \in Seq(Entry) /\ Len(Lines(e)) = CountTo(e, 0, NL)
        BY <3>1, LinesAre
      <4>2. CountTo(e, 0, NL) = 0
        BY CountSteps
      <4>3. QED
        BY <4>1, <4>2
    <3>3. Lines(e) = <<>>
      BY <3>2, EmptySeq
    <3>4. QED
      BY <3>3 DEF e
  <2>3. P(0) \in Seq(Entry)
    BY <1>3, EmptySeq
  <2>4. QED
    BY <1>3, <2>1, <2>2, <2>3
<1>6. ASSUME NEW n \in Nat, n + 1 <= Len(l), Ok(n) PROVE Ok(n + 1)
  <2> DEFINE e == l[n + 1]
             t == P(n)
  <2>1. n + 1 \in 1..Len(l) /\ (n + 1) - 1 = n
    BY <1>1, <1>6
  <2>2. e \in Entry /\ P(n + 1) = t \o Line(e)
    BY <1>1, <1>2, <2>1
  <2>3. t \in Seq(Entry) /\ (t = <<>> \/ t[Len(t)] = NL) /\ Lines(t) = SubSeq(l, 1, n)
    BY <1>6
  <2>4. SubSeq(l, 1, n + 1) = Append(SubSeq(l, 1, n), e)
    <3>1. SubSeq(l, 1, n + 1) = SubSeq(l, 1, n) \o <<e>>
      <4>1. 1 \in 1..Len(l) /\ n + 1 \in 1..Len(l)
        BY <1>1, <2>1
      <4>2. SubSeq(l, 1, n + 1) = SubSeq(l, 1, (n + 1) - 1) \o <<l[n + 1]>>
        BY <4>1, SubSeqRecursiveSecond
      <4>3. QED
        BY <2>1, <4>2
    <3>2. SubSeq(l, 1, n) \in Seq(Entry)
      <4> HIDE DEF t
      <4>1. Lines(t) \in Seq(Entry)
        BY <2>3, LinesAre
      <4>2. QED
        BY <2>3, <4>1
    <3>3. QED
      BY <2>2, <3>1, <3>2, AppendIsConcat
  <2> HIDE DEF e, t
  <2> DEFINE s == t \o Line(e)
  <2>5. s \in Seq(Entry) /\ s[Len(s)] = NL /\ Lines(s) = Append(Lines(t), e)
    BY <2>2, <2>3, LinesStep
  <2> HIDE DEF s
  <2>6. P(n + 1) = s
    BY <2>2 DEF s
  <2>7. QED
    BY <2>3, <2>4, <2>5, <2>6
<1> HIDE DEF Ok
<1>7. Nat \subseteq T
  <2>1. 0 \in T
    BY <1>5
  <2>2. ASSUME NEW n \in Nat, n \in T PROVE n + 1 \in T
    BY <1>1, <1>6, <2>2
  <2> HIDE DEF T
  <2>3. QED
    BY <2>1, <2>2, SetInduction
<1>8. Ok(Len(l))
  BY <1>1, <1>7
<1>9. QED
  BY <1>4, <1>8, SubSeqFull DEF Ok

----------------------------------------------------------------------------
(* A list, the text that is sent, and what it is split into *)

Char == Entry \union {Comma}

\* An entry before or after a comma.
Opt(e) == IF e = NL THEN <<>> ELSE <<e>>

\* The piece behind i - 1 commas.
PieceAt(t, i) == {k \in DOMAIN t : t[k] # Comma /\ CountTo(t, k, Comma) = i - 1}
PieceOf(t, i) == IF PieceAt(t, i) = {} THEN NL ELSE t[CHOOSE k \in PieceAt(t, i) : TRUE]

(* What boost::split returns.                                                *)
LEMMA SplitAre ==
  ASSUME NEW t \in Seq(Char)
  PROVE  /\ Split(t) \in Seq(Entry) /\ CountTo(t, Len(t), Comma) \in Nat
         /\ Len(Split(t)) = CountTo(t, Len(t), Comma) + 1
         /\ \A i \in 1..CountTo(t, Len(t), Comma) + 1 : Split(t)[i] = PieceOf(t, i)
<1> DEFINE n == CountTo(t, Len(t), Comma)
           P == [i \in 1..n + 1 |-> PieceOf(t, i)]
<1>1. Split(t) = P
  BY DEF Split, CountTo, PieceOf, PieceAt
<1>2. n \in Nat
  BY LenProperties, CountSteps
<1>3. ASSUME NEW i PROVE PieceOf(t, i) \in Entry
  <2>1. CASE PieceAt(t, i) = {}
    BY <2>1 DEF PieceOf, Entry
  <2>2. CASE PieceAt(t, i) # {}
    <3> DEFINE k == CHOOSE k \in PieceAt(t, i) : TRUE
    <3>1. k \in PieceAt(t, i) /\ PieceOf(t, i) = t[k]
      BY <2>2 DEF PieceOf
    <3> HIDE DEF k
    <3>2. k \in 1..Len(t) /\ t[k] # Comma
      BY <3>1, LenProperties DEF PieceAt
    <3>3. t[k] \in Char
      BY <3>2, ElementOfSeq
    <3>4. QED
      BY <3>1, <3>2, <3>3 DEF Char
  <2>3. QED
    BY <2>1, <2>2
<1>4. P \in [1..n + 1 -> Entry]
  BY <1>3
<1>5. \A i \in 1..n + 1 : P[i] = PieceOf(t, i)
  OBVIOUS
<1> HIDE DEF P, n
<1>6. P \in Seq(Entry) /\ Len(P) = n + 1
  <2>1. n + 1 \in Nat
    BY <1>2
  <2>2. QED
    BY <1>4, <2>1, SequenceOfFunction
<1>7. QED
  BY <1>1, <1>2, <1>5, <1>6 DEF n

(* A text without a comma is one piece.                                      *)
LEMMA SplitFirst ==
  ASSUME NEW e \in Entry
  PROVE  Opt(e) \in Seq(Char) /\ Split(Opt(e)) = <<e>>
<1> DEFINE t == Opt(e)
           S == Split(t)
<1>1. e \in Char /\ e # Comma
  BY SetupAssumption DEF Char
<1>2. \/ e = NL /\ t \in Seq(Char) /\ Len(t) = 0
      \/ e # NL /\ t \in Seq(Char) /\ Len(t) = 1 /\ t[1] = e
  <2>1. CASE e = NL
    BY <2>1, EmptySeq DEF Opt
  <2>2. CASE e # NL
    BY <1>1, <2>2 DEF Opt
  <2>3. QED
    BY <2>1, <2>2
<1> HIDE DEF t
<1>3. t \in Seq(Char) /\ DOMAIN t = 1..Len(t)
  BY <1>2, LenProperties
<1>4. CountTo(t, 0, Comma) = 0
  BY CountSteps
<1>5. ASSUME e # NL PROVE CountTo(t, 1, Comma) = 0
  <2>1. \A k \in Nat : CountTo(t, k + 1, Comma)
                          = CountTo(t, k, Comma) + (IF t[k + 1] = Comma THEN 1 ELSE 0)
    BY CountSteps
  <2>2. CountTo(t, 0 + 1, Comma) = CountTo(t, 0, Comma) + (IF t[0 + 1] = Comma THEN 1 ELSE 0)
    BY <2>1
  <2>3. t[1] # Comma
    BY <1>1, <1>2, <1>5
  <2>4. QED
    BY <1>4, <2>2, <2>3
<1>6. CountTo(t, Len(t), Comma) = 0
  BY <1>2, <1>4, <1>5
<1>7. S \in Seq(Entry) /\ Len(S) = 1 /\ S[1] = PieceOf(t, 1)
  <2>1. /\ S \in Seq(Entry) /\ Len(S) = CountTo(t, Len(t), Comma) + 1
        /\ \A i \in 1..CountTo(t, Len(t), Comma) + 1 : S[i] = PieceOf(t, i)
    BY <1>3, SplitAre
  <2> HIDE DEF S
  <2>2. 1 \in 1..0 + 1
    OBVIOUS
  <2>3. QED
    BY <1>6, <2>1, <2>2
<1>8. PieceOf(t, 1) = e
  <2>1. CASE e = NL
    <3>1. PieceAt(t, 1) = {}
      BY <1>2, <1>3, <2>1 DEF PieceAt
    <3>2. QED
      BY <2>1, <3>1 DEF PieceOf
  <2>2. CASE e # NL
    <3>1. DOMAIN t = {1} /\ t[1] = e
      BY <1>2, <1>3, <2>2
    <3>2. PieceAt(t, 1) = {1}
      BY <1>1, <1>5, <2>2, <3>1 DEF PieceAt
    <3>3. PieceOf(t, 1) = t[1]
      BY <3>2 DEF PieceOf
    <3>4. QED
      BY <3>1, <3>3
  <2>3. QED
    BY <2>1, <2>2
<1> HIDE DEF S
<1>9. S = <<e>>
  <2> DEFINE f == <<e>>
  <2>1. f \in Seq(Entry) /\ Len(f) = 1 /\ f[1] = e
    OBVIOUS
  <2> HIDE DEF f
  <2>2. Len(S) = Len(f) /\ \A i \in 1..Len(S) : S[i] = f[i]
    BY <1>7, <1>8, <2>1
  <2>3. S = f
    BY <1>7, <2>1, <2>2, SeqEqual
  <2>4. QED
    BY <2>3 DEF f
<1>10. QED
  BY <1>3, <1>9 DEF S, t

(* A comma and an entry more are a piece more.                               *)
LEMMA SplitStep ==
  ASSUME NEW t \in Seq(Char), NEW e \in Entry
  PROVE  LET s == t \o (<<Comma>> \o Opt(e)) IN
         s \in Seq(Char) /\ Split(s) = Append(Split(t), e)
<1> DEFINE o == Opt(e)
           u == <<Comma>> \o o
           s == t \o u
           m == Len(t)
           q == Len(s)
           n == CountTo(t, m, Comma)
<1>1. e \in Char /\ e # Comma /\ Comma \in Char
  BY SetupAssumption DEF Char
<1>2. \/ e = NL /\ o \in Seq(Char) /\ Len(o) = 0
      \/ e # NL /\ o \in Seq(Char) /\ Len(o) = 1 /\ o[1] = e
  <2>1. CASE e = NL
    BY <2>1, EmptySeq DEF Opt
  <2>2. CASE e # NL
    BY <1>1, <2>2 DEF Opt
  <2>3. QED
    BY <2>1, <2>2
<1> HIDE DEF o
<1>3. /\ u \in Seq(Char) /\ Len(u) = 1 + Len(o) /\ u[1] = Comma
      /\ \A x \in 1..Len(o) : u[1 + x] = o[x]
  <2> DEFINE c == <<Comma>>
  <2>1. c \in Seq(Char) /\ Len(c) = 1 /\ c[1] = Comma
    BY <1>1
  <2> HIDE DEF c
  <2>2. o \in Seq(Char)
    BY <1>2
  <2>3. /\ c \o o \in Seq(Char) /\ Len(c \o o) = Len(c) + Len(o)
        /\ \A k \in 1..Len(c) : (c \o o)[k] = c[k]
        /\ \A x \in 1..Len(o) : (c \o o)[Len(c) + x] = o[x]
    BY <2>1, <2>2, ConcatParts
  <2>4. u = c \o o
    BY DEF c
  <2> HIDE DEF u
  <2>5. QED
    BY <2>1, <2>3, <2>4
<1> HIDE DEF u
<1>4. /\ s \in Seq(Char) /\ m \in Nat /\ q = m + Len(u) /\ Len(u) \in Nat
      /\ \A k \in 1..m : s[k] = t[k]
      /\ \A x \in 1..Len(u) : s[m + x] = u[x]
  <2>1. u \in Seq(Char)
    BY <1>3
  <2>2. QED
    BY <2>1, ConcatParts
<1> HIDE DEF s, m, q, n
<1>5. \/ e = NL /\ q = m + 1 /\ s[m + 1] = Comma
      \/ e # NL /\ q = m + 2 /\ s[m + 1] = Comma /\ s[m + 2] = e
  <2>1. CASE e = NL
    <3>1. Len(u) = 1 /\ u[1] = Comma /\ 1 \in 1..1
      BY <1>2, <1>3, <2>1
    <3>2. QED
      BY <1>4, <2>1, <3>1
  <2>2. CASE e # NL
    <3>1. Len(o) = 1 /\ o[1] = e /\ 1 \in 1..1 /\ 1 \in 1..2 /\ 2 \in 1..2 /\ 1 + 1 = 2
      BY <1>2, <2>2
    <3>2. Len(u) = 2 /\ u[1] = Comma /\ u[2] = e
      BY <1>3, <3>1
    <3>3. QED
      BY <1>4, <2>2, <3>1, <3>2
  <2>3. QED
    BY <2>1, <2>2
<1>6. /\ n \in Nat
      /\ \A k \in 0..m : CountTo(s, k, Comma) = CountTo(t, k, Comma) /\ CountTo(t, k, Comma) <= n
  <2>1. n \in Nat
    BY <1>4, CountSteps DEF n
  <2>2. ASSUME NEW k \in 0..m PROVE CountTo(s, k, Comma) = CountTo(t, k, Comma)
    <3>1. \A j \in 1..m : s[j] = t[j]
      BY <1>4
    <3>2. {j \in 1..k : s[j] = Comma} = {j \in 1..k : t[j] = Comma}
      BY <1>4, <3>1
    <3>3. QED
      BY <3>2 DEF CountTo
  <2>3. \A k \in 0..m : CountTo(t, k, Comma) <= n
    BY <1>4, CountGrows DEF n
  <2>4. QED
    BY <2>1, <2>2, <2>3
<1>7. /\ CountTo(s, m + 1, Comma) = n + 1
      /\ e # NL => CountTo(s, m + 2, Comma) = n + 1
  <2>1. \A k \in Nat : CountTo(s, k + 1, Comma)
                          = CountTo(s, k, Comma) + (IF s[k + 1] = Comma THEN 1 ELSE 0)
    BY CountSteps
  <2>2. CountTo(s, m, Comma) = n
    <3>1. m \in 0..m
      BY <1>4
    <3>2. QED
      BY <1>6, <3>1 DEF n
  <2>3. CountTo(s, m + 1, Comma) = n + 1
    <3>1. CountTo(s, m + 1, Comma) = CountTo(s, m, Comma) + (IF s[m + 1] = Comma THEN 1 ELSE 0)
      BY <1>4, <2>1
    <3>2. s[m + 1] = Comma
      BY <1>5
    <3>3. QED
      BY <2>2, <3>1, <3>2
  <2>4. ASSUME e # NL PROVE CountTo(s, m + 2, Comma) = n + 1
    <3>1. CountTo(s, (m + 1) + 1, Comma)
            = CountTo(s, m + 1, Comma) + (IF s[(m + 1) + 1] = Comma THEN 1 ELSE 0)
      <4>1. m + 1 \in Nat
        BY <1>4
      <4>2. QED
        BY <2>1, <4>1
    <3>2. (m + 1) + 1 = m + 2
      BY <1>4
    <3>3. s[m + 2] # Comma
      BY <1>1, <1>5, <2>4
    <3>4. QED
      BY <1>6, <2>3, <3>1, <3>2, <3>3
  <2>5. QED
    BY <2>3, <2>4
<1>8. /\ DOMAIN t = 1..m /\ DOMAIN s = 1..q
      /\ \A k \in 1..q : k \in 1..m \/ k = m + 1 \/ (e # NL /\ k = m + 2)
      /\ \A k \in 1..m : k \in 1..q
  <2>1. DOMAIN t = 1..m /\ DOMAIN s = 1..q
    BY <1>4, LenProperties DEF m, q
  <2>2. CASE e = NL
    BY <1>4, <1>5, <2>1, <2>2
  <2>3. CASE e # NL
    BY <1>4, <1>5, <2>1, <2>3
  <2>4. QED
    BY <2>2, <2>3
<1>9. ASSUME NEW i \in 1..n + 1 PROVE PieceAt(s, i) = PieceAt(t, i)
  <2>1. ASSUME NEW k \in PieceAt(s, i) PROVE k \in PieceAt(t, i)
    <3>1. k \in 1..q /\ s[k] # Comma /\ CountTo(s, k, Comma) = i - 1
      BY <1>8 DEF PieceAt
    <3>2. k \in 1..m
      <4>1. CountTo(s, k, Comma) # n + 1
        BY <1>6, <3>1
      <4>2. k # m + 1 /\ (e # NL => k # m + 2)
        BY <1>7, <4>1
      <4>3. QED
        BY <1>8, <3>1, <4>2
    <3>3. k \in 0..m
      BY <1>4, <3>2
    <3>4. QED
      BY <1>4, <1>6, <1>8, <3>1, <3>2, <3>3 DEF PieceAt
  <2>2. ASSUME NEW k \in PieceAt(t, i) PROVE k \in PieceAt(s, i)
    <3>1. k \in 1..m /\ t[k] # Comma /\ CountTo(t, k, Comma) = i - 1
      BY <1>8 DEF PieceAt
    <3>2. k \in 0..m /\ k \in 1..q
      BY <1>4, <1>8, <3>1
    <3>3. QED
      BY <1>4, <1>6, <1>8, <3>1, <3>2 DEF PieceAt
  <2>3. QED
    BY <2>1, <2>2
<1>10. ASSUME NEW i \in 1..n + 1 PROVE PieceOf(s, i) = PieceOf(t, i)
  <2>1. CASE PieceAt(t, i) = {}
    BY <1>9, <2>1 DEF PieceOf
  <2>2. CASE PieceAt(t, i) # {}
    <3> DEFINE c == CHOOSE k \in PieceAt(t, i) : TRUE
    <3>1. c \in PieceAt(t, i)
      BY <2>2
    <3>2. PieceOf(s, i) = s[c] /\ PieceOf(t, i) = t[c]
      BY <1>9, <2>2 DEF PieceOf
    <3> HIDE DEF c
    <3>3. c \in 1..m
      BY <1>8, <3>1 DEF PieceAt
    <3>4. QED
      BY <1>4, <3>2, <3>3
  <2>3. QED
    BY <2>1, <2>2
<1>11. PieceOf(s, n + 2) = e
  <2>1. ASSUME NEW k \in PieceAt(s, n + 2) PROVE e # NL /\ k = m + 2
    <3>1. k \in 1..q /\ s[k] # Comma /\ CountTo(s, k, Comma) = (n + 2) - 1
      BY <1>8 DEF PieceAt
    <3>2. k # m + 1
      BY <1>5, <3>1
    <3>3. k \notin 1..m
      <4>1. SUFFICES ASSUME k \in 1..m PROVE FALSE
        OBVIOUS
      <4>2. k \in 0..m
        BY <1>4, <4>1
      <4>3. CountTo(s, k, Comma) = CountTo(t, k, Comma) /\ CountTo(t, k, Comma) <= n
        BY <1>6, <4>2
      <4>4. (n + 2) - 1 <= n
        BY <3>1, <4>3
      <4>5. QED
        BY <1>6, <4>4
    <3>4. QED
      BY <1>8, <3>1, <3>2, <3>3
  <2>2. CASE e = NL
    <3>1. PieceAt(s, n + 2) = {}
      BY <2>1, <2>2
    <3>2. QED
      BY <2>2, <3>1 DEF PieceOf
  <2>3. CASE e # NL
    <3>1. m + 2 \in PieceAt(s, n + 2)
      <4>1. m + 2 \in 1..q /\ s[m + 2] # Comma /\ CountTo(s, m + 2, Comma) = n + 1
        BY <1>1, <1>4, <1>5, <1>7, <2>3
      <4>2. (n + 2) - 1 = n + 1
        BY <1>6
      <4>3. QED
        BY <1>8, <4>1, <4>2 DEF PieceAt
    <3>2. PieceAt(s, n + 2) = {m + 2}
      BY <2>1, <3>1
    <3>3. PieceOf(s, n + 2) = s[m + 2]
      BY <3>2 DEF PieceOf
    <3>4. QED
      BY <1>5, <2>3, <3>3
  <2>4. QED
    BY <2>2, <2>3
<1>12. Split(s) = Append(Split(t), e)
  <2> DEFINE A == Split(s)
             B == Split(t)
             C == Append(B, e)
  <2>1. CountTo(s, q, Comma) = n + 1
    BY <1>5, <1>7
  <2>2. A \in Seq(Entry) /\ Len(A) = n + 2 /\ \A i \in 1..n + 2 : A[i] = PieceOf(s, i)
    <3>1. /\ A \in Seq(Entry) /\ Len(A) = (n + 1) + 1
          /\ \A i \in 1..(n + 1) + 1 : A[i] = PieceOf(s, i)
      BY <1>4, <2>1, SplitAre DEF q
    <3>2. (n + 1) + 1 = n + 2
      BY <1>6
    <3>3. QED
      BY <3>1, <3>2
  <2>3. B \in Seq(Entry) /\ Len(B) = n + 1 /\ \A i \in 1..n + 1 : B[i] = PieceOf(t, i)
    BY SplitAre DEF n, m
  <2> HIDE DEF A, B
  <2>4. /\ C \in Seq(Entry) /\ Len(C) = Len(B) + 1 /\ C[Len(B) + 1] = e
        /\ \A i \in 1..Len(B) : C[i] = B[i]
    BY <2>3, AppendProperties
  <2> HIDE DEF C
  <2>5. Len(C) = n + 2 /\ C[n + 2] = e /\ \A i \in 1..n + 1 : C[i] = B[i]
    <3>1. (n + 1) + 1 = n + 2
      BY <1>6
    <3>2. QED
      BY <2>3, <2>4, <3>1
  <2>6. \A i \in 1..n + 2 : i \in 1..n + 1 \/ i = n + 2
    BY <1>6
  <2>7. \A i \in 1..Len(A) : A[i] = C[i]
    BY <1>10, <1>11, <2>2, <2>3, <2>5, <2>6
  <2>8. A = C
    BY <2>2, <2>4, <2>5, <2>7, SeqEqual
  <2>9. QED
    BY <2>8 DEF A, B, C
<1>13. QED
  BY <1>4, <1>12 DEF s, u, o

(* Behind the first character, the text that is sent of a list is split into *)
(* the list, blank entries included.                                         *)
LEMMA SplitJoined ==
  ASSUME NEW l \in Seq(Entry), l # <<>>
  PROVE  Split(Tail(Joined(l))) = l
<1> DEFINE p     == [b \in 1..Len(l) |-> <<Comma>> \o Opt(l[b])]
           P(n)  == FlattenSeq(SubSeq(p, 1, n))
           Ok(n) == \E r \in Seq(Char) : P(n) = <<Comma>> \o r /\ Split(r) = SubSeq(l, 1, n)
           T     == {n \in Nat : n + 1 <= Len(l) => Ok(n + 1)}
<1>1. /\ Len(l) \in Nat \ {0} /\ DOMAIN l = 1..Len(l)
      /\ \A b \in 1..Len(l) : l[b] \in Entry
  BY LenProperties, ElementOfSeq, EmptySeq
<1>2. <<Comma>> \in Seq(Char) /\ \A e \in Entry : Opt(e) \in Seq(Char)
  BY SplitFirst DEF Char
<1>3. \A e \in Entry : <<Comma>> \o Opt(e) \in Seq(Char)
  BY <1>2, ConcatProperties
<1>4. Joined(l) = FlattenSeq(p)
  BY <1>1 DEF Joined, Opt
<1>5. p \in [1..Len(l) -> Seq(Char)]
  BY <1>1, <1>3
<1>6. \A b \in 1..Len(l) : p[b] = <<Comma>> \o Opt(l[b])
  OBVIOUS
<1> HIDE DEF p
<1>7. p \in Seq(Seq(Char)) /\ Len(p) = Len(l)
  BY <1>1, <1>5, SequenceOfFunction
<1>8. \A n \in 1..Len(l) : P(n) = P(n - 1) \o (<<Comma>> \o Opt(l[n]))
  BY <1>6, <1>7, FlattenNext
<1>9. P(0) = <<>>
  <2>1. SubSeq(p, 1, 0) = <<>>
    BY SubSeqEmpty
  <2>2. P(0) = FlattenSeq(<<>>)
    BY <2>1
  <2>3. QED
    BY <2>2, FlattenEmpty
<1>10. P(Len(l)) = Joined(l)
  BY <1>4, <1>7, SubSeqFull
<1> HIDE DEF P
<1>11. Ok(1)
  <2> DEFINE r == Opt(l[1])
  <2>1. 1 \in 1..Len(l) /\ 1 - 1 = 0
    BY <1>1
  <2>2. l[1] \in Entry
    BY <1>1, <2>1
  <2>3. r \in Seq(Char) /\ Split(r) = <<l[1]>>
    BY <2>2, SplitFirst
  <2>4. <<Comma>> \o r \in Seq(Char)
    BY <1>3, <2>2
  <2>5. P(1) = <<>> \o (<<Comma>> \o r)
    BY <1>8, <1>9, <2>1
  <2>6. P(1) = <<Comma>> \o r
    <3> DEFINE u == <<Comma>> \o r
    <3> HIDE DEF u
    <3>1. u \in Seq(Char) /\ P(1) = <<>> \o u
      BY <2>4, <2>5 DEF u
    <3>2. P(1) = u
      BY <3>1, ConcatEmptySeq
    <3>3. QED
      BY <3>2 DEF u
  <2>7. SubSeq(l, 1, 1) = <<l[1]>>
    <3>1. SubSeq(l, 1, 1) = SubSeq(l, 1, 1 - 1) \o <<l[1]>>
      BY <2>1, SubSeqRecursiveSecond
    <3>2. SubSeq(l, 1, 0) = <<>>
      BY SubSeqEmpty
    <3>3. <<l[1]>> \in Seq(Entry)
      BY <2>2
    <3>4. QED
      BY <2>1, <3>1, <3>2, <3>3, ConcatEmptySeq
  <2> HIDE DEF r
  <2>8. QED
    BY <2>3, <2>6, <2>7
<1>12. ASSUME NEW n \in Nat \ {0}, n + 1 <= Len(l), Ok(n) PROVE Ok(n + 1)
  <2> DEFINE e == l[n + 1]
             c == <<Comma>>
             u == c \o Opt(e)
  <2>1. n + 1 \in 1..Len(l) /\ (n + 1) - 1 = n /\ n \in 1..Len(l) /\ 1 \in 1..Len(l)
    BY <1>1, <1>12
  <2>2. e \in Entry /\ c \in Seq(Char) /\ u \in Seq(Char)
    BY <1>1, <1>2, <1>3, <2>1
  <2>3. PICK r \in Seq(Char) : P(n) = c \o r /\ Split(r) = SubSeq(l, 1, n)
    BY <1>12
  <2>4. P(n + 1) = P(n) \o u
    BY <1>8, <2>1
  <2>5. r \o u \in Seq(Char) /\ Split(r \o u) = Append(Split(r), e)
    BY <2>2, SplitStep
  <2>6. SubSeq(l, 1, n + 1) = Append(SubSeq(l, 1, n), e)
    <3>1. SubSeq(l, 1, n + 1) = SubSeq(l, 1, n) \o <<e>>
      <4>1. SubSeq(l, 1, n + 1) = SubSeq(l, 1, (n + 1) - 1) \o <<l[n + 1]>>
        BY <2>1, SubSeqRecursiveSecond
      <4>2. QED
        BY <2>1, <4>1
    <3>2. SubSeq(l, 1, n) \in Seq(Entry)
      BY <2>3, SplitAre
    <3>3. QED
      BY <2>2, <3>1, <3>2, AppendIsConcat
  <2> HIDE DEF e, c, u
  <2>7. (c \o r) \o u = c \o (r \o u)
    BY <2>2, ConcatAssociative
  <2> DEFINE v == r \o u
  <2> HIDE DEF v
  <2>8. v \in Seq(Char) /\ P(n + 1) = c \o v /\ Split(v) = SubSeq(l, 1, n + 1)
    BY <2>3, <2>4, <2>5, <2>6, <2>7 DEF v
  <2>9. QED
    BY <2>8 DEF c
<1> HIDE DEF Ok
<1>13. Nat \subseteq T
  <2>1. 0 \in T
    BY <1>11
  <2>2. ASSUME NEW n \in Nat, n \in T PROVE n + 1 \in T
    <3>1. SUFFICES ASSUME (n + 1) + 1 <= Len(l) PROVE Ok((n + 1) + 1)
      OBVIOUS
    <3>2. n + 1 \in Nat \ {0} /\ n + 1 <= Len(l)
      BY <1>1, <3>1
    <3>3. Ok(n + 1)
      BY <2>2, <3>2
    <3>4. QED
      BY <1>12, <3>1, <3>2, <3>3
  <2> HIDE DEF T
  <2>3. QED
    BY <2>1, <2>2, SetInduction
<1>14. Ok(Len(l))
  <2>1. Len(l) - 1 \in Nat /\ (Len(l) - 1) + 1 = Len(l) /\ Len(l) <= Len(l)
    BY <1>1
  <2>2. Len(l) - 1 \in T
    BY <1>13, <2>1
  <2>3. QED
    BY <2>1, <2>2
<1>15. PICK r \in Seq(Char) : Joined(l) = <<Comma>> \o r /\ Split(r) = SubSeq(l, 1, Len(l))
  BY <1>10, <1>14 DEF Ok
<1>16. Tail(<<Comma>> \o r) = r
  <2> DEFINE c == <<Comma>>
             u == c \o r
             w == Tail(u)
  <2>1. c \in Seq(Char) /\ Len(c) = 1
    BY <1>2
  <2> HIDE DEF c
  <2> HIDE DEF u
  <2>2. /\ u \in Seq(Char) /\ Len(u) = 1 + Len(r) /\ Len(r) \in Nat
        /\ \A x \in 1..Len(r) : u[1 + x] = r[x]
    <3>1. c \in Seq(Char)
      BY <2>1
    <3>2. /\ c \o r \in Seq(Char) /\ Len(c \o r) = Len(c) + Len(r) /\ Len(r) \in Nat
          /\ \A x \in 1..Len(r) : (c \o r)[Len(c) + x] = r[x]
      BY <3>1, ConcatParts
    <3>3. QED
      BY <2>1, <3>2 DEF u
  <2>3. /\ w \in Seq(Char) /\ Len(w) = Len(u) - 1
        /\ \A i \in 1..Len(w) : w[i] = u[i + 1]
    <3>1. u # <<>>
      BY <2>2, EmptySeq
    <3>2. QED
      BY <2>2, <3>1, HeadTailProperties
  <2> HIDE DEF w
  <2>4. Len(w) = Len(r) /\ \A i \in 1..Len(w) : w[i] = r[i]
    <3>1. Len(w) = Len(r)
      BY <2>2, <2>3
    <3>2. ASSUME NEW i \in 1..Len(w) PROVE w[i] = r[i]
      <4>1. w[i] = u[i + 1] /\ i + 1 = 1 + i /\ i \in 1..Len(r)
        BY <2>2, <2>3, <3>1
      <4>2. QED
        BY <2>2, <4>1
    <3>3. QED
      BY <3>1, <3>2
  <2>5. w = r
    BY <2>3, <2>4, SeqEqual
  <2>6. QED
    BY <2>5 DEF w, u, c
<1>17. QED
  BY <1>15, <1>16, SubSeqFull

----------------------------------------------------------------------------
(* The list of a table *)

(* The entry of a bit is blank or comes from a Linux row of the bit.         *)
LEMMA EntryOfRow ==
  ASSUME NEW rows \in Seq(Row)
  PROVE  /\ LinuxEntry(rows) \in Entry
         /\ LinuxEntry(rows) # NL =>
              \E r \in Range(rows) : r.os = 2 /\ (r.primary => LinuxEntry(rows) = r.name)
<1> DEFINE Lin == {k \in DOMAIN rows : rows[k].os = 2}
           r   == rows[CHOOSE k \in Lin : \A j \in Lin : j <= k]
<1>1. /\ Len(rows) \in Nat /\ DOMAIN rows = 1..Len(rows)
      /\ \A k \in 1..Len(rows) : rows[k] \in Row
  BY LenProperties, ElementOfSeq
<1>2. LinuxEntry(rows) = IF Lin = {} THEN NL ELSE IF r.primary THEN r.name ELSE Pair
  BY DEF LinuxEntry
<1>3. CASE Lin = {}
  BY <1>2, <1>3 DEF Entry
<1>4. CASE Lin # {}
  <2> DEFINE D == {d \in Nat : \E k \in Lin : d = Len(rows) - k}
  <2>1. Lin \subseteq 1..Len(rows)
    BY <1>1
  <2>2. \E k \in Lin : \A j \in Lin : j <= k
    <3>1. D \subseteq Nat /\ D # {}
      <4>1. PICK k \in Lin : TRUE
        BY <1>4
      <4>2. k \in 1..Len(rows)
        BY <2>1, <4>1
      <4>3. Len(rows) - k \in D
        BY <1>1, <4>1, <4>2
      <4>4. QED
        BY <4>3
    <3>2. PICK d \in D : \A c \in D : d <= c
      <4> HIDE DEF D
      <4>1. QED
        BY <3>1, LeastNumber
    <3>3. PICK k \in Lin : d = Len(rows) - k
      BY <3>2
    <3>4. ASSUME NEW j \in Lin PROVE j <= k
      <4>1. j \in 1..Len(rows) /\ k \in 1..Len(rows)
        BY <2>1, <3>3
      <4>2. Len(rows) - j \in D
        BY <1>1, <4>1
      <4>3. Len(rows) - k <= Len(rows) - j
        BY <3>2, <3>3, <4>2
      <4>4. QED
        BY <1>1, <4>1, <4>3
    <3>5. QED
      BY <3>3, <3>4
  <2> DEFINE k == CHOOSE k \in Lin : \A j \in Lin : j <= k
  <2>3. k \in Lin
    BY <2>2
  <2>4. r = rows[k]
    OBVIOUS
  <2> HIDE DEF k
  <2>5. k \in DOMAIN rows /\ rows[k].os = 2 /\ rows[k] \in Row
    BY <1>1, <2>3
  <2>6. r \in Range(rows) /\ r.os = 2 /\ r \in Row
    BY <2>4, <2>5 DEF Range
  <2>7. LinuxEntry(rows) = IF r.primary THEN r.name ELSE Pair
    BY <1>2, <1>4
  <2> HIDE DEF r
  <2>8. r.name \in Entry /\ Pair \in Entry
    BY <2>6, SetupAssumption DEF Row, Entry
  <2>9. QED
    BY <2>6, <2>7, <2>8
<1>5. QED
  BY <1>3, <1>4

(* A list that the server sends is received as it is.                        *)
LEMMA ReceivedList ==
  ASSUME NEW k \in 1..Len(Table) + 1
  PROVE  Received(k) = linux_list(k) /\ linux_list(k) \in Seq(Entry)
<1> DEFINE f == [b \in 1..Len(Table) |-> IF b < k THEN LinuxEntry(Table[b]) ELSE NL]
<1>1. /\ Len(Table) \in Nat \ {0} /\ DOMAIN Table = 1..Len(Table)
      /\ \A b \in 1..Len(Table) : Table[b] \in Seq(Row)
  BY SetupAssumption, LenProperties, ElementOfSeq, EmptySeq
<1>2. linux_list(k) = f
  BY <1>1 DEF linux_list
<1>3. f \in [1..Len(Table) -> Entry]
  <2>1. \A b \in 1..Len(Table) : LinuxEntry(Table[b]) \in Entry
    BY <1>1, EntryOfRow
  <2>2. QED
    BY <2>1 DEF Entry
<1> HIDE DEF f
<1>4. f \in Seq(Entry) /\ Len(f) = Len(Table)
  BY <1>1, <1>3, SequenceOfFunction
<1>5. f # <<>>
  BY <1>1, <1>4, EmptySeq
<1>6. Split(Tail(Joined(f))) = f
  BY <1>4, <1>5, SplitJoined
<1>7. QED
  BY <1>2, <1>4, <1>6 DEF Received

(* A text written over another leaves a text.                                *)
LEMMA OverlayType ==
  ASSUME NEW t \in Seq(Entry), NEW u \in Seq(Entry)
  PROVE  Overlay(t, u) \in Seq(Entry)
<1>1. Len(t) \in Nat /\ Len(u) \in Nat
  BY LenProperties
<1>2. \A i \in (Len(u) + 1)..Len(t) : t[i] \in Entry
  BY <1>1, ElementOfSeq
<1>3. SubSeq(t, Len(u) + 1, Len(t)) \in Seq(Entry)
  BY <1>1, <1>2, SubSeqProperties
<1>4. QED
  BY <1>3, ConcatProperties DEF Overlay

----------------------------------------------------------------------------
(* The types of the threads, which TypeOK states at the two threads only,    *)
(* and what write_program_file found: a file that exists stays.              *)
Threads ==
    /\ pc \in [Thread -> Place] /\ got \in [Thread -> Nat]
    /\ pc["home"] \in {"wlock", "write", "close"} => file # Missing

(* PROGRAM_LIST holds what was loaded, and a bit is set only where it has a  *)
(* program that was seen.                                                    *)
FirstLoad ==
    /\ loaded = <<>> => list = <<>>
    /\ Len(loaded) = 1 => list = Lines(loaded[1])
    /\ \A i \in blocks : list[i] \in seen

ListInv == TypeOK /\ Threads /\ FirstLoad

(* It holds when the client starts.                                          *)
LEMMA InitList == Init => ListInv
<1> SUFFICES ASSUME Init PROVE ListInv
  OBVIOUS
<1>1. <<>> \in Seq(Entry) /\ <<>> \in Seq(Seq(Entry)) /\ Len(<<>>) = 0
  BY EmptySeq
<1>2. TypeOK
  BY <1>1, ListAssumption DEF Init, TypeOK, Thread
<1>3. Threads /\ FirstLoad
  BY DEF Init, Threads, FirstLoad, Thread, Place
<1>4. QED
  BY <1>2, <1>3 DEF ListInv

(* The positions polled lie in PROGRAM_LIST.                                 *)
LEMMA WatchedInList ==
  ASSUME TypeOK
  PROVE  \A i \in Watched : i \in 1..Len(list) /\ list[i] \in Program
<1>1. Blocks * EventSize \in Int
  BY ListAssumption, LenProperties DEF TypeOK, Blocks
<1>2. SUFFICES ASSUME NEW i \in Watched
               PROVE  i \in 1..Len(list) /\ list[i] \in Program
  OBVIOUS
<1>3. i \in 1..Len(list) /\ list[i] # NL
  <2>1. i \in 1..Blocks * EventSize /\ i <= Len(list) /\ list[i] # NL
    BY DEF Watched
  <2>2. Len(list) \in Nat
    BY LenProperties DEF TypeOK
  <2>3. QED
    BY <1>1, <2>1, <2>2
<1>4. list[i] \in Entry
  BY <1>3, ElementOfSeq DEF TypeOK
<1>5. QED
  BY <1>3, <1>4 DEF Entry

(* linux_set_program_list appends a file's lines; nothing moves.             *)
LEMMA ReadList ==
  ASSUME ListInv, NEW t \in Thread, SetRead(t)
  PROVE  ListInv'
<1>1. file \in Seq(Entry) /\ list \in Seq(Entry) /\ loaded \in Seq(Seq(Entry))
  BY DEF ListInv, TypeOK, SetRead
<1>2. Lines(file) \in Seq(Entry)
  BY <1>1, LinesType
<1> DEFINE L == Lines(file)
<1> HIDE DEF L
<1>3. /\ list' = list \o L /\ got' = [got EXCEPT ![t] = Len(L)]
      /\ loaded' = Append(loaded, file)
  BY DEF SetRead, L
<1>4. /\ L \in Seq(Entry) /\ list' \in Seq(Entry)
      /\ Len(L) \in Nat /\ Len(list) \in Nat /\ Len(list') = Len(list) + Len(L)
      /\ \A i \in 1..Len(list) : list'[i] = list[i]
  BY <1>1, <1>2, <1>3, ConcatProperties, LenProperties DEF L
<1>5. /\ loaded' \in Seq(Seq(Entry)) /\ Len(loaded) \in Nat
      /\ Len(loaded') = Len(loaded) + 1
      /\ loaded'[Len(loaded) + 1] = file
  BY <1>1, <1>3, AppendProperties, LenProperties
<1>6. TypeOK'
  <2>1. /\ UNCHANGED file /\ mutex' = "free" /\ steady' = FALSE
        /\ UNCHANGED <<count, incoming, calls, pcount, blocks, seen>>
        /\ pc' = [pc EXCEPT ![t] = "count"]
    BY DEF SetRead, hvars, gvars, Goto
  <2>2. got' \in [Thread -> Nat] /\ \A u \in Thread : got'[u] \in 0..Len(list')
    BY <1>3, <1>4 DEF ListInv, TypeOK, Threads
  <2>3. count' \in 0..Len(list') /\ pcount' \in 0..Len(list')
        /\ blocks' \subseteq 1..Len(list')
    BY <2>1, <1>4 DEF ListInv, TypeOK
  <2>4. /\ pc'["gather"] \in {"start", "lock", "read", "count", "begin", "poll"}
        /\ pc'["home"] \in {"idle", "open", "wlock", "write", "close", "lock", "read", "count"}
    BY <2>1 DEF ListInv, TypeOK, Threads, Thread
  <2>5. QED
    BY <2>1, <2>2, <2>3, <2>4, <1>4, <1>5 DEF ListInv, TypeOK
<1>7. Threads'
  BY <1>3, <1>4 DEF ListInv, Threads, SetRead, Goto, Place, Thread
<1>8. FirstLoad'
  <2>1. loaded' # <<>>
    BY <1>5, EmptySeq
  <2>2. Len(loaded') = 1 => list' = Lines(loaded'[1])
    <3>1. SUFFICES ASSUME Len(loaded') = 1 PROVE list' = Lines(loaded'[1])
      OBVIOUS
    <3>2. Len(loaded) = 0 /\ loaded'[1] = file
      <4>1. Len(loaded) \in Nat /\ Len(loaded') = Len(loaded) + 1
        BY <1>5
      <4>2. \A n, m \in Nat : m = n + 1 /\ m = 1 => n = 0
        OBVIOUS
      <4>3. Len(loaded) = 0
        BY <4>1, <4>2, <3>1
      <4>4. QED
        BY <1>5, <4>3
    <3>3. list = <<>>
      BY <1>1, <3>2, EmptySeq DEF ListInv, FirstLoad
    <3>4. list' = L
      BY <3>3, <1>3, <1>4, ConcatEmptySeq
    <3>5. QED
      BY <3>2, <3>4 DEF L
  <2>3. \A i \in blocks' : list'[i] \in seen'
    BY <1>4 DEF ListInv, TypeOK, FirstLoad, SetRead, gvars
  <2>4. QED
    BY <2>1, <2>2, <2>3 DEF FirstLoad
<1>9. QED
  BY <1>6, <1>7, <1>8 DEF ListInv

(* The rest of linux_set_program_list.                                       *)
LEMMA SetProgramListList ==
  ASSUME ListInv, NEW t \in Thread, SetProgramList(t)
  PROVE  ListInv'
<1> USE DEF ListInv, TypeOK, Threads, FirstLoad, Goto, Place, Thread
<1>1. CASE SetLock(t)
  BY <1>1 DEF SetLock, lvars, hvars, gvars
<1>2. CASE SetFail(t)
  BY <1>2 DEF SetFail, Return, fvars, lvars, hvars, gvars
<1>3. CASE SetRead(t)
  BY <1>3, ReadList
<1>4. CASE SetCount(t)
  BY <1>4 DEF SetCount, Return, fvars, hvars, gvars
<1>5. QED
  BY <1>1, <1>2, <1>3, <1>4 DEF SetProgramList

(* gather_data sets a bit only for a program that runs.                      *)
LEMMA GatherList ==
  ASSUME ListInv, Gather
  PROVE  ListInv'
<1> USE DEF ListInv, TypeOK, Threads, FirstLoad, Goto, Place, Thread
<1>1. CASE SetProgramList("gather")
  BY <1>1, SetProgramListList
<1>2. CASE GatherStart
  BY <1>2 DEF GatherStart, fvars, lvars, hvars, gvars
<1>3. CASE GatherBegin
  BY <1>3 DEF GatherBegin, fvars, lvars, hvars
<1>4. CASE \E R \in SUBSET Program : GatherPoll(R)
  <2>1. PICK R \in SUBSET Program : GatherPoll(R)
    BY <1>4
  <2>2. QED
    BY <2>1, WatchedInList DEF GatherPoll, fvars, lvars, hvars
<1>5. CASE GatherEnd
  BY <1>5 DEF GatherEnd, fvars, lvars, hvars, gvars
<1>6. QED
  BY <1>1, <1>2, <1>3, <1>4, <1>5 DEF Gather

(* call_home_task and write_program_file change the file only.               *)
LEMMA HomeList ==
  ASSUME ListInv, Home
  PROVE  ListInv'
<1> USE DEF ListInv, TypeOK, Threads, FirstLoad, Goto, Place, Thread
<1>1. CASE SetProgramList("home")
  BY <1>1, SetProgramListList
<1>2. CASE \E l \in Lists : HomeReceive(l)
  <2>1. PICK l \in Lists : HomeReceive(l)
    BY <1>2
  <2>2. Text(l) \in Seq(Entry)
    BY <2>1, ListAssumption, TextType
  <2>3. QED
    BY <2>1, <2>2, ListAssumption DEF HomeReceive, fvars, lvars, gvars
<1>3. CASE HomeOpen
  BY <1>3 DEF HomeOpen, fvars, lvars, hvars, gvars
<1>4. CASE HomeLock
  BY <1>4 DEF HomeLock, lvars, hvars, gvars
<1>5. CASE HomeFlush
  <2>1. PICK k \in 1..(Len(incoming) - 1) :
           file' = Overlay(file, SubSeq(incoming, 1, k))
    BY <1>5 DEF HomeFlush
  <2>2. file \in Seq(Entry) /\ incoming \in Seq(Entry) /\ Len(incoming) \in Nat
    BY <1>5, LenProperties DEF HomeFlush
  <2>3. \A i \in 1..k : incoming[i] \in Entry
    BY <2>1, <2>2, ElementOfSeq
  <2>4. SubSeq(incoming, 1, k) \in Seq(Entry)
    BY <2>1, <2>2, <2>3, SubSeqProperties
  <2>5. file' \in Seq(Entry) /\ file' # Missing
    BY <2>1, <2>2, <2>4, OverlayType, ListAssumption
  <2>6. QED
    BY <1>5, <2>5 DEF HomeFlush, lvars, hvars, gvars
<1>6. CASE HomeClose
  <2>1. file \in Seq(Entry) /\ incoming \in Seq(Entry)
    BY <1>6 DEF HomeClose
  <2>2. file' \in Seq(Entry) /\ file' # Missing
    BY <1>6, <2>1, OverlayType, ListAssumption DEF HomeClose
  <2>3. QED
    BY <1>6, <2>2 DEF HomeClose, lvars, hvars, gvars
<1>7. QED
  BY <1>1, <1>2, <1>3, <1>4, <1>5, <1>6 DEF Home, WriteList

(* Every step keeps the invariant; a restart begins anew.                    *)
LEMMA StepList == ListInv /\ [Next]_vars => ListInv'
<1> SUFFICES ASSUME ListInv, [Next]_vars
             PROVE  ListInv'
  OBVIOUS
<1>1. CASE Gather
  BY <1>1, GatherList
<1>2. CASE Home
  BY <1>2, HomeList
<1>3. CASE Restart
  <2>1. <<>> \in Seq(Entry) /\ <<>> \in Seq(Seq(Entry)) /\ Len(<<>>) = 0
    BY EmptySeq
  <2>2. QED
    BY <1>3, <2>1 DEF Restart, ListInv, TypeOK, Threads, FirstLoad, Thread, Place
<1>4. CASE UNCHANGED vars
  BY <1>4 DEF vars, fvars, lvars, hvars, gvars, ListInv, TypeOK, Threads, FirstLoad
<1>5. QED
  BY <1>1, <1>2, <1>3, <1>4 DEF Next

(* The invariant holds throughout.                                           *)
LEMMA ListInvariant == Spec => []ListInv
  BY InitList, StepList, PTL DEF Spec

(* The file, the list and the two threads are well typed.                    *)
THEOREM TypeCorrect == Spec => []TypeOK
<1>1. ListInv => TypeOK
  BY DEF ListInv
<1>2. QED
  BY <1>1, ListInvariant, PTL

(* A list file does not come into being, so that a mutex left locked by a    *)
(* failed fopen stays the exception; every other thread unlocks.             *)
LEMMA StepHolder ==
  ASSUME ListInv, InsideHoldsMutex, HolderInside, [Next]_vars
  PROVE  HolderInside'
<1> USE DEF ListInv, TypeOK, Threads, InsideHoldsMutex, HolderInside, Goto, Thread
<1>1. ASSUME NEW t \in Thread, SetProgramList(t) PROVE HolderInside'
  <2>1. CASE SetLock(t)
    BY <2>1 DEF SetLock
  <2>2. CASE SetFail(t)
    BY <2>2 DEF SetFail, fvars
  <2>3. CASE SetRead(t)
    BY <2>3 DEF SetRead
  <2>4. CASE SetCount(t)
    BY <2>4 DEF SetCount, Return, fvars
  <2>5. QED
    BY <1>1, <2>1, <2>2, <2>3, <2>4 DEF SetProgramList
<1>2. CASE GatherStart \/ GatherBegin \/ GatherEnd \/ \E R \in SUBSET Program : GatherPoll(R)
  BY <1>2 DEF GatherStart, GatherBegin, GatherEnd, GatherPoll, fvars
<1>3. CASE \E l \in Lists : HomeReceive(l)
  BY <1>3 DEF HomeReceive, fvars
<1>4. CASE HomeOpen
  BY <1>4 DEF HomeOpen, fvars
<1>5. CASE HomeLock
  BY <1>5 DEF HomeLock
<1>6. CASE HomeFlush
  BY <1>6 DEF HomeFlush
<1>7. CASE HomeClose
  BY <1>7 DEF HomeClose
<1>8. CASE Restart
  BY <1>8 DEF Restart
<1>9. CASE UNCHANGED vars
  BY <1>9 DEF vars, fvars
<1>10. QED
  BY <1>1, <1>2, <1>3, <1>4, <1>5, <1>6, <1>7, <1>8, <1>9
     DEF Next, Gather, Home, WriteList

(* With a list file, pf_mutex is never left locked.                          *)
THEOREM MutexHasHolder == Spec => []HolderInside
<1>1. Init => HolderInside
  BY DEF Init, HolderInside
<1>2. ListInv /\ InsideHoldsMutex /\ HolderInside /\ [Next]_vars => HolderInside'
  BY StepHolder
<1>3. QED
  BY <1>1, <1>2, ListInvariant, OnlyHolderInside, PTL DEF Spec

(* As long as the list was loaded once, a bit of the blocks stands for the   *)
(* program at its position of the file that was loaded, and that program was *)
(* seen running.                                                             *)
THEOREM FirstLoadBits == Spec => []BitsOfFirstLoad
<1>1. ListInv => BitsOfFirstLoad
  <2> SUFFICES ASSUME ListInv, Len(loaded) = 1, NEW i \in blocks
               PROVE  i \in DOMAIN Lines(loaded[1]) /\ Lines(loaded[1])[i] \in seen
    BY DEF BitsOfFirstLoad
  <2>1. list = Lines(loaded[1]) /\ list[i] \in seen /\ i \in 1..Len(list)
    BY DEF ListInv, FirstLoad, TypeOK
  <2>2. DOMAIN list = 1..Len(list)
    BY LenProperties DEF ListInv, TypeOK
  <2>3. QED
    BY <2>1, <2>2
<1>2. QED
  BY <1>1, ListInvariant, PTL

(* As long as the client loaded one list that the server sent, whole, a bit  *)
(* of an event stands for a Linux program with that bit_pos in the database, *)
(* and a primary one was seen running.                                       *)
THEOREM TableBits == Spec => []BitsOfTable
<1>1. ListInv => BitsOfTable
  <2>1. SUFFICES ASSUME ListInv, Len(loaded) = 1,
                        NEW k \in 1..Len(Table) + 1, loaded[1] = Text(Received(k)),
                        NEW i \in blocks
                 PROVE  /\ i \in DOMAIN Table
                        /\ \E r \in Range(Table[i]) :
                             r.os = 2 /\ (r.primary => r.name \in seen)
    BY DEF BitsOfTable, SentLists
  <2> DEFINE l == linux_list(k)
  <2>2. l \in Seq(Entry) /\ Received(k) = l
    BY ReceivedList
  <2>3. /\ DOMAIN l = DOMAIN Table
        /\ \A b \in DOMAIN Table : l[b] = IF b < k THEN LinuxEntry(Table[b]) ELSE NL
    BY DEF linux_list
  <2> HIDE DEF l
  <2>4. list = l
    <3>1. list = Lines(loaded[1])
      BY <2>1 DEF ListInv, FirstLoad
    <3>2. Lines(Text(l)) = l
      BY <2>2, LinesOfText
    <3>3. QED
      BY <2>1, <2>2, <3>1, <3>2
  <2>5. i \in DOMAIN l /\ l[i] \in seen /\ l[i] # NL
    <3>1. list[i] \in seen /\ i \in 1..Len(list) /\ seen \subseteq Program
      BY <2>1 DEF ListInv, FirstLoad, TypeOK
    <3>2. DOMAIN l = 1..Len(l)
      BY <2>2, LenProperties
    <3>3. QED
      BY <2>4, <3>1, <3>2, ListAssumption
  <2>6. i \in DOMAIN Table /\ l[i] = LinuxEntry(Table[i])
    BY <2>3, <2>5
  <2>7. Table[i] \in Seq(Row)
    <3>1. Table \in Seq(Seq(Row))
      BY SetupAssumption
    <3>2. i \in 1..Len(Table)
      BY <2>6, <3>1, LenProperties
    <3>3. QED
      BY <3>1, <3>2, ElementOfSeq
  <2>8. PICK r \in Range(Table[i]) :
           r.os = 2 /\ (r.primary => LinuxEntry(Table[i]) = r.name)
    <3>1. LinuxEntry(Table[i]) # NL
      BY <2>5, <2>6
    <3>2. QED
      BY <2>7, <3>1, EntryOfRow
  <2>9. QED
    BY <2>5, <2>6, <2>8
<1>2. QED
  BY <1>1, ListInvariant, PTL
=============================================================================
