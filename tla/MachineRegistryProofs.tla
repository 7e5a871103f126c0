----------------------- MODULE MachineRegistryProofs -----------------------
(* Proofs about MachineRegistry, for every set of machines, addresses and   *)
(* threads.                                                                 *)
EXTENDS MachineRegistry, TLAPS

(* Every container keeps the type its declaration and its writers give it.  *)
LEMMA TypeInit == Init => TypeOK
<1> SUFFICES ASSUME Init PROVE TypeOK
  OBVIOUS
<1>1. machineList \in Seq(Machine) /\ gi \in Nat
  BY DEF Init
<1>2. /\ tpc \in [Thread -> {"idle", "check", "lookup", "contact", "parse",
                            "black", "offline"}]
      /\ \A t \in Thread : tpc[t] # "idle" => tmach[t] \in Machine
  BY DEF Init
<1>3. lpc = "accept" /\ upc = "next"
  BY DEF Init
<1> QED
  BY <1>1, <1>2, <1>3 DEF Init, TypeOK, Absent

(* Every access to a container keeps the types.                              *)
LEMMA TypeStep == TypeOK /\ [Next]_vars => TypeOK'
<1> SUFFICES ASSUME TypeOK, [Next]_vars PROVE TypeOK'
  OBVIOUS
<1> USE RegistryAssumption DEF RegistryAssumption, Absent
<1>1. CASE Listen
  <2>1. ASSUME NEW m \in Machine, NEW a \in Addr, NEW home \in BOOLEAN,
               ListenRead(m, a, home)
        PROVE  TypeOK'
    BY <2>1 DEF TypeOK, ListenRead, mem, tvars, uvars
  <2>2. CASE ListenUnblack
    BY <2>2 DEF TypeOK, ListenUnblack, ListenGoto, tvars, uvars
  <2>3. CASE ListenAddress
    BY <2>3 DEF TypeOK, ListenAddress, ListenGoto, ListenDone, tvars, uvars
  <2>4. CASE ListenAddressThrows
    BY <2>4 DEF TypeOK, ListenAddressThrows, ListenDone, tvars, uvars
  <2>5. CASE ListenPush
    BY <2>5 DEF TypeOK, ListenPush, ListenGoto, tvars, uvars
  <2>6. CASE ListenAddrInsert
    BY <2>6 DEF TypeOK, ListenAddrInsert, ListenGoto, tvars, uvars
  <2>7. CASE ListenAddrInsertThrows
    BY <2>7 DEF TypeOK, ListenAddrInsertThrows, ListenDone, mem, tvars, uvars
  <2>8. CASE ListenBlackInsert
    BY <2>8 DEF TypeOK, ListenBlackInsert, Touch, ListenGoto, tvars, uvars
  <2>9. CASE ListenDbSelect
    BY <2>9 DEF TypeOK, ListenDbSelect, ListenGoto, mem, tvars, uvars
  <2>10. ASSUME NEW ok \in BOOLEAN, ListenDbInsert(ok) PROVE TypeOK'
    BY <2>10 DEF TypeOK, ListenDbInsert, Touch, ListenGoto, tvars, uvars
  <2>11. CASE ListenSend
    BY <2>11 DEF TypeOK, ListenSend, ListenDone, mem, tvars, uvars
  <2> QED
    BY <1>1, <2>1, <2>2, <2>3, <2>4, <2>5, <2>6, <2>7, <2>8, <2>9, <2>10, <2>11
    DEF Listen
<1>2. CASE Gather
  <2>1. CASE GatherStart
    BY <2>1 DEF TypeOK, GatherStart, mem, lvars, tvars, uvars
  <2>2. ASSUME NEW t \in Thread, GatherSpawn(t) PROVE TypeOK'
    BY <2>2 DEF TypeOK, GatherSpawn, Touch, lvars, uvars
  <2>3. CASE GatherSkip
    BY <2>3 DEF TypeOK, GatherSkip, mem, lvars, tvars, uvars
  <2>4. CASE GatherDone
    BY <2>4 DEF TypeOK, GatherDone, mem, lvars, tvars, uvars
  <2> QED
    BY <1>2, <2>1, <2>2, <2>3, <2>4 DEF Gather
<1>3. ASSUME NEW t \in Thread, HandleGather(t) PROVE TypeOK'
  <2>1. CASE ThreadCheck(t)
    BY <2>1 DEF TypeOK, ThreadCheck, Touch, ThreadDone, ThreadGoto, lvars, uvars
  <2>2. CASE ThreadLookup(t)
    BY <2>2 DEF TypeOK, ThreadLookup, mem, lvars, uvars
  <2>3. ASSUME NEW s \in {1, 2}, ThreadReply(t, s) PROVE TypeOK'
    BY <2>3 DEF TypeOK, ThreadReply, ThreadDone, ThreadGoto, lvars, uvars
  <2>4. CASE ThreadNoReply(t)
    BY <2>4 DEF TypeOK, ThreadNoReply, ThreadDone, mem, lvars, uvars
  <2>5. CASE ThreadFail(t)
    BY <2>5 DEF TypeOK, ThreadFail, ThreadGoto, mem, lvars, uvars
  <2>6. ASSUME NEW recent \in BOOLEAN, ThreadParse(t, recent) PROVE TypeOK'
    BY <2>6 DEF TypeOK, ThreadParse, ThreadDone, lvars, uvars
  <2>7. CASE ThreadBlack(t)
    BY <2>7 DEF TypeOK, ThreadBlack, ThreadGoto, lvars, uvars
  <2>8. CASE ThreadOffline(t)
    BY <2>8 DEF TypeOK, ThreadOffline, ThreadDone, lvars, uvars
  <2> QED
    BY <1>3, <2>1, <2>2, <2>3, <2>4, <2>5, <2>6, <2>7, <2>8 DEF HandleGather
<1>4. CASE Update
  <2>1. CASE UpdateNext
    BY <2>1 DEF TypeOK, UpdateNext, KeysAfter, mem, lvars, tvars
  <2>2. CASE UpdateTest
    BY <2>2 DEF TypeOK, UpdateTest, mem, lvars, tvars
  <2>3. CASE UpdateFix
    BY <2>3 DEF TypeOK, UpdateFix, lvars, tvars
  <2>4. ASSUME NEW ok \in BOOLEAN, UpdateDb(ok) PROVE TypeOK'
    BY <2>4 DEF TypeOK, UpdateDb, UpdateSelect, UpdateInsert, UpdateRow, mem,
                lvars, tvars
  <2> QED
    BY <1>4, <2>1, <2>2, <2>3, <2>4 DEF Update
<1>5. CASE Stop
  <2>1. <<>> \in Seq(Machine)
    OBVIOUS
  <2> QED
    BY <1>5, <2>1 DEF TypeOK, Stop, ListenDone
<1>6. CASE Start
  BY <1>6 DEF TypeOK, Start, mem, lvars, tvars, uvars
<1>7. CASE UNCHANGED vars
  BY <1>7 DEF TypeOK, vars, mem, lvars, tvars, uvars
<1> QED
  BY <1>1, <1>2, <1>3, <1>4, <1>5, <1>6, <1>7 DEF Next

(* The registry's containers, place counters and iterator are well typed in *)
(* every reachable state, however the threads interleave.                   *)
THEOREM TypeCorrect == Spec => []TypeOK
<1> QED
  BY TypeInit, TypeStep, PTL DEF Spec

----------------------------------------------------------------------------
(* The inductive invariant: what the three safety properties need of each    *)
(* other, and of the listener between its find and its push_back.            *)
RegistryInv ==
    /\ TypeOK
    /\ NoDuplicates
    /\ lpc = "push" => ~IsListed(lmach)
    /\ lpc = "accept" => lmach = Absent
    /\ \A t \in Thread : tpc[t] # "idle" => IsListed(tmach[t])
    /\ \A m \in Machine : IsListed(m) =>
          mnameIP[m] # NoAddr \/ Registering(m, "addrins") \/ m \in cutShort
    /\ \A m \in Machine : blacklist[m] = 1 \/ status[m] \in {1, 3} => IsListed(m)
    /\ upc # "next" => status[uit] # Absent

(* The conjuncts that a step leaving the list, the addresses, the listener   *)
(* and cutShort alone keeps for free.                                        *)
LEMMA SameList ==
    ASSUME UNCHANGED machineList
    PROVE  \A m : IsListed(m)' <=> IsListed(m)
  BY DEF IsListed

(* A server that just started satisfies the invariant.                       *)
LEMMA InitInv == Init => RegistryInv
<1> SUFFICES ASSUME Init PROVE RegistryInv
  OBVIOUS
<1>1. TypeOK
  BY TypeInit
<1>2. machineList = <<>>
  BY DEF Init
<1>3. DOMAIN machineList = {}
  BY <1>2
<1>4. (\A m : ~IsListed(m)) /\ NoDuplicates
  BY <1>3 DEF NoDuplicates, IsListed
<1> QED
  BY <1>1, <1>4 DEF Init, RegistryInv, Absent

(* The accesses of handle_listen keep it: only ListenPush extends the list.  *)
LEMMA ListenInv == RegistryInv /\ Listen => RegistryInv'
<1> SUFFICES ASSUME RegistryInv, Listen PROVE RegistryInv'
  OBVIOUS
<1>0. TypeOK'
  BY TypeStep DEF RegistryInv, Next
<1> USE RegistryAssumption DEF RegistryAssumption, Absent
<1>1. ASSUME NEW m \in Machine, NEW a \in Addr, NEW home \in BOOLEAN,
             ListenRead(m, a, home)
      PROVE  RegistryInv'
  BY <1>0, <1>1 DEF RegistryInv, TypeOK, NoDuplicates, IsListed, Registering,
                    ListenRead, mem, tvars, uvars
<1>2. CASE ListenUnblack
  BY <1>0, <1>2 DEF RegistryInv, TypeOK, NoDuplicates, IsListed, Registering,
                    ListenUnblack, ListenGoto, tvars, uvars
<1>3. CASE ListenAddress
  BY <1>0, <1>3 DEF RegistryInv, TypeOK, NoDuplicates, IsListed, Registering,
                    ListenAddress, ListenGoto, ListenDone, tvars, uvars
<1>4. CASE ListenAddressThrows
  BY <1>0, <1>4 DEF RegistryInv, TypeOK, NoDuplicates, IsListed, Registering,
                    ListenAddressThrows, ListenDone, tvars, uvars
<1>5. CASE ListenPush
  <2>1. CASE lmach = NoName
    BY <1>0, <1>5, <2>1 DEF RegistryInv, TypeOK, NoDuplicates, IsListed,
                    Registering, ListenPush, ListenGoto, tvars, uvars
  <2>2. CASE lmach # NoName
    <3>1. machineList' = Append(machineList, lmach) /\ machineList \in Seq(Machine)
      BY <1>5, <2>2 DEF ListenPush, RegistryInv, TypeOK
    <3>2. \A m : IsListed(m)' <=> IsListed(m) \/ m = lmach
      BY <3>1 DEF IsListed
    <3>3. NoDuplicates'
      BY <3>1, <1>5 DEF RegistryInv, NoDuplicates, IsListed, ListenPush
    <3> QED
      BY <1>0, <1>5, <3>2, <3>3 DEF RegistryInv, TypeOK, Registering, ListenPush,
                    ListenGoto, tvars, uvars
  <2> QED
    BY <2>1, <2>2
<1>6. CASE ListenAddrInsert
  BY <1>0, <1>6 DEF RegistryInv, TypeOK, NoDuplicates, IsListed, Registering,
                    ListenAddrInsert, ListenGoto, tvars, uvars
<1>7. CASE ListenAddrInsertThrows
  BY <1>0, <1>7 DEF RegistryInv, TypeOK, NoDuplicates, IsListed, Registering,
                    ListenAddrInsertThrows, ListenDone, mem, tvars, uvars
<1>8. CASE ListenBlackInsert
  BY <1>0, <1>8 DEF RegistryInv, TypeOK, NoDuplicates, IsListed, Registering,
                    ListenBlackInsert, Touch, ListenGoto, tvars, uvars
<1>9. CASE ListenDbSelect
  BY <1>0, <1>9 DEF RegistryInv, TypeOK, NoDuplicates, IsListed, Registering,
                    ListenDbSelect, ListenGoto, mem, tvars, uvars
<1>10. ASSUME NEW ok \in BOOLEAN, ListenDbInsert(ok) PROVE RegistryInv'
  BY <1>0, <1>10 DEF RegistryInv, TypeOK, NoDuplicates, IsListed, Registering,
                    ListenDbInsert, Touch, ListenGoto, tvars, uvars
<1>11. CASE ListenSend
  BY <1>0, <1>11 DEF RegistryInv, TypeOK, NoDuplicates, IsListed, Registering,
                    ListenSend, ListenDone, mem, tvars, uvars
<1> QED
  BY <1>1, <1>2, <1>3, <1>4, <1>5, <1>6, <1>7, <1>8, <1>9, <1>10, <1>11
  DEF Listen

(* The scan of gather_task keeps it: a thread gets a machine of the list.    *)
LEMMA GatherInv == RegistryInv /\ Gather => RegistryInv'
<1> SUFFICES ASSUME RegistryInv, Gather PROVE RegistryInv'
  OBVIOUS
<1>0. TypeOK'
  BY TypeStep DEF RegistryInv, Next
<1> USE RegistryAssumption DEF RegistryAssumption, Absent
<1>1. CASE GatherStart
  BY <1>0, <1>1 DEF RegistryInv, TypeOK, NoDuplicates, IsListed, Registering,
                    GatherStart, mem, lvars, tvars, uvars
<1>2. ASSUME NEW t \in Thread, GatherSpawn(t) PROVE RegistryInv'
  <2>1. IsListed(machineList[gi])
    BY <1>2 DEF GatherSpawn, IsListed
  <2> QED
    BY <1>0, <1>2, <2>1 DEF RegistryInv, TypeOK, NoDuplicates, IsListed,
                    Registering, GatherSpawn, Touch, lvars, uvars
<1>3. CASE GatherSkip
  BY <1>0, <1>3 DEF RegistryInv, TypeOK, NoDuplicates, IsListed, Registering,
                    GatherSkip, mem, lvars, tvars, uvars
<1>4. CASE GatherDone
  BY <1>0, <1>4 DEF RegistryInv, TypeOK, NoDuplicates, IsListed, Registering,
                    GatherDone, mem, lvars, tvars, uvars
<1> QED
  BY <1>1, <1>2, <1>3, <1>4 DEF Gather

(* The accesses of one handle_gather thread keep it.                         *)
LEMMA ThreadInv ==
    ASSUME NEW t \in Thread, RegistryInv, HandleGather(t)
    PROVE  RegistryInv'
<1>0. TypeOK'
  BY TypeStep DEF RegistryInv, Next
<1>a. UNCHANGED <<machineList, mnameIP, lvars, cutShort, uvars>>
  BY DEF HandleGather, ThreadCheck, ThreadLookup, ThreadReply, ThreadNoReply,
         ThreadFail, ThreadParse, ThreadBlack, ThreadOffline, mem
<1>b. (\A m : IsListed(m)' <=> IsListed(m)) /\ NoDuplicates'
  BY <1>a, SameList DEF RegistryInv, NoDuplicates
<1> USE RegistryAssumption DEF RegistryAssumption, Absent
<1>1. CASE ThreadCheck(t)
  <2>1. \A m \in Machine : /\ blacklist'[m] = 1 => blacklist[m] = 1
                           /\ status'[m] = status[m]
    BY <1>1 DEF RegistryInv, TypeOK, ThreadCheck, Touch
  <2>2. \A r \in Thread : tpc'[r] # "idle" => tmach'[r] = tmach[r] /\ tpc[r] # "idle"
    BY <1>1 DEF RegistryInv, TypeOK, ThreadCheck, ThreadDone, ThreadGoto
  <2>3. status' = status
    BY <1>1 DEF ThreadCheck
  <2> QED
    BY <1>0, <1>a, <1>b, <2>1, <2>2, <2>3 DEF RegistryInv, Registering, lvars, uvars
<1>2. CASE ThreadLookup(t)
  BY <1>0, <1>b, <1>2 DEF RegistryInv, TypeOK, Registering,
                    ThreadLookup, mem, lvars, uvars
<1>3. ASSUME NEW s \in {1, 2}, ThreadReply(t, s) PROVE RegistryInv'
  BY <1>0, <1>b, <1>3 DEF RegistryInv, TypeOK, Registering,
                    ThreadReply, ThreadDone, ThreadGoto, lvars, uvars
<1>4. CASE ThreadNoReply(t)
  BY <1>0, <1>b, <1>4 DEF RegistryInv, TypeOK, Registering,
                    ThreadNoReply, ThreadDone, mem, lvars, uvars
<1>5. CASE ThreadFail(t)
  BY <1>0, <1>b, <1>5 DEF RegistryInv, TypeOK, Registering,
                    ThreadFail, ThreadGoto, mem, lvars, uvars
<1>6. ASSUME NEW recent \in BOOLEAN, ThreadParse(t, recent) PROVE RegistryInv'
  BY <1>0, <1>b, <1>6 DEF RegistryInv, TypeOK, Registering,
                    ThreadParse, ThreadDone, lvars, uvars
<1>7. CASE ThreadBlack(t)
  BY <1>0, <1>b, <1>7 DEF RegistryInv, TypeOK, Registering,
                    ThreadBlack, ThreadGoto, lvars, uvars
<1>8. CASE ThreadOffline(t)
  BY <1>0, <1>b, <1>8 DEF RegistryInv, TypeOK, Registering,
                    ThreadOffline, ThreadDone, lvars, uvars
<1> QED
  BY <1>1, <1>2, <1>3, <1>4, <1>5, <1>6, <1>7, <1>8 DEF HandleGather

(* The accesses of update_mstatus keep it.                                   *)
LEMMA UpdateInv == RegistryInv /\ Update => RegistryInv'
<1> SUFFICES ASSUME RegistryInv, Update PROVE RegistryInv'
  OBVIOUS
<1>0. TypeOK'
  BY TypeStep DEF RegistryInv, Next
<1> USE RegistryAssumption DEF RegistryAssumption, Absent
<1>1. CASE UpdateNext
  BY <1>0, <1>1 DEF RegistryInv, TypeOK, NoDuplicates, IsListed, Registering,
                    UpdateNext, KeysAfter, mem, lvars, tvars
<1>2. CASE UpdateTest
  BY <1>0, <1>2 DEF RegistryInv, TypeOK, NoDuplicates, IsListed, Registering,
                    UpdateTest, mem, lvars, tvars
<1>3. CASE UpdateFix
  BY <1>0, <1>3 DEF RegistryInv, TypeOK, NoDuplicates, IsListed, Registering,
                    UpdateFix, lvars, tvars
<1>4. ASSUME NEW ok \in BOOLEAN, UpdateDb(ok) PROVE RegistryInv'
  BY <1>0, <1>4 DEF RegistryInv, TypeOK, NoDuplicates, IsListed, Registering,
                    UpdateDb, UpdateSelect, UpdateInsert, UpdateRow, mem, lvars,
                    tvars
<1> QED
  BY <1>1, <1>2, <1>3, <1>4 DEF Update

(* Every step keeps it, a stop of the server included.                       *)
LEMMA StepInv == RegistryInv /\ [Next]_vars => RegistryInv'
<1> SUFFICES ASSUME RegistryInv, [Next]_vars PROVE RegistryInv'
  OBVIOUS
<1>0. TypeOK'
  BY TypeStep DEF RegistryInv
<1>1. CASE Stop
  <2>1. \A m : ~IsListed(m)'
    BY <1>1 DEF Stop, IsListed
  <2>2. NoDuplicates'
    BY <1>1 DEF Stop, NoDuplicates
  <2> QED
    BY <1>0, <1>1, <2>1, <2>2 DEF RegistryInv, Stop, ListenDone, Absent
<1>2. CASE Start
  BY <1>0, <1>2 DEF RegistryInv, NoDuplicates, IsListed, Registering, Start, mem,
                    lvars, tvars, uvars
<1>3. CASE UNCHANGED vars
  BY <1>0, <1>3 DEF RegistryInv, NoDuplicates, IsListed, Registering, vars, mem,
                    lvars, tvars, uvars
<1> QED
  BY <1>1, <1>2, <1>3, ListenInv, GatherInv, ThreadInv, UpdateInv DEF Next

(* What the theorems below take from the invariant.                          *)
LEMMA InvImplies ==
    RegistryInv => NoDuplicates /\ AddressKnown /\ OnlyRegisteredTracked
  BY DEF RegistryInv, AddressKnown, OnlyRegisteredTracked, Waiting, InFlight

(* So it holds in every reachable state.                                     *)
LEMMA AlwaysInv == Spec => []RegistryInv
<1> QED
  BY InitInv, StepInv, PTL DEF Spec

(* No call home, race or restart puts a machine on MACHINE_LIST twice.       *)
THEOREM ListHasNoDuplicates == Spec => []NoDuplicates
<1> QED
  BY AlwaysInv, InvImplies, PTL

(* The unchecked MAP_MNAME_IP.find of handle_gather finds an entry except in *)
(* the two windows AddressKnown names.                                       *)
THEOREM LookupMostlySafe == Spec => []AddressKnown
<1> QED
  BY AlwaysInv, InvImplies, PTL

(* Threads, blacklist flags and contact statuses only ever concern listed    *)
(* machines.                                                                 *)
THEOREM OnlyRegistered == Spec => []OnlyRegisteredTracked
<1> QED
  BY AlwaysInv, InvImplies, PTL

----------------------------------------------------------------------------
(* The refinement: a step of the server is, for each machine, a step of its  *)
(* circuit breaker or leaves it alone.                                       *)
BreakerStep(m) == Breaker(m)!Next \/ UNCHANGED Breaker(m)!vars

\* What a step leaves alone, seen from one machine: its flag and its attempts.
SameFlag(m)     == (blacklist[m] = 1)' = (blacklist[m] = 1)
SameInFlight(m) == InFlight(m)' = InFlight(m)

LEMMA BreakerQuiet ==
    ASSUME NEW m \in Machine, SameFlag(m), SameInFlight(m), CallOf(m)' = CallOf(m)
    PROVE  BreakerStep(m)
  BY DEF BreakerStep, Breaker!vars, SameFlag, SameInFlight

\* The listener goes on with a call that was served, or ends it.
LEMMA BreakerServed ==
    ASSUME TypeOK, NEW m \in Machine, SameFlag(m), SameInFlight(m),
           lpc \notin {"accept", "unblack1"},
           (lmach' = lmach /\ lpc' # "unblack1") \/ lmach' = Absent
    PROVE  BreakerStep(m)
<1>1. m # Absent
  BY RegistryAssumption DEF Absent
<1>2. CASE lmach # m \/ lmach' = lmach
  BY <1>1, <1>2, BreakerQuiet DEF CallOf
<1>3. CASE lmach = m /\ lmach' # lmach
  <2>1. CallOf(m) = "served" /\ CallOf(m)' = "none"
    BY <1>1, <1>3 DEF CallOf
  <2> QED
    BY <2>1 DEF BreakerStep, Breaker!Next, Breaker!HangUp, SameFlag, SameInFlight
<1> QED
  BY <1>2, <1>3

LEMMA ListenBreaker ==
    ASSUME RegistryInv, Listen, NEW m \in Machine PROVE BreakerStep(m)
<1>0. TypeOK /\ m # Absent /\ Absent \notin Machine
  BY RegistryAssumption DEF RegistryInv, Absent
<1>1. SameInFlight(m)
  BY DEF Listen, ListenRead, ListenUnblack, ListenAddress, ListenAddressThrows,
         ListenPush, ListenAddrInsert, ListenAddrInsertThrows, ListenBlackInsert,
         ListenDbSelect, ListenDbInsert, ListenSend, tvars, InFlight, SameInFlight
<1>2. ASSUME NEW k \in Machine, NEW a \in Addr, NEW home \in BOOLEAN,
             ListenRead(k, a, home)
      PROVE  BreakerStep(m)
  <2>1. SameFlag(m) /\ lmach = Absent /\ lmach' = k
        /\ lpc' = IF IsListed(k) THEN "unblack1" ELSE "push"
    BY <1>2 DEF ListenRead, mem, SameFlag, RegistryInv
  <2>2. CASE k # m
    <3>1. CallOf(m)' = CallOf(m)
      BY <1>0, <2>1, <2>2 DEF CallOf
    <3> QED
      BY <1>1, <2>1, <3>1, BreakerQuiet
  <2>3. CASE k = m
    <3>1. CallOf(m) = "none" /\ CallOf(m)' \in {"heard", "served"}
      BY <1>0, <2>1, <2>3 DEF CallOf
    <3>2. blacklist[m] = 1 => CallOf(m)' = "heard"
      BY <2>1, <2>3 DEF CallOf, RegistryInv
    <3> QED
      BY <1>1, <2>1, <3>1, <3>2
      DEF BreakerStep, Breaker!Next, Breaker!Call, SameFlag, SameInFlight
  <2> QED
    BY <2>2, <2>3
<1>3. CASE ListenUnblack
  <2>1. lmach' = lmach /\ lmach \in Machine
        /\ blacklist' = [blacklist EXCEPT ![lmach] = 0]
        /\ lpc' \in {"addr1", "addr2"}
    BY <1>0, <1>3 DEF ListenUnblack, ListenGoto, TypeOK
  <2>2. CASE lmach = m
    <3>1. blacklist'[m] # 1
      BY <1>0, <2>1, <2>2 DEF TypeOK
    <3>2. CallOf(m) # "none" /\ CallOf(m)' = "served"
      BY <2>1, <2>2 DEF CallOf
    <3> QED
      BY <1>1, <3>1, <3>2 DEF BreakerStep, Breaker!Next, Breaker!Reset, SameInFlight
  <2>3. CASE lmach # m
    <3>1. SameFlag(m)
      BY <1>0, <2>1, <2>3 DEF TypeOK, SameFlag
    <3>2. CallOf(m)' = CallOf(m)
      BY <2>1, <2>3 DEF CallOf
    <3> QED
      BY <1>1, <3>1, <3>2, BreakerQuiet
  <2> QED
    BY <2>2, <2>3
<1>4. ASSUME ListenAddress \/ ListenAddressThrows \/ ListenPush \/ ListenAddrInsert
             \/ ListenAddrInsertThrows \/ ListenBlackInsert \/ ListenDbSelect
             \/ (\E ok \in BOOLEAN : ListenDbInsert(ok)) \/ ListenSend
      PROVE  BreakerStep(m)
  <2>1. SameFlag(m)
    <3>1. CASE ListenBlackInsert
      BY <1>0, <3>1 DEF ListenBlackInsert, Touch, TypeOK, Absent, SameFlag
    <3>2. CASE blacklist' = blacklist
      BY <3>2 DEF SameFlag
    <3> QED
      BY <1>4, <3>1, <3>2
      DEF ListenAddress, ListenAddressThrows, ListenPush, ListenAddrInsert,
          ListenAddrInsertThrows, ListenDbSelect, ListenDbInsert, ListenSend, mem
  <2>2. /\ lpc \notin {"accept", "unblack1"}
        /\ (lmach' = lmach /\ lpc' # "unblack1") \/ lmach' = Absent
    BY <1>4
    DEF ListenAddress, ListenAddressThrows, ListenPush, ListenAddrInsert,
        ListenAddrInsertThrows, ListenBlackInsert, ListenDbSelect, ListenDbInsert,
        ListenSend, ListenGoto, ListenDone
  <2> QED
    BY <1>0, <1>1, <2>1, <2>2, BreakerServed
<1> QED
  BY <1>2, <1>3, <1>4 DEF Listen

LEMMA GatherBreaker ==
    ASSUME TypeOK, Gather, NEW m \in Machine PROVE BreakerStep(m)
<1>1. SameFlag(m)
  BY DEF Gather, GatherStart, GatherSpawn, GatherSkip, GatherDone, mem, Touch,
         TypeOK, Absent, SameFlag
<1>2. SameInFlight(m)
  BY DEF Gather, GatherStart, GatherSpawn, GatherSkip, GatherDone, tvars, TypeOK,
         InFlight, SameInFlight
<1>3. CallOf(m)' = CallOf(m)
  BY DEF Gather, GatherStart, GatherSpawn, GatherSkip, GatherDone, lvars, CallOf
<1> QED
  BY <1>1, <1>2, <1>3, BreakerQuiet

LEMMA ThreadBreaker ==
    ASSUME TypeOK, NEW t \in Thread, HandleGather(t), NEW m \in Machine
    PROVE  BreakerStep(m)
<1>a. CallOf(m)' = CallOf(m)
  BY DEF HandleGather, ThreadCheck, ThreadLookup, ThreadReply, ThreadNoReply,
         ThreadFail, ThreadParse, ThreadBlack, ThreadOffline, lvars, CallOf
<1> USE DEF TypeOK, InFlight, Absent, SameFlag, SameInFlight
<1>1. CASE ThreadCheck(t)
  <2>1. blacklist[m] = 1 <=> blacklist'[m] = 1
    BY <1>1 DEF ThreadCheck, Touch
  <2>2. CASE tmach[t] = m /\ tpc'[t] = "lookup"
    <3>1. blacklist[m] # 1
      BY <1>1, <2>2 DEF ThreadCheck, Touch, ThreadDone
    <3>2. t \notin InFlight(m) /\ InFlight(m)' = InFlight(m) \union {t}
      BY <1>1, <2>2 DEF ThreadCheck, ThreadGoto, ThreadDone
    <3> QED
      BY <1>a, <2>1, <3>1, <3>2 DEF BreakerStep, Breaker!Next, Breaker!Admit
  <2>3. CASE ~(tmach[t] = m /\ tpc'[t] = "lookup")
    <3>1. InFlight(m)' = InFlight(m)
      BY <1>1, <2>3 DEF ThreadCheck, ThreadGoto, ThreadDone
    <3> QED
      BY <2>1, <3>1, <1>a, BreakerQuiet
  <2> QED
    BY <2>2, <2>3
<1>2. ASSUME blacklist' = blacklist, tpc[t] \notin {"idle", "check"}, ThreadDone(t)
      PROVE  BreakerStep(m)
  <2>1. CASE tmach[t] = m
    <3>1. t \in InFlight(m) /\ InFlight(m)' = InFlight(m) \ {t}
      BY <1>2, <2>1 DEF ThreadDone
    <3> QED
      BY <1>a, <1>2, <3>1 DEF BreakerStep, Breaker!Next, Breaker!Finish
  <2>2. CASE tmach[t] # m
    <3>1. InFlight(m)' = InFlight(m)
      BY <1>2, <2>2 DEF ThreadDone
    <3> QED
      BY <1>2, <3>1, <1>a, BreakerQuiet
  <2> QED
    BY <2>1, <2>2
<1>3. ASSUME blacklist' = blacklist, tpc[t] \notin {"idle", "check"}, tmach' = tmach,
             NEW pc \in {"contact", "parse", "black"},
             tpc' = [tpc EXCEPT ![t] = pc]
      PROVE  BreakerStep(m)
  <2>1. InFlight(m)' = InFlight(m)
    BY <1>3
  <2> QED
    BY <1>3, <2>1, <1>a, BreakerQuiet
<1>4. CASE ThreadBlack(t)
  <2>1. InFlight(m)' = InFlight(m)
    BY <1>4 DEF ThreadBlack, ThreadGoto
  <2>2. CASE tmach[t] = m
    <3>1. t \in InFlight(m) /\ blacklist'[m] = 1
      BY <1>4, <2>2 DEF ThreadBlack
    <3> QED
      BY <1>a, <2>1, <3>1 DEF BreakerStep, Breaker!Next, Breaker!Trip
  <2>3. CASE tmach[t] # m
    <3>1. blacklist'[m] = blacklist[m]
      BY <1>4, <2>3 DEF ThreadBlack
    <3> QED
      BY <2>1, <3>1, <1>a, BreakerQuiet
  <2> QED
    BY <2>2, <2>3
<1> QED
  BY <1>1, <1>2, <1>3, <1>4
  DEF HandleGather, ThreadLookup, ThreadReply, ThreadNoReply, ThreadFail,
      ThreadParse, ThreadOffline, ThreadGoto, mem

LEMMA UpdateBreaker ==
    ASSUME TypeOK, Update, NEW m \in Machine PROVE BreakerStep(m)
<1>1. UNCHANGED <<blacklist, tpc, tmach, lpc, lmach>>
  BY DEF Update, UpdateNext, UpdateTest, UpdateFix, UpdateDb, UpdateSelect,
         UpdateInsert, UpdateRow, mem, tvars, lvars
<1> QED
  BY <1>1, BreakerQuiet DEF InFlight, CallOf, SameFlag, SameInFlight

LEMMA ProcessBreaker ==
    ASSUME TypeOK, Stop \/ Start \/ UNCHANGED vars, NEW m \in Machine
    PROVE  BreakerStep(m)
<1>1. CASE Stop
  <2>1. blacklist'[m] # 1 /\ InFlight(m)' = {} /\ CallOf(m)' = "none"
    BY <1>1, RegistryAssumption DEF Stop, ListenDone, InFlight, CallOf, Absent
  <2> QED
    BY <2>1 DEF BreakerStep, Breaker!Next, Breaker!Restart
<1>2. CASE Start \/ UNCHANGED vars
  BY <1>2, BreakerQuiet
  DEF Start, vars, mem, tvars, lvars, InFlight, CallOf, SameFlag, SameInFlight
<1> QED
  BY <1>1, <1>2

(* For every number of machines and of overlapping handlers, the blacklist   *)
(* of each machine is a circuit breaker that only the machine's own calls,   *)
(* and all of them, close.                                                   *)
THEOREM BlacklistIsBreaker == Spec => BreakerImplemented
<1>1. Init => \A m \in Machine : Breaker(m)!Init
  <2> SUFFICES ASSUME Init, NEW m \in Machine PROVE Breaker(m)!Init
    OBVIOUS
  <2>1. InFlight(m) = {}
    BY DEF Init, InFlight
  <2>2. (blacklist[m] = 1) = FALSE
    BY DEF Init, Absent
  <2>3. CallOf(m) = "none"
    BY RegistryAssumption DEF Init, CallOf, Absent
  <2> QED
    BY <2>1, <2>2, <2>3 DEF Breaker!Init
<1>2. RegistryInv /\ [Next]_vars =>
        \A m \in Machine : Breaker(m)!Next \/ UNCHANGED Breaker(m)!vars
  BY ListenBreaker, GatherBreaker, ThreadBreaker, UpdateBreaker, ProcessBreaker
  DEF Next, BreakerStep, RegistryInv
<1> QED
  BY <1>1, <1>2, AlwaysInv, PTL DEF Spec, BreakerImplemented
=============================================================================
