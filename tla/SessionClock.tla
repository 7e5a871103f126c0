---------------------------- MODULE SessionClock ----------------------------
(* What a client does by the clock (linux_client/client.cpp): the passes of  *)
(* gather_data, which look up the scripts of the minute, see who is logged   *)
(* in and then gather until a minute ends, and display_linux_msgbox, which   *)
(* samples currentUsers once a minute and warns guests of their limit.  The  *)
(* two threads share currentUsers without a lock, empty between              *)
(* resource_cleanup and the next logged_in, and the static buffer localtime  *)
(* returns.  A tick is a second of the code, with fewer of them to a minute; *)
(* a thread never sleeps over its time.                                      *)
EXTENDS Naturals, Sequences

CONSTANTS User, Guest,    \* accounts; those with a limit (^gp)
          Nobody,
          Minute, Hours,  \* ticks in a minute; minutes in a day
          Days,           \* days in a week
          Limit, Warn15, Warn5, Warn1, \* 7200, 900, 300 and 60
          Script, Configs,\* scripts; bound: configurations tried
          Missing,        \* a <time> that does not parse
          RunTime,        \* bound: ticks a script takes
          Horizon         \* bound: ticks of a behaviour

ASSUME SessionClockAssumption ==
    /\ Guest \subseteq User /\ Nobody \notin User
    /\ {Minute, Hours, Days} \subseteq Nat \ {0} /\ Minute > 2
    /\ {Limit, Warn15, Warn5, Warn1, RunTime, Horizon} \subseteq Nat
    /\ Warn1 < Warn5 /\ Warn5 < Warn15 /\ Warn15 < Limit
    /\ Minute <= Warn1 /\ Minute + Warn1 < Warn5 /\ Minute + Warn5 < Warn15
    /\ Missing \notin Nat
    /\ \A c \in Configs : \A s \in DOMAIN c :
          s \in Script /\ c[s] \in Seq((0..Days) \X ((0..Hours - 1) \union {Missing}))

VARIABLES
    now, user,    \* the clock; who is logged in
    table,        \* SCRIPTS2: the minute of each script on each day
    runs,         \* times each script was started this minute, up to 2
    gpc, until,   \* gather_data's next step, and when it can go on
    began,        \* when its pass began, then when its cycle did
    looked, idle, \* when its pass took the time; the last found nobody
    left,         \* scripts that execute_script still has to compare
    tm,           \* the minute in localtime's buffer, while they are compared
    misread,      \* scripts this pass compared with another minute than its own
    seen,         \* currentUsers
    wake,         \* when display_linux_msgbox polls next
    opening,      \* the guest whose message waits in open(), or Nobody
    flags,        \* which of fifteen, five, one are TRUE
    since,        \* GUEST_EXPIRATION, 0 for no entry (times are from 1)
    turns,        \* the messages whose turn came, for each guest
    shown,        \* those of them that left the program
    clean         \* guests that every sample since their entry has found

gvars == <<table, runs, gpc, until, began, looked, idle, left, misread>>
mvars == <<wake, opening, flags, since, turns, shown, clean>>
vars  == <<now, user, gvars, tm, seen, mvars>>

----------------------------------------------------------------------------
(* main: the <script> elements of the configuration.                         *)

\* Day 0 sets every day, another day itself; an index past the week, or a time
\* that is not there, throws.
Bad(times) == \E k \in DOMAIN times : times[k][1] = Days \/ times[k][2] = Missing

\* "0:00" until an entry says otherwise; the last entry for a day counts.
OnDay(times, d) ==
    LET For == {k \in DOMAIN times : times[k][1] \in {0, d}}
    IN  IF For = {} THEN 0 ELSE times[CHOOSE k \in For : \A j \in For : j <= k][2]

\* SCRIPTS2 is assigned when all are read, so one exception leaves it empty.
Load(config) ==
    IF \E s \in DOMAIN config : Bad(config[s]) THEN <<>>
    ELSE [s \in DOMAIN config |-> [d \in 0..Days - 1 |-> OnDay(config[s], d)]]

\* main waits for a new minute; ticks are counted from one.
Init ==
    /\ now = Minute /\ user = Nobody /\ seen = Nobody
    /\ \E config \in Configs : table = Load(config)
    /\ runs = [s \in Script |-> 0]
    /\ gpc = "script" /\ until = now /\ began = now /\ looked = 0 /\ idle = TRUE
    /\ left = {} /\ misread = {} /\ tm = 0
    /\ wake = now /\ opening = Nobody /\ flags = {}
    /\ since = [g \in Guest |-> 0]
    /\ turns = [g \in Guest |-> <<>>] /\ shown = [g \in Guest |-> {}] /\ clean = {}

----------------------------------------------------------------------------
(* gather_data *)
Second(t) == t % Minute
MinuteOf(t) == t \div Minute
Weekday(m) == (m \div Hours) % Days
Due(s, m)  == s \in DOMAIN table /\ table[s][Weekday(m)] = m % Hours

\* execute_script takes the time: a pointer to localtime's buffer.
TakeTime ==
    /\ gpc = "script" /\ until = now
    /\ gpc' = "compare" /\ looked' = now /\ tm' = MinuteOf(now)
    /\ left' = DOMAIN table /\ misread' = {}
    /\ UNCHANGED <<now, user, table, runs, until, began, idle, seen, mvars>>

\* One script after the other is compared with what the buffer holds by then,
\* and waited for if it is started.
CompareScript(s) ==
    /\ gpc = "compare" /\ until = now /\ s \in left
    /\ left' = left \ {s}
    /\ misread' = IF tm = MinuteOf(looked) THEN misread ELSE misread \union {s}
    /\ runs' = IF Due(s, tm) /\ runs[s] < 2 THEN [runs EXCEPT ![s] = @ + 1] ELSE runs
    /\ \E r \in IF Due(s, tm) THEN 0..RunTime ELSE {0} : until' = now + r
    /\ UNCHANGED <<now, user, table, gpc, began, looked, idle, tm, seen, mvars>>

ExecuteScript == TakeTime \/ \E s \in Script : CompareScript(s)

\* Mutant: the wait ends at second 0 even if the cycle began in it.
CycleEndsAtOnce(t) == {IF Second(t) = 0 THEN t ELSE t + Minute - Second(t)}

\* Mutant: t + 60.
CycleEndsLater(t) ==
    {t + Minute - Second(t) + (IF Second(t) > 0 THEN Minute ELSE 0)}

\* Mutant: t is the time the scripts were looked up at.
CycleEndsStale(t) == {looked + Minute - Second(looked)}

\* A pass of the loop waits for second 0, and there is another one unless t + 59
\* has come.  A cycle that began in second 2 finds itself a second short of it
\* and goes round in second 0 until it has, or until the clock, read once more
\* in second 1, makes it wait for another minute.
CycleEnds(t) ==
    CASE Second(t) <= 1 -> {t + Minute - Second(t)}
      [] Second(t) = 2  -> {t + Minute - 1, t + 2 * Minute - 2}
      [] Second(t) > 2  -> {t + 2 * Minute - Second(t)}

\* logged_in fills currentUsers.  With nobody there the loop does not sleep: its
\* many passes in a tick are one here.
Login ==
    /\ gpc = "compare" /\ left = {} /\ until = now
    /\ seen' = user
    /\ idle' = (user = Nobody)
    /\ began' = now
    /\ until' \in IF user = Nobody THEN {now} ELSE CycleEnds(now)
    /\ gpc' = "cycle" /\ tm' = 0
    /\ UNCHANGED <<now, user, table, runs, looked, left, misread, mvars>>

\* The event is made (ClientOutbox) and resource_cleanup clears currentUsers.
EndCycle ==
    /\ gpc = "cycle" /\ until = now
    /\ seen' = Nobody
    /\ until' = IF idle THEN now + 1 ELSE now
    /\ gpc' = "script"
    /\ UNCHANGED <<now, user, table, runs, began, looked, idle, left, tm, misread, mvars>>

GatherData == ExecuteScript \/ Login \/ EndCycle

----------------------------------------------------------------------------
(* display_linux_msgbox *)
Between(t, x, y) == t + (Limit - x) <= now /\ now <= t + (Limit - y)

\* Mutant: the windows have no end.
StageMutant(t) ==
    CASE 15 \notin flags /\ t + (Limit - Warn15) <= now -> 15
      [] 15 \in flags /\ 5 \notin flags /\ Between(t, Warn5, Warn1) -> 5
      [] {15, 5} \subseteq flags /\ 1 \notin flags /\ Between(t, Warn1, 0) -> 1
      [] {15, 5, 1} \subseteq flags /\ t + Limit <= now -> 0
      [] OTHER -> Missing

\* Mutant: the last window does not hold its own beginning.
StageOpen(t) ==
    CASE 15 \notin flags /\ Between(t, Warn15, Warn5) -> 15
      [] 15 \in flags /\ 5 \notin flags /\ Between(t, Warn5, Warn1) -> 5
      [] {15, 5} \subseteq flags /\ 1 \notin flags /\ Between(t, Warn1, 0)
           /\ now # t + (Limit - Warn1) -> 1
      [] {15, 5, 1} \subseteq flags /\ t + Limit <= now -> 0
      [] OTHER -> Missing

\* The message that is due, 0 for the expiry.  The first window that holds
\* counts (a CASE takes the branches in any order, but no two of these overlap).
Stage(t) ==
    CASE 15 \notin flags /\ Between(t, Warn15, Warn5) -> 15
      [] 15 \in flags /\ 5 \notin flags /\ Between(t, Warn5, Warn1) -> 5
      [] {15, 5} \subseteq flags /\ 1 \notin flags /\ Between(t, Warn1, 0) -> 1
      [] {15, 5, 1} \subseteq flags /\ t + Limit <= now -> 0
      [] OTHER -> Missing

Sleep(d) == wake' = now + d

\* localtime(t) by another thread than gather_data's.
PutTime(t) == tm' = IF gpc = "compare" THEN MinuteOf(t) ELSE tm

\* No one in currentUsers: the flags are reset.
PollEmpty ==
    /\ opening = Nobody /\ wake = now /\ seen = Nobody
    /\ flags' = {} /\ clean' = {}
    /\ \E late \in 0..1 : Sleep(Minute + 1 + late)
    /\ UNCHANGED <<now, user, gvars, tm, seen, opening, since, turns, shown>>

\* An account without a limit, or currentUsers is cleared between the look at
\* its size and the look at the user.
PollOther ==
    /\ opening = Nobody /\ wake = now
    /\ \/ seen \in User \ Guest
       \/ seen = Nobody /\ gpc = "script" /\ until = now /\ ~idle
    /\ clean' = {}
    /\ \E late \in 0..1 : Sleep(Minute + late)
    /\ UNCHANGED <<now, user, gvars, tm, seen, opening, flags, since, turns, shown>>

\* The first sample of a guest makes the entry, which is never erased.
PollFirst(g) ==
    /\ opening = Nobody /\ wake = now /\ seen = g /\ since[g] = 0
    /\ since' = [since EXCEPT ![g] = now]
    /\ clean' = IF flags = {} THEN {g} ELSE {}
    /\ \E late \in 0..1 : Sleep(Minute + late)
    /\ UNCHANGED <<now, user, gvars, tm, seen, opening, flags, turns, shown>>

\* A later one finds whose turn it is.  The first message goes to a FIFO that
\* open() waits on until it has a reader, and is dropped if there is a file of
\* that name already.  The others are written to what mkfifo returned, which
\* nobody reads.  Their texts name a time to come, through localtime's buffer.
\* kick_expired_accounts does nothing on Linux, and the flags are reset.
PollAgain(g) ==
    /\ opening = Nobody /\ wake = now /\ seen = g /\ since[g] # 0
    /\ LET m == Stage(since[g]) IN
       /\ turns' = IF m = Missing THEN turns ELSE [turns EXCEPT ![g] = Append(@, m)]
       /\ flags' = IF m = Missing THEN flags ELSE IF m = 0 THEN {} ELSE flags \union {m}
       /\ opening' \in IF m = 15 THEN {Nobody, g} ELSE {Nobody}
       /\ CASE m = 5 -> PutTime(now + Warn5)
            [] m = 1 -> PutTime(now + Warn1)
            [] OTHER -> UNCHANGED tm
    /\ clean' = clean \intersect {g}
    /\ \E late \in 0..1 : Sleep(Minute + late)
    /\ UNCHANGED <<now, user, gvars, seen, since, shown>>

\* The session message reader opens the FIFO.
Opened ==
    /\ opening # Nobody
    /\ opening' = Nobody /\ shown' = [shown EXCEPT ![opening] = @ \union {15}]
    /\ PutTime(now + Warn15)
    /\ \E late \in 0..1 : Sleep(Minute + late)
    /\ UNCHANGED <<now, user, gvars, seen, flags, since, turns, clean>>

MsgBox == PollEmpty \/ PollOther \/ Opened
          \/ \E g \in Guest : PollFirst(g) \/ PollAgain(g)

----------------------------------------------------------------------------
Log(u) ==
    /\ user' = u /\ u # user /\ (u = Nobody \/ user = Nobody)
    /\ UNCHANGED <<now, gvars, tm, seen, mvars>>

\* Another thread, or a script's own time, has localtime write the present.
OtherTime ==
    /\ left # {} /\ tm # MinuteOf(now)
    /\ PutTime(now)
    /\ UNCHANGED <<now, user, gvars, seen, mvars>>

\* A tick passes when neither thread has anything left to do in this one.  Those
\* that spend it in open() miss their sample.
Tick ==
    /\ now < Horizon
    /\ until > now /\ (opening # Nobody \/ wake > now)
    /\ now' = now + 1
    /\ runs' = IF Second(now') = 0 THEN [s \in Script |-> 0] ELSE runs
    /\ clean' = IF opening = Nobody THEN clean ELSE {}
    /\ UNCHANGED <<user, table, gpc, until, began, looked, idle, left, tm, misread,
                   seen, wake, opening, flags, since, turns, shown>>

Next ==
    \/ GatherData \/ MsgBox \/ OtherTime
    \/ (\E u \in User \union {Nobody} : Log(u)) \/ Tick

Spec == Init /\ [][Next]_vars

----------------------------------------------------------------------------
(* Properties. *)

\* The domain of every variable that changes; nobody sleeps past the time.
TypeOK ==
    /\ now \in Nat \ {0} /\ user \in User \union {Nobody} /\ seen \in User \union {Nobody}
    /\ runs \in [Script -> 0..2]
    /\ gpc \in {"script", "compare", "cycle"}
    /\ until \in Nat /\ until >= now
    /\ began \in 0..now /\ looked \in 0..now /\ idle \in BOOLEAN
    /\ left \subseteq Script /\ tm \in Nat /\ misread \subseteq Script
    /\ opening \in Guest \union {Nobody}
    /\ wake \in Nat /\ (opening = Nobody => wake >= now)
    /\ flags \subseteq {15, 5, 1} /\ clean \subseteq Guest
    /\ since \in [Guest -> 0..now] /\ turns \in [Guest -> Seq({15, 5, 1, 0})]
    /\ shown \in [Guest -> SUBSET {15, 5, 1, 0}]

\* A pass that got to its cycle within the first two seconds of the minute whose
\* scripts it looked for, and read that minute for each of them, never makes the
\* next minute's scripts be missed: if a script's minute ends without it, the
\* pass over it began later, a script took it past the minute, or another thread
\* had put a time of its own into the buffer.
Prompt == gpc # "compare" /\ MinuteOf(began) = MinuteOf(looked) /\ Second(began) <= 1
MissedOnlyWhenLate ==
    [][now' # now /\ Second(now') = 0 =>
          \A s \in Script : Due(s, MinuteOf(now)) /\ runs[s] = 0 =>
              ~Prompt \/ s \in misread]_vars

\* While someone is logged in no script is started twice in a minute, whatever
\* is in the buffer.
OnceWhileLoggedIn ==
    [][\A s \in Script : runs[s] = 1 /\ runs'[s] = 2 => idle]_vars

\* The windows are wide enough for a poll a minute: for a guest whom every sample
\* found the turn of all four messages comes, in order, and that of the last
\* within a poll of the limit.  Not that they are shown: see WarningsShown.
EveryTurnComes ==
    \A g \in clean :
        now > since[g] + Limit + Minute + 1 => turns[g] = <<15, 5, 1, 0>>

\* After the turn of its expiry message an account is not warned again, even
\* when it comes back and finds the flags of another guest: its entry is never
\* erased and all windows are over.
ExpiryIsLast ==
    \A g \in Guest : \A k, j \in DOMAIN turns[g] :
        turns[g][k] = 0 /\ k < j => turns[g][j] = 0

\* The comment on display_linux_msgbox: "A message will be displayed to the user
\* informing them of an impending forced logout at specifed time intervals from
\* their expiration time (15 min, 5 min, 1 min, etc)".  A guest with a reader,
\* whom the first message reached, is shown each message when its turn comes.
WarningsShown ==
    \A g \in Guest : 15 \in shown[g] =>
        \A k \in DOMAIN turns[g] : turns[g][k] \in shown[g]
=============================================================================
