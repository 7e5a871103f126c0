# A TLA+ model of Monitoring-Client

Monitoring-Client records which programs people use on the machines of a
campus. Every machine runs a client; one server asks all clients once a minute
and stores their events in MySQL. Both are C++ programs whose threads share
containers with few locks. This directory models those threads, checks the
models with TLC and proves theorems about them with TLAPS.

Paths below are relative to `src/`. `server` is `server/main.cpp`, `client` is
`linux_client/client.cpp`.

## 1. Inventory

### Server

| part | state | operations | what makes it correct |
|---|---|---|---|
| registry | `MACHINE_LIST`, `MAP_MNAME_IP`, `BLACKLIST`, `MAP_MNAME_STATUS` (101-104), no lock | accessed by the next four parts | no duplicates; every listed machine has an address; the blacklist stops and resumes contact; statuses only of registered machines |
| listener | one connection at a time (`listen_task` joins `handle_listen`) | a machine calls home: look up, unblacklist, store address, or register; insert its row; send the program list | registration and contact interleave safely |
| gatherer | position of the scan | `gather_task`: once a minute, one `handle_gather` thread per machine not blacklisted | every listed machine is reached |
| handler | machine, address | `handle_gather`: check the blacklist, find the address, connect, read the reply, set the status or blacklist | overlapping handlers of one machine do no harm |
| updater | map iterator | `update_mstatus`: copies statuses to the table `machine` | every status reaches its row |
| parser | event being split | `parse_event_block` pushes events onto `EVENTS_TO_UPLOAD` under `event_mutex` | no event is lost or doubled |
| uploader | `user_id`, `machine_id`, connection | `upload_task`: pop the newest event, find or insert its user, find its machine, insert the event | a row belongs to its event's user and machine; the vector drains |
| program list setup | `windows_list`, `linux_list` | `current_prog_setup`, once at start, one query per bit position | positions agree with the database, also when a query fails |
| start-up | configuration | `main`, `config`, `init`, `run_server` | |

### Client

| part | state | operations | what makes it correct |
|---|---|---|---|
| gatherer | `EVENTS`, `LOGGED_IN`, `currentUsers`, `CURRENT_EVENT_BLOCK` | `gather_data`: one event per minute in which somebody is logged in | an event is sent once or lost, unless another was lost in its stead |
| listener | connection | `listen_thread`: on request '2' sends and empties `EVENTS`, or makes a partial event | the same |
| call home | `LAST_SERVER_COMMUNICATION`, `NEVER_CONTACTED_SERVER` | `call_home_task`: calls when the server was silent too long, receives a program list | the client is found again after a server restart |
| program list | the list file, `PROGRAM_LIST`, `PROGRAM_COUNT`, `pf_mutex` | `write_program_file`, `set_program_list`, `tally_program_count` | a bit of an event stands for the program at its position |
| frame and tally | none | `build_event`, `tally_program_count`, `get_rounded_timestamp` | the server's parser inverts `build_event` |
| guest sessions, message boxes | `GUEST_EXPIRATION`, the flags `fifteen`, `five`, `one` | `display_linux_msgbox`: once a minute a look at `currentUsers`, and the message that is due | a guest is shown every message, in order, and none after the expiry |
| scripts | `SCRIPTS2` | the script section of `main`, `execute_script` in each pass of `gather_data` | a script runs once at its time |
| supervision | `L_RUNNING` | `run_tasks` starts the threads, `listen_thread_starter` restarts the listener | |

Around them: two older Windows forks of the client and their service wrapper, an
older copy of the server (`linux_install/main.cpp`), a reader of session
messages, an installer, init scripts, the database schema and vendored
libraries (Boost, MySQL++, threadpool).

### How the parts interact

A client calls the server (message '1', its OS and its name); the server
registers it and answers with the program list. Once a minute the server
connects to the client, sends '2', and reads events until the client closes the
connection; the answer '8' means nobody is logged in. The listener, the
gatherer, the handlers and the updater share the four registry maps. Handlers
and the uploader share `EVENTS_TO_UPLOAD`. In the client, the gatherer and the
listener share `EVENTS`, the gatherer and the call-home thread the program list,
the gatherer and the message boxes `currentUsers`.

### What is hard

* The threads interleave between any two accesses: the registry and `EVENTS`
  have no lock (the mutex in `listen_thread` is a local variable), and
  `event_mutex` and `pf_mutex` have one.
* Look-ups and the actions based on them are apart: `find` and `push_back`,
  `empty` and `clear`, the blacklist check and the connect, the SELECT and the
  INSERT.
* Partial failure: `remote_endpoint()` throws half-way through a registration,
  any SQL statement can fail, a write to a socket can fail unnoticed, `fopen`
  can fail with the mutex locked.
* Both programs keep their state in memory only and may be restarted. Neither
  reads with a timeout, and the listener serves one connection at a time.
* A reply is many frames without separators: the parser finds its place in one
  frame by the lengths in the one before, wherever the connection broke.
* Two clocks in one client: cycles that end with a minute and polls that sleep
  for one.
* Uninitialized and stale values: `machine_id`, `CURRENT_EVENT_BLOCK`,
  `PROGRAM_LIST`, and the buffer of `localtime`, which all threads of a client
  share and one of them reads again after minutes.

`PROJECT.json` lists each hazard at its line with the properties about it.

## 2. Modules

| module | models | kind |
|---|---|---|
| `MachineRegistry` | registry, listener, gatherer, handler, updater of the server | detailed |
| `ContactBreaker` | what the blacklist promises for one machine | abstract |
| `ClientOutbox` | gatherer and listener of the client, connection, received events, event table | detailed |
| `EventUpload` | parser's push, uploader, tables of the database | detailed |
| `EventLife` | the life of one event, target of both `ClientOutbox` and `EventUpload` | abstract |
| `ProgramList` | call-home's write and load, gatherer's load and tally, the list file | detailed |
| `ProgramSetup` | the server's setup of the Linux list, its text on the wire, the client's split; extends `ProgramList` | composition |
| `CallHome` | the client's call-home thread with the server's listener, registry and contacts, restarts and vanishing hosts on both sides | composition |
| `EventStream` | `build_event`, the order of a reply, the server's parser | detailed |
| `SessionClock` | scripts, cycles and message boxes of a client against one clock | detailed |
| `MCMachineRegistry`, `MCClientOutbox`, `MCEventUpload`, `MCProgramList`, `MCCallHome`, `MCEventStream`, `MCSessionClock` | small instances | TLC |
| `MachineRegistryProofs`, `ClientOutboxProofs`, `EventUploadProofs`, `ProgramListProofs`, `CallHomeProofs`, `EventStreamProofs`, `SessionClockProofs` | theorems | TLAPS |
| `SequenceLemmas` | lemmas about flattened sequences and prefixes | TLAPS |

Mutants (operators named `...Mutant`, or saying "Mutant" in their comment) stand
next to the definition they alter. They are plausible bugs that show the
properties have teeth; no specification uses them.

### MachineRegistry

One action is one access to a shared container, in the order of the code.
`lpc`, `tpc[t]`, `gi` and `upc` are the places of the listener, of each handler,
of the scan and of the updater.

* `handle_listen`: `ListenRead` (accept, read, look up), then for a listed
  machine `ListenUnblack`, `ListenAddress` once, and again when the flag is
  '1'; for a new one `ListenPush`, `ListenAddrInsert`, `ListenBlackInsert`,
  `ListenDbSelect`, `ListenDbInsert`; `ListenSend` at the end.
  `ListenAddressThrows` and `ListenAddrInsertThrows` are the throwing
  `remote_endpoint()`.
* `gather_task`: `GatherStart`, `GatherSpawn`, `GatherSkip`, `GatherDone`.
* `handle_gather`: `ThreadCheck`, `ThreadLookup`, then one of `ThreadReply` (and
  `ThreadParse`), `ThreadNoReply`, `ThreadFail` (and `ThreadBlack`,
  `ThreadOffline`).
* `update_mstatus`: `UpdateNext`, `UpdateTest`, `UpdateFix`, `UpdateSelect`,
  `UpdateInsert`, `UpdateRow`.
* `Stop` and `Start`: memory is lost, the database stays.

`map[key]` creates a missing key with 0 (`Touch`), `insert` does not overwrite.
Reading through `find() == end()` yields the address `Blank`. A data race on a
container is the unspecified outcome of one access, or the end of the process
(`Stop`); a torn container that goes on living is not modelled, in particular a
scan that goes on in the old elements of a vector that has moved (server:876).
Machines are numbers because `update_mstatus` walks the map in key order; 0 is
the empty name of a two-character message.

`ContactBreaker` has the machine's own calls as a variable: `call` is "heard"
from a call's arrival until the flag has been down, and then "served" until the
call ends. It can be reset only during a call, and a call can end only when
served; so the refinement (`CallOf` reads the call off the listener's place)
fails if anything but the listener, serving that machine, takes the flag down,
and also if the listener leaves a call without having done so. What it permits:
a handler admitted before may raise the flag again during the call or after it.
Then the machine is left alone until its next call, and `insert` (server:698)
does not change that for a new machine.

### ClientOutbox

The clock counts minutes. `gather_data` is `GatherLogin`, `GatherPoll`,
`GatherBuild` (the frame gets the minute the cycle ended in), `GatherPush`,
`GatherCleanup`. `listen_thread` is `ListenRequest`, `ListenSort`, then
`ListenCurrent` (empty vector: a partial event) or `ListenBack`, `ListenPop`,
`ListenWrite` until `ListenDrained`, and `ListenClear`. `events` is a sequence,
because `line = EVENTS.back()` (client:1160) and `EVENTS.pop_back()` (1161) are
two accesses, and `mtx` is local to the thread: after a `push_back` (928) in
between, the event just read stays in the vector and is sent again, and the new
one is taken out unread (`lost`, `again`). The sort leaves any order, as the
texts are not followed; `unique` finds nothing, since no two events have a
timestamp in common. Each access to the vector is one step, and the sort and the
erase (1145-1146) are one together: a push that overlaps with an access inside
the library, or that falls between the two `end()` of line 1146, which g++
evaluates from the right, is undefined, and has in the model the outcomes of one
after the other, or `Crash`. `Break` cuts the connection and
delivers any part of what was written; `Crash` loses the client's memory;
`Upload` inserts into the table with its UNIQUE key. A frame is its timestamp,
whether it is full or partial, and which copy of its event it is. Two
restarts within a minute rebuild no event: `main` waits for a new minute, and the
model's cycle ends in a later minute than it began.

`EventLife` has the place of each event, which only moves forward (`Build`,
`Send`, `Store`, `Reject`, `Lose`). Its step `Overtake` is the race above: one
event is lost, another of those held stays held and joins `again`. An event in
`again` may have copies further on, and its place is the rearmost of them.

### EventUpload

`ParseEvent`/`PushEvent` are the parser, `UploadLock` ... `UploadInsertEvent` the
uploader, one action per statement, each with an argument that says whether the
statement succeeds. `Finish` ends the iteration and drops the scoped lock.
`user_id` and `machine_id` are declared without a value in the loop, so what
they hold at the start of an iteration is left from an earlier one or arbitrary
(`NoId`). A statement that failed leaves its text in the query object and spoils
those appended to it, so the event is given up (`GiveUp`). `connected()` only
says that `connect()` succeeded once, so `session` may be "lost" for good and
the loop goes on giving events up; with "none" it spins. A user name longer
than the column (`LongUser`) is stored cut off and no SELECT finds it.

### ProgramList

`SetLock`, `SetFail`, `SetRead`, `SetCount` are `linux_set_program_list`, run by
the gatherer when no program is counted and by the call-home thread after each
list. `HomeReceive`, `HomeOpen`, and then `WriteList` (`HomeLock`, `HomeFlush`,
`HomeClose`) are `call_home_task` with a list in hand and `write_program_file`.
`GatherBegin`, `GatherPoll`, `GatherEnd` are a cycle of `gather_data` with
`tally_program_count`. The file is a sequence of cells, a program name or a
newline (`Text` writes a list, `Lines` reads one), so that writing a list over a
longer one leaves what it leaves in the code: the tail of the old one. Names all
take one cell, so a name cut in the middle does not occur. A file smaller than
the stream's buffer is written at once (`HomeClose`), a larger one in two parts
(`HomeFlush`, `HomeClose`). `SetFail` needs a missing file: `P_FILE`
(client:2369) points into a temporary string, and the installer has to copy the
file. Request '1' of `listen_thread` rewrites the file without the mutex; nothing
in the repository sends it, and it is left out.

### ProgramSetup

The lists `ProgramList` receives, made from a table of programs. `linux_list` is
`current_prog_setup` (server:1207): one query per bit, a blank entry before each
query, so a failing one leaves the rest blank until the server restarts. Of
several Linux rows of a bit the last counts; a secondary process is paired with
`_wpname`, whatever the row before left there. `Joined` is the loop of
`handle_listen` that starts at key 0: `operator[]` adds that key, so the text
starts with a comma, which `Received` drops as the client's `substr(1)` does
before it splits.

### CallHome

`Call`, `CallQueued`, `CallDone` are `call_home_task`; its clock counts minutes
since the last communication up to `Overdue`. `ListenRead`, `ListenThrows`,
`ListenSend` are `handle_listen` in three steps (`MachineRegistry` has it access
by access), and `ListenDone` its return to `listen_task`, which destroys the
acceptor and resets the connections queued on it (`Dequeued`). `Contact`,
`Reach`, `ContactFails` are `gather_task` and `handle_gather`, one attempt per
machine at a time: an attempt holds the address it looked up, and whoever has
that address now answers. `ServerEnds`, `Start`, `ClientEnds`, `ClientStarts`
lose what is kept in memory. A process that ends resets its connections; a host
that vanishes leaves the other side reading forever ("hung"), because neither
program sets a timeout. `Move` hands out the addresses anew.

### EventStream

A cell stands for a field, so the parser's arithmetic on positions stays the
code's: one digit for the number of blocks, two for the length of the name.
`Digit` is the `buffer[0]` of a `sprintf`: of a number with two digits the first
is kept. `Gather`, `Sort`, `Back`, `Send` are the client, which sorts `EVENTS`
and takes the frames from the back while further minutes may be pushed, between
`back()` and `pop_back()` too, so that a reply may have a frame twice. `Receive` cuts the
reply anywhere, which stands for a connection that broke. `ParseEmpty`,
`ParseFrame`, `ParseEnd` are `parse_event_block`; a number read from a field of
another kind, or from past the end, is arbitrary (`Stray`). The two digits of a
length are converted from an array without a terminator; this is harmful only
where the parser uses the value unchecked, in `ParseEmpty`.

### SessionClock

A tick is a second of the code. `TakeTime`, `CompareScript`, `Login`, `EndCycle`
are a pass of `gather_data`; `PollEmpty`, `PollOther`, `PollFirst`, `PollAgain` are
what a poll of `display_linux_msgbox` finds, `Opened` the return of an `open()`
that waited for a reader. `Load` is the script section of `main`. `CycleEnds` is
the wait for the next minute: a cycle ends when the seconds are 0 and at least 59
seconds passed, or at the 59th second itself if the loop is spinning then; one
that begins in second 2 may do either. `Log` is a user logging in or out. The
message thread may be up to a second late, and the gatherer, which waits for the
clock, is not: `mSleep` drifting past second 0 is not modelled.
`kick_expired_accounts` and `check_allowed_accounts` change nothing on Linux.

`execute_script` keeps a pointer into the static buffer of `localtime`
(client:715-717) and compares each script with what is there by then, after
waiting for the scripts before it. `tm` is the minute in that buffer while a pass
compares: `PollAgain` and `Opened` put a time five, one or fifteen minutes away
there (`PutTime`), and any other thread the present (`OtherTime`: the listener,
client:1129, for one). `misread` has the scripts a pass compared with another
minute than the one it took. Only the minute matters: all these times have the
seconds of the moment. A buffer read while another thread is half-way through
writing it is not modelled.

A message has its turn when `display_linux_msgbox` finds it due (`turns`), and is
shown when it is written to a FIFO somebody has opened (`shown`). Only the first
can be: it is dropped when the FIFO is there already (client:346-349), and the
others are written to what `mkfifo` returned (369, 385, 401). That this is 0 or -1,
so that the write and the `close` may go to the client's standard input, is left
out.

## 3. Runs

| run | instance | properties | result |
|---|---|---|---|
| `registry` | a machine and the empty name, two handlers, the updater idle | `OnlyRegisteredTracked`, `NoDuplicates`, `AddressKnown`, `BreakerImplemented` | hold |
| `registry_live` | one machine, one handler, the updater, fairness | `TypeOK`, `StatusStored` | hold |
| `outbox` | two minutes, fairness | `TypeOK`, `OnePlace`, `LifeImplemented`, `NothingStuck` | hold |
| `upload` | two machines, a short and a long user name, one minute, three events, fairness | `TypeOK`, `RowsOwned`, `HandedOnOnce`, `Drained` | hold |
| `upload_owner` | the same | `NoForeignRows` | violated |
| `proglist` | a table of four bits, the list for every query that may fail, blocks of two bits, two calls, fairness | `TypeOK`, `HolderInside`, `BitsOfFirstLoad`, `BitsOfTable`, `LoadsWholeFile`, `NeverStuck` | hold |
| `proglist_bits` | the same | `BitsMeanPrograms` | violated |
| `callhome` | two clients, two addresses, one attempt per machine, fairness | `TypeOK`, `NoCallForgotten`, `BackInTouch` | hold |
| `stream` | two frames of up to three blocks, numbers in base 3 | `Faithful` | holds |
| `stream_lost` | two frames of up to two blocks | `NoMinuteLost` | violated |
| `clock` | two guests and a member of staff, seven minutes, four configurations of scripts | `TypeOK`, `EveryTurnComes`, `ExpiryIsLast`, `MissedOnlyWhenLate`, `OnceWhileLoggedIn` | hold |
| `clock_shown` | the same | `WarningsShown` | violated |

### What the passing runs show

* `NoDuplicates`: only the join in `listen_task` keeps two look-ups apart.
* `AddressKnown`: the unchecked `find()` of `handle_gather` meets a missing
  entry only between `push_back` and `insert`, or for a machine whose
  registration was cut short by a peer reset. These two windows are real.
* `BreakerImplemented`: for each machine the blacklist implements
  `ContactBreaker`: while it is open no attempt is admitted, only an admitted
  attempt opens it, only the listener closes it, while it serves a call of that
  machine (or a restart), and no call ends without the flag having been down.
  The check in `handle_gather` carries the first, not the one in `gather_task`.
* `OnlyRegisteredTracked`: with the empty name and overlapping handlers, threads,
  flags and contact statuses are those of listed machines.
* `StatusStored`: a status in the map reaches its row unless it changes first,
  though SELECT, INSERT and UPDATE fail one by one. A status the updater itself
  overwrites (server:934) is one that changes.
* `OnePlace`, `LifeImplemented`: unsynchronised as they are, the client's threads
  never bring an event back that was given up, and send one twice only in one
  way: another event was pushed between `back()` and `pop_back()`, and is lost.
  For each event sent again a later one is lost. Losing an event is allowed by
  `EventLife`; where the code loses one although a comment says it does not is
  in the next section.
* `NothingStuck`: while people keep logging in, no event waits forever.
* `RowsOwned`: an event whose machine had its row when it was parsed, and whose
  user name fits, gets its own ids, although the variables start uninitialized.
* `HandedOnOnce`: vector, uploader and tables implement `EventLife` through lost
  connections and restarts; without `event_mutex` held from `back()` to
  `pop_back()` they would not.
* `Drained`: a lost connection does not make events pile up, it gives them up.
  The newest event is taken first, so this holds because the pushes end.
* `LoadsWholeFile`, `BitsOfFirstLoad`: `pf_mutex` keeps loads and writes apart,
  and blank lines keep the positions, as long as one list was loaded.
* `BitsOfTable`: from the database to the bits, a bit stands for the Linux
  program with that `bit_pos`, over positions without one and when the database
  fails midway, as long as the client loaded one list and loaded it whole: a
  shorter one written over a longer leaves the longer one's tail in the file.
  The leading comma and the dropped first character cancel out.
* `HolderInside`, `NeverStuck`: with the file in place `pf_mutex` is never left
  locked, and no thread waits for it forever.
* `NoCallForgotten`: a client that waits is the peer of the running handler, one
  that is queued is behind one. The client would wait forever otherwise.
* `BackInTouch`: after a restart of either program, a blacklisting or a new
  address the server contacts the client again under the address it has, unless
  a thread waits for a vanished host or another machine's entry has the address.
  Both excuses are needed, and both states last: see below.
* `Faithful`: wherever a reply is cut, each frame that arrived whole is recorded
  exactly once with its own user and minute, up to the first with ten blocks or
  more; what a broken end is taken for comes after them.
* `EveryTurnComes`: the windows of the messages are wide enough for a poll a
  minute, so a guest whom every sample found has the turn of all four, in order.
  Whether a message is shown is another matter, see below.
* `ExpiryIsLast`: no message of an account has its turn after the expiry, even
  when the account comes back and finds the flags of another guest.
* `MissedOnlyWhenLate`: a script is missed only when a pass began late, a script
  took long, or the pass compared it with a foreign time from `localtime`'s
  buffer. It says nothing when the configuration could not be loaded, as nothing
  is due then; two of the four configurations of the run load.
* `OnceWhileLoggedIn`: with a login a script starts at most once a minute,
  whatever is in the buffer.

### Disagreements between code and comments

With a run that shows them:

* `NoForeignRows` (server:1133): the event of a machine without a row is stored
  under the machine of an earlier event.
* `BitsMeanPrograms` (client:1495): a list received later is appended to
  `PROGRAM_LIST` and not put in its place, so bits keep standing for the
  programs of the first list.
* `NoMinuteLost` (server:145): reading the entire stream "prevents losing data"
  (server:520-521), but a reply that starts with a frame without blocks is
  recorded as that one event; a client without a list makes such frames.
* `WarningsShown` (client:369): "A message will be displayed to the user informing
  them of an impending forced logout at specifed time intervals from their
  expiration time (15 min, 5 min, 1 min, etc)" (client:302-303), but when the
  turn of the second message comes it is written to the return value of `mkfifo`.
  The property asks it only for a guest whom the first message reached. (What is
  written are eight bytes, the size of a pointer.)

Behaviours of the models without a run of their own:

* Registry: "if it already exists set value to 0" (server:697), but `insert`
  leaves a 1. `db_machine_insert` writes a status 0 that server:103 does not
  list.
* Outbox: data will not be lost in a network outage (client:810), but an event is
  popped before a write whose error nobody looks at (client:1166), and one pushed
  between `back()` and `pop_back()` (1160-1161) is taken out unread. Stored data is
  uploaded when the server contacts the client again (client:810-811), but a
  request that finds nobody logged in is answered '8' (client:1124) and the
  events wait for the next login. A partial event takes the key of the full
  event of its minute (client:1151). `EVENTS.clear()` (client:1171) drops an event
  pushed after the last `empty()`. A request between two cycles reads the deleted
  `CURRENT_EVENT_BLOCK` (`block = "freed"` in `ListenCurrent`).
* Program list: `PROGRAM_COUNT` may be left from the older of two overlapping
  loads (`SetCount` after the unlock).
* Call home: a client that takes over an address a listed machine had answers in
  that machine's name, and as its own silence is reset each time, it does not
  call (`Reach`). A client whose call met a vanished server never calls again,
  and a listener whose peer vanished serves nobody (both "hung").
* Scripts: a day 7, or a script without a time, throws and leaves `SCRIPTS2` empty,
  so no script runs; `config_files/default.cfg` describes the one and shows the
  other. A script with some days runs at 0:00 on the others, though that file
  says it runs on the days given.
  Sunday, index 0, can be set only with "every day". With nobody logged in a
  script that ends at once is started many times in its minute. A script may run
  five or fifteen minutes before its time, and not at its time, when a message is
  made up while the scripts are compared (client:355, 372).
* Message boxes: an empty sample between two cycles resets the flags; a returning
  guest is never warned; guests share the flags; the first message waits in
  `open()` for a reader, and the thread with it.

### Bounds

* One machine beside the empty name in `registry`, and one in `registry_live`: no
  action reads the entries of two machines but the scan and the iterator, whose
  order no property is about. That no two machines disturb each other is covered
  by the proofs, which are for every set of machines. One address: what the
  registry does not tell apart is which it is.
* Two handlers are the fewest that overlap; the proofs are for every number. The
  updater is idle in `registry`: it touches only the statuses, and the conjunct of
  `OnlyRegisteredTracked` about it, like the rest with it running, is proved.
* No liveness of the scan is stated. A handler may read forever, and each minute
  adds one; with the bound on threads a scan that waits for a free one would
  then be an effect of the bound.
* `MaxMinute = 2`: an event can wait, be shadowed by a partial one of its minute
  and be overtaken by the next. A third minute takes too long with liveness; the
  safety properties are proved for every bound.
* `MaxParsed = 3`: one event in the uploader's hand, one whose ids are stale, one
  pushed meanwhile. One parser suffices: parsers touch the vector in one locked
  step each.
* `Stamp` has one member in `upload`, so that keys collide as often as possible.
* `proglist`: the table has a bit of both systems, one of Windows only, one of
  Linux only and one with a second process, over two blocks; two calls, so that
  a list follows another, and the installed list starts with a blank.
* `callhome`: `CallAfter = 0` makes every silence long enough; what matters is
  that it ends. Two clients are the fewest that swap addresses or queue.
* `stream`: numbers are written in base 3, so that three blocks need a second
  digit. Two frames: one to lose the place in, one to find. `Stray` = {0, 1} moves
  the position both by nothing and by something.
* `clock`: 3 ticks to a minute, 4 minutes to a day, 2 days to a week; limit and
  warnings (12, 11, 7, 3) keep the order and the widths of 7200, 900, 300, 60
  against polls of a minute. `Horizon = 20` lies past the expiry; the proofs are
  for every such choice. `RunTime = 3` takes a script past its minute. The
  configurations have an every-day script, two scripts with single days, a day
  past the week, and a script without a time.

Deadlock is checked in every run but `stream` and `stream_lost`, where a reply is
parsed once and the behaviour ends.

### Fairness

* The server's updater and uploader are pool threads that never end
  (`run_server`): weak fairness. An attempt to contact a client may hang (the
  reads have no effective timeout), so the handlers have none, and neither have
  the scan and the listener, which joins a handler that reads.
* A statement that is asked again and again succeeds in the end: strong fairness
  of the updater's successful statements. `StatusStored` needs it; `Drained`
  does not, it only needs that every statement returns.
* Client threads run (weak). The server asks every minute, so a request meets
  `LOGGED_IN` true if it is true again and again: strong fairness of
  `ListenRequest`.
* `pf_mutex` is held for moments and free for most of a minute: strong fairness
  of taking it. Receiving a list is not fair.
* Call home: time passes, the listener and a client with a list go on (weak); a
  client that is due calls every second, so it meets the listener free in the
  end (strong fairness of `Call`). Contacts are not fair, faults neither.
* A restart is never fair: it may happen at any time and need not happen.
  `NeverStuck` excuses restarts that go on forever.

## 4. Proofs

`MachineRegistryProofs`, for any machines, addresses and number of handlers
(assumed: machines are natural numbers, `NoAddr` and `Blank` are no addresses):

* `TypeCorrect`, `ListHasNoDuplicates`, `LookupMostlySafe`, `OnlyRegistered`.
  `NoDuplicates` alone is not inductive: a listener at "push" must not find its
  machine listed meanwhile. `RegistryInv` adds that (true because nobody else
  appends), and that every busy handler's machine is listed, which
  `AddressKnown` needs of a handler that has not looked its address up yet.
* `BlacklistIsBreaker`: each action is a step of the breaker of every machine or
  leaves it alone; one lemma per thread. That a call comes as "served" at once
  needs `RegistryInv`: an unlisted machine's flag is not up when its call is read.

`ClientOutboxProofs`, for any length of the run:

* `TypeCorrect`, `EventInOnePlace`, `OutboxImplementsLife`. `OnePlace` needs that
  a timestamp is used once: `OutboxInv` bounds every timestamp in use by a
  horizon, the minute before the present cycle may end or the present minute
  once its event has been built, so that `GatherBuild` makes a new one. Between
  `back()` and `pop_back()` the event in hand is in the vector, and whatever is
  behind it is later and was never read (`Behind`); so what `pop_back()` takes out
  in its stead is later and has no copies. The copies on their way have numbers
  below the next one's (`Copies`), which makes two sends two messages.
  The refinement is proved action by action: `LifeBuild`, `LifeSend`,
  `LifeSettle`, `LifeLose`, `LifePop` say when a step is one of `EventLife`'s.

`EventUploadProofs`, for any machines, users, parsers and number of events:

* `TypeCorrect`, `RowsAreOwned`. `RowsOwned` speaks of the table only. `IdsInv`
  adds what holds on the way there: a known event stays known in the thread, the
  vector and the hand, because rows of machines are never deleted; and from the
  statement that determines an id up to the INSERT the id is that of the event
  in hand, whatever its slot held before.
* `UploadImplementsLife` (`HandedOnOnce`). `LifeInv` adds
  that an id belongs to one event (no copies in the vector or with two parsers)
  and that an event is in two places only between `back()` and `pop_back()`, and
  is then the newest of the vector: this needs that no parser pushes in between,
  that is, `event_mutex`. `pop_back()` is the step in which the event leaves.

`ProgramListProofs`, for any programs, lists and number of calls:

* `OnlyHolderInside`, `LoadsAreWhole`: whoever is inside the locked parts holds
  the mutex. Only this direction is invariant: after a failed `fopen` the mutex
  is locked with nobody inside.
* `MutexHasHolder` (`HolderInside`): no thread makes the file, so with one the
  failing branch is never taken and every thread inside goes on to unlock.
* `TypeCorrect`, `FirstLoadBits`: `ListInv` adds what a thread may hold at each
  step, and that up to the first load `PROGRAM_LIST` is empty or the lines of
  what was loaded; `LinesType` and `TextType` are about the file's cells.
* `TableBits` (`BitsOfTable`), for any table: `PROGRAM_LIST` is by `ListInv` the
  lines of the text that was loaded. `LinesOfText` says that these are the list
  the text was written from, `SplitJoined` that the client splits the server's
  text into the server's list, blank entries included in both, so that
  `ReceivedList`: what is received is `linux_list`. Both go through the list an
  entry at a time: behind a complete line (`LinesStep`) or piece (`SplitStep`)
  the next entry adds one at the end and changes none before it. `EntryOfRow`
  leads from an entry to a Linux row of the bit.

`CallHomeProofs`, for any clients and addresses:

* `TypeCorrect`, `CallsServed` (`NoCallForgotten`). `IInv` adds that only listed
  machines are contacted, which keeps the blacklist within the list.

`EventStreamProofs`, for any users, lengths of names, program bits, base, number
of frames and place of the break (`EventStreamAssumption`: a name has a letter,
the base is at least 2, and what is garbled is no user and no number):

* `StreamTypes` (`TypeOK`), `StreamFaithful` (`Faithful`). `Faithful` speaks of the
  end of a reply; `Inv` says what holds on the way. `Received`: what the server
  has is a prefix of the stream of the frames that were sent. `Placed`: as long
  as all frames so far were plain and whole, the parser stands where one begins
  and has recorded the frames before it; otherwise it has recorded those that
  `Faithful` demands, and whatever it does next only adds to them. (A reply that
  leads with an empty list is left out, as in `Faithful`.) The step is
  `InvParseFrame` on `FrameRead` (what the cells of a frame say, wherever in the
  stream it begins) and `StreamFrame` (where the next one begins). `Digit` is
  recursive: `DigitsUnique` and `DigitsExist` show that it satisfies its
  equation. `Inv` was checked by TLC on the instance of `stream` first.

`SequenceLemmas` has what both need: a flattened sequence of sequences taken
apart at its first and its last member, prefixes, and induction over numbers
stated for a set (`SetInduction`, from `LeastNumber`), so that no lemma takes an
operator.

`SessionClockProofs`, for any week, scripts and lengths of a minute:

* `TypeCorrect`, `NoWarningAfterExpiry` (`ExpiryIsLast`) and `WindowsMeetPolls`
  (`EveryTurnComes`). `IInv` adds that the turn of the expiry comes past the limit
  (`PastLimit`); `WInv` adds, for a guest no sample missed, which turns have come
  by now. `SessionClockAssumption` has what the last theorem needs of the
  numbers: no window is shorter than the time from a poll to the next.
* `PromptPassesMissNothing` (`MissedOnlyWhenLate`) and
  `LoginsRunScriptsOnce` (`OnceWhileLoggedIn`). `ScriptInv` adds that what was due at
  the last look-up of this minute and has been compared with that minute has
  started (`Started`), that a pass that began promptly is over with its minute
  (`WithinMinute`), and that a pass with a login ends in a minute of which no
  script has been started yet (`LaterMinute`, `NotYet`), which needs nothing of
  the buffer. The lemmas about `\div` and `%` by an arbitrary `Minute` come first;
  `CycleEndsMinute` says where in a minute a cycle can end.

Every invariant and every `[][A]_vars` property of a passing run is stated by a
theorem. Only model-checked: liveness (`StatusStored`, `NothingStuck`, `Drained`,
`NeverStuck`, `BackInTouch`), because the prover has no fairness or ENABLED, and
the four disagreements, which are counterexamples.

## 5. Not modelled, and why

* Start-up and the options of the configuration other than scripts:
  straight-line code. `update_all_machine_status` and `set_config_options` are
  never called.
* `linux_get_running_proc` reads the process list. The Windows list of
  `current_prog_setup` is built by the loop of the Linux one and read by Windows
  clients.
* Supervision: `run_tasks` starts three pools whose destructors wait for threads
  that never end, so its loop never iterates.
* Windows forks, service wrapper, reader, installer, older server: other
  platforms, pure I/O, or superseded.
* Vendored libraries: modelled by what the code relies on. `update_mstatus`
  reconnects when `connected()` is false, which it is only when the first connect
  failed; `registry_live` assumes that a connection, once made, is not lost.

## 6. Plan

1. Done: registry, outbox, upload, program list with its setup, call home, event
   stream, session clock; every safety property of a run is proved.
2. Composition: `EventStream` in place of the connection of `ClientOutbox`, so that
   a broken reply is given up frame by frame instead of at any point.
3. A model of the Windows client where it differs: it clears `PROGRAM_LIST` and
   kicks expired accounts.
