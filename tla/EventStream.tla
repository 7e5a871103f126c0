---------------------------- MODULE EventStream ----------------------------
(* The frames between a client and the server: build_event and               *)
(* get_current_event (linux_client/client.cpp), the loop that reads a reply  *)
(* and parse_event_block (server/main.cpp).  A reply is the frames of the    *)
(* client's minutes, sorted and taken from the back, one after the other     *)
(* without separators: the parser finds each frame from the lengths in the   *)
(* one before.  A cell stands for a field: 8 digits of a block, 10 of a      *)
(* stamp, 2 of a length; names are one cell per letter.  The connection may  *)
(* break after any cell.  ClientOutbox has what becomes of a whole event.    *)
EXTENDS Naturals, SequencesExt

CONSTANTS User, Letters,  \* user names, and the length of each
          Data,           \* values of a block of program bits
          Sizes,          \* numbers of blocks of a program list
          Base,           \* 10: a number of blocks below it has one digit
          MaxFrames,      \* bound: frames in a reply
          Stray,          \* bound: numbers read from a cell of another kind
          Garbled         \* a name or stamp that no client wrote

ASSUME EventStreamAssumption ==
    /\ Letters \in [User -> Nat \ {0}]
    /\ Sizes \subseteq Nat /\ Stray \subseteq Nat /\ 0 \in Data
    /\ Base \in Nat \ {0, 1} /\ MaxFrames \in Nat
    /\ Garbled \notin User \union Nat

Blocks == UNION {[1..n -> Data] : n \in Sizes}

VARIABLES
    pc,      \* "client", "drain", "pop", "parse" or "done"
    listed,  \* the client has a program list
    events,  \* EVENTS
    hand,    \* the listener's line, between back() and pop_back()
    reply,   \* the frames that were written, in order
    data,    \* the cells the server has read, at positions 0, 1, ...
    index,   \* current_index
    out      \* what the parser pushed onto EVENTS_TO_UPLOAD

cvars == <<listed, events, hand, reply>>
vars  == <<pc, cvars, data, index, out>>

Init ==
    /\ pc = "client" /\ listed = FALSE /\ events = <<>> /\ hand = <<>>
    /\ reply = <<>> /\ data = <<>>
    /\ index = 0 /\ out = <<>>

----------------------------------------------------------------------------
(* The client *)

\* buffer[0] after sprintf("%d"): the leading digit.
Digit[n \in Nat] == IF n < Base THEN n ELSE Digit[n \div Base]

Cell(k, v) == [kind |-> k, val |-> v]
Name(u)    == [k \in 1..Letters[u] |-> Cell("letter", u)]

build_event(f) ==
    <<Cell("flag", 2), Cell("count", Digit[Len(f.blocks)])>>
      \o [k \in DOMAIN f.blocks |-> Cell("block", f.blocks[k])]
      \o <<Cell("length", Letters[f.user])>> \o Name(f.user)
      \o <<Cell("time", f.time)>>

Stream(fs) == FlattenSeq([i \in DOMAIN fs |-> build_event(fs[i])])

\* A minute ends with its frame in EVENTS, also while the listener drains it.
\* Without a list there are no blocks; once there is one, there are some.  Of
\* EVENTS and the reply one gains a frame in every minute.
Minutes == Len(events) + Len(reply)
Gather ==
    /\ pc \in {"client", "drain", "pop"} /\ Minutes < MaxFrames
    /\ \E b \in Blocks, u \in User :
          /\ listed' = (b # <<>>) /\ (listed => listed')
          /\ events' = Append(events, [blocks |-> b, user |-> u, time |-> Minutes + 1])
    /\ UNCHANGED <<pc, hand, reply, data, index, out>>

\* std::sort on the texts: the digit of the count decides first.  What follows
\* may put two frames either way, and those that differ in the stamp only by it.
Precedes(f, g) ==
    \/ Digit[Len(f.blocks)] < Digit[Len(g.blocks)]
    \/ /\ Digit[Len(f.blocks)] = Digit[Len(g.blocks)]
       /\ [f EXCEPT !.time = g.time] = g => f.time <= g.time

Sort ==
    /\ pc = "client" /\ events # <<>>
    /\ events' \in {s \in SetToSeqs(Range(events)) :
                       \A i, j \in DOMAIN s : i < j => Precedes(s[i], s[j])}
    /\ pc' = "drain"
    /\ UNCHANGED <<listed, hand, reply, data, index, out>>

\* line = EVENTS.back()
Back ==
    /\ pc = "drain" /\ events # <<>>
    /\ hand' = <<Last(events)>> /\ pc' = "pop"
    /\ UNCHANGED <<listed, events, reply, data, index, out>>

\* EVENTS.pop_back(), and the line is written.  A frame pushed in between goes
\* unsent, and the line's own is sent once more.
Send ==
    /\ pc = "pop"
    /\ events' = Front(events) /\ reply' = reply \o hand
    /\ hand' = <<>> /\ pc' = "drain"
    /\ UNCHANGED <<listed, data, index, out>>

Client == Gather \/ Sort \/ Back \/ Send

----------------------------------------------------------------------------
(* The server *)

\* handle_gather reads until the connection ends or breaks, and parses what it
\* has if the first cell is the flag '2'.
Receive ==
    /\ pc = "drain" /\ events = <<>>
    /\ \E k \in 1..Len(Stream(reply)) : data' = SubSeq(Stream(reply), 1, k)
    /\ pc' = "parse"
    /\ UNCHANGED <<cvars, index, out>>

\* What a read at a position gives: the value of a cell of that kind, and else
\* anything in junk, past the end of the array too.
Is(i, k) == i < Len(data) /\ data[i + 1].kind = k
At(i, k, junk) == IF Is(i, k) THEN {data[i + 1].val} ELSE junk

UserAt(i, n) ==
    IF \E u \in User : n = Letters[u] /\ \A x \in 1..n : Is(i + x - 1, "letter")
                       /\ data[i + x].val = u
    THEN data[i + 1].val ELSE Garbled
StampAt(i) == CHOOSE t \in At(i, "time", {Garbled}) : TRUE

Event(o, v, u, t) == [offset |-> o, data |-> v, user |-> u, time |-> t]

\* data[1] = '0': one event without programs, and nothing after it is looked
\* at.  The two digits of the length lie in an array without a terminator, so
\* what is read may be longer than they are.
ParseEmpty ==
    /\ pc = "parse" /\ index = 0 /\ Is(1, "count") /\ data[2].val = 0
    /\ \E n \in At(2, "length", Stray) \union Stray :
          out' = <<Event(1, 0, UserAt(3, n), StampAt(3 + n))>>
    /\ pc' = "done"
    /\ UNCHANGED <<cvars, data, index>>

\* Mutant: a block without programs is never recorded.
PushedMutant(d, u, t) ==
    FlattenSeq([k \in DOMAIN d |->
        IF d[k] # 0 THEN <<Event(k, d[k], u, t)>> ELSE <<>>])

\* Every block becomes an event, unless it is a later one without programs.
Pushed(d, u, t) ==
    FlattenSeq([k \in DOMAIN d |->
        IF d[k] # 0 \/ k < 2 THEN <<Event(k, d[k], u, t)>> ELSE <<>>])

\* tstart + 10.
NextIndex(n, len) == index + 3 + n + len + 1

\* One pass of the loop: a frame.
ParseFrame ==
    /\ pc = "parse" /\ index < Len(data)
    /\ index = 0 => ~(Is(1, "count") /\ data[2].val = 0)
    /\ \E n \in At(index + 1, "count", Stray) :
       \E len \in At(index + 2 + n, "length", Stray) :
       \E d \in [1..n -> Data] :
          /\ \A k \in 1..n : d[k] \in At(index + 1 + k, "block", Data)
          /\ out' = out \o Pushed(d, UserAt(index + 3 + n, len),
                                     StampAt(index + 3 + n + len))
          /\ index' = NextIndex(n, len)
    /\ UNCHANGED <<pc, cvars, data>>

ParseEnd ==
    /\ pc = "parse" /\ index >= Len(data)
    /\ pc' = "done"
    /\ UNCHANGED <<cvars, data, index, out>>

Parse == ParseEmpty \/ ParseFrame \/ ParseEnd

Next == Client \/ Receive \/ Parse

Spec == Init /\ [][Next]_vars

----------------------------------------------------------------------------
(* Properties. *)

\* The number of frames that are in data from end to end.
Cells(n) == Len(Stream(SubSeq(reply, 1, n)))
Whole == CHOOSE n \in 0..Len(reply) :
             Cells(n) <= Len(data) /\ \A m \in (n + 1)..Len(reply) : Cells(m) > Len(data)

\* The frames before the first whose number of blocks has two digits.
Plain == CHOOSE n \in 0..Whole :
             /\ \A i \in 1..n : Len(reply[i].blocks) < Base
             /\ n < Whole => Len(reply[n + 1].blocks) >= Base

\* What a frame is on record with: its first block, and the others that have
\* programs.
Events(f) ==
    FlattenSeq([k \in DOMAIN f.blocks |->
        IF k = 1 \/ f.blocks[k] # 0 THEN <<Event(k, f.blocks[k], f.user, f.time)>> ELSE <<>>])

\* And the first n frames.
Recorded(n) == FlattenSeq([i \in 1..n |-> Events(reply[i])])

LeadsWithEmpty == reply[1].blocks = <<>>

\* The parser keeps its place.  Wherever the connection broke, each frame that
\* arrived whole, up to the first with a number of blocks that needs two digits,
\* is recorded exactly, with its own user and minute and in order; what a broken
\* end is taken for comes after all of them, and if nothing is broken nothing
\* comes after them.
Faithful ==
    pc \in {"parse", "done"} /\ ~LeadsWithEmpty =>
        \/ out = Recorded(Plain)
        \/ pc = "parse" /\ IsPrefix(out, Recorded(Plain))
        \/ Cells(Plain) < Len(data) /\ IsPrefix(Recorded(Plain), out)

\* The comment in handle_gather: reading the entire stream "prevents losing data
\* from a machine that has not talked to the Server over an extended period of
\* time".  When a reply arrived whole and its first minute is on record, so are
\* the others.
NoMinuteLost ==
    LET Kept(f) == \E e \in Range(out) : e.time = f.time IN
    pc = "done" /\ Len(data) = Len(Stream(reply)) /\ Kept(reply[1]) =>
        \A f \in Range(reply) : Kept(f)
=============================================================================
