---------------------------- MODULE ProgramSetup ----------------------------
(* Where the client's list comes from: current_prog_setup reads the programs *)
(* table when the server starts, bit position by bit position; the listener  *)
(* answers a call with the list joined by commas (server/main.cpp); and      *)
(* call_home_task takes it apart (linux_client/client.cpp).  ProgramList has *)
(* what happens to it then.  The composition asks whether a bit of an event  *)
(* stands for the program with that bit_pos in the database.                 *)
EXTENDS ProgramList

CONSTANTS Table,    \* the programs table: for each bit_pos its rows, in order
          Pair,     \* a text "first:second" of two process names
          Comma

Row == [os : {1, 2}, name : Program, primary : BOOLEAN]

ASSUME SetupAssumption ==
    /\ Table \in Seq(Seq(Row)) \ {<<>>}
    /\ Pair \in Program /\ Comma \notin Entry

\* The entry of a bit in linux_list: the last Linux row counts.  A secondary
\* name is paired with _wpname, whatever that holds.
LinuxEntry(rows) ==
    LET Lin == {k \in DOMAIN rows : rows[k].os = 2}
        r   == rows[CHOOSE k \in Lin : \A j \in Lin : j <= k]
    IN  IF Lin = {} THEN NL ELSE IF r.primary THEN r.name ELSE Pair

\* linux_list after current_prog_setup.  Every bit has a blank entry before the
\* first query for a bit, so when that for bit k fails the rest stay blank.
linux_list(k) == [b \in DOMAIN Table |-> IF b < k THEN LinuxEntry(Table[b]) ELSE NL]

\* handle_listen joins the entries from key 0, which does not exist: operator[]
\* adds it, empty, so the text starts with a comma.
Joined(l) ==
    FlattenSeq([b \in DOMAIN l |-> <<Comma>> \o (IF l[b] = NL THEN <<>> ELSE <<l[b]>>)])

\* boost::split, without compression: what is between two commas.
Split(text) ==
    LET Commas(k) == {j \in 1..k : text[j] = Comma}
        Piece(i)  == {k \in DOMAIN text :
                         text[k] # Comma /\ Cardinality(Commas(k)) = i - 1}
    IN  [i \in 1..Cardinality(Commas(Len(text))) + 1 |->
            IF Piece(i) = {} THEN NL ELSE text[CHOOSE k \in Piece(i) : TRUE]]

\* Mutant: the first character is kept.
ReceivedMutant(k) == Split(Joined(linux_list(k)))

\* The client drops the first character of the text.  (Without a program in the
\* table the text is empty and substr(1) throws.)
Received(k) == Split(Tail(Joined(linux_list(k))))

\* What the server may send: the queries fail at any bit, or not at all.
SentLists == {Received(k) : k \in 1..Len(Table) + 1}

----------------------------------------------------------------------------
\* From the database to the bits, over positions without a Linux program, and
\* with a server that lost its database while it read the table: when the client
\* loaded once, and that was a list from its beginning to its end (it had been
\* written whole, and over a file no longer than it), a bit stands for the Linux
\* program with that bit_pos, and it was seen running.
BitsOfTable ==
    Len(loaded) = 1 /\ loaded[1] \in {Text(l) : l \in SentLists} =>
        \A i \in blocks :
            /\ i \in DOMAIN Table
            /\ \E r \in Range(Table[i]) : r.os = 2 /\ (r.primary => r.name \in seen)
=============================================================================
