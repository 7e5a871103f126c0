---------------------------- MODULE MCProgramList ----------------------------
(* Small instances of ProgramList for TLC.                                   *)
EXTENDS ProgramSetup

CONSTANTS p, q, pq

Programs == {p, q, pq}
OfLinux(n)   == [os |-> 2, name |-> n, primary |-> TRUE]
OfWindows(n) == [os |-> 1, name |-> n, primary |-> TRUE]
Secondary(n) == [os |-> 2, name |-> n, primary |-> FALSE]

\* Four bits over two blocks: a program of both systems, one of Windows only, one
\* of Linux only and one with a second process.
FourBits == << <<OfWindows(q), OfLinux(p)>>, <<OfWindows(p)>>, <<OfLinux(q)>>,
               <<OfLinux(p), Secondary(q)>> >>
\* As installed: a blank first, then a program.
Installed == {Text(<<NL, p>>)}
===========================================================================
