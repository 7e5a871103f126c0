---------------------------- MODULE MCEventUpload ----------------------------
(* Small instances of EventUpload for TLC.                                   *)
EXTENDS EventUpload

CONSTANTS m1, m2, u1, long, p1, p2

TwoMachines == {m1, m2}
TwoUsers    == {u1, long}
OneLong     == {long}
OneMinute   == {1}
OneParser   == {p1}
TwoParsers  == {p1, p2}
===========================================================================
