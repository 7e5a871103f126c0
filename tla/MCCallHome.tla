----------------------------- MODULE MCCallHome -----------------------------
(* A small instance of CallHome for TLC.                                     *)
EXTENDS CallHome

CONSTANTS c1, c2, a1, a2

TwoClients == {c1, c2}
TwoAddrs   == {a1, a2}
=============================================================================
