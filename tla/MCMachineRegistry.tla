------------------------ MODULE MCMachineRegistry ------------------------
(* Small instances of MachineRegistry for TLC.                             *)
EXTENDS MachineRegistry

CONSTANTS a1, t1, t2

WithNoName == {0, 1}
OneMachine == {1}
OneAddr    == {a1}
OneThread  == {t1}
TwoThreads == {t1, t2}

\* Two handlers side by side, with the updater idle.
ContactNext ==
    Listen \/ Gather \/ (\E t \in Thread : HandleGather(t)) \/ Stop \/ Start

ContactSpec == Init /\ [][ContactNext]_vars
===========================================================================
