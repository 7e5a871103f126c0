--------------------------- MODULE MCEventStream ---------------------------
(* Small instances of EventStream for TLC: numbers of blocks are written in  *)
(* base 3, so that three blocks need a second digit.                         *)
EXTENDS EventStream

CONSTANTS ann, bo

Users       == {ann, bo}
NameLengths == (ann :> 1) @@ (bo :> 2)
Bits        == {0, 1}
FewBlocks   == {0, 1, 2}
AllBlocks   == {0, 1, 2, 3}
Numbers     == {0, 1}
=============================================================================
