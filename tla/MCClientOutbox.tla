--------------------------- MODULE MCClientOutbox ---------------------------
(* Small instances of ClientOutbox for TLC.                                  *)
EXTENDS ClientOutbox
===========================================================================
