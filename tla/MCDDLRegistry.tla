--------------------------- MODULE MCDDLRegistry ---------------------------
(* DDLRegistry with two threads, which may change places.                  *)
EXTENDS DDLRegistry, TLC
CONSTANTS t1, t2
MCThread == {t1, t2}
Swaps == Permutations(MCThread)
=============================================================================
