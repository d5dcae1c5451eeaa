--------------------------- MODULE MCHandleTable ---------------------------
(***************************************************************************)
(* Small instances of HandleTable.                                         *)
(***************************************************************************)
EXTENDS HandleTable, TLC

ThreadSymmetry == Permutations(Thread)

\* The invariants say nothing of the states after a handle was put back in
\* front of a thread about to take it, and there is no way back from them.
NotExposed == ~exposed
=============================================================================
