--------------------------- MODULE HandleThreads ---------------------------
(***************************************************************************)
(* The threads that use a handle table.                                    *)
(***************************************************************************)
EXTENDS FiniteSets

CONSTANT Thread

ASSUME ThreadAssumption == IsFiniteSet(Thread)
=============================================================================
