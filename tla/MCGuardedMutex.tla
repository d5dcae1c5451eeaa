--------------------------- MODULE MCGuardedMutex ---------------------------
(***************************************************************************)
(* Small instances of GuardedMutex.                                        *)
(***************************************************************************)
EXTENDS GuardedMutex

=============================================================================
