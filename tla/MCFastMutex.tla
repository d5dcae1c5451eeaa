---------------------------- MODULE MCFastMutex ----------------------------
(***************************************************************************)
(* Small instances of FastMutex.                                           *)
(***************************************************************************)
EXTENDS FastMutex

=============================================================================
