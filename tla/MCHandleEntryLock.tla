------------------------- MODULE MCHandleEntryLock -------------------------
(***************************************************************************)
(* Small instances of HandleEntryLock.                                     *)
(***************************************************************************)
EXTENDS HandleEntryLock

=============================================================================
