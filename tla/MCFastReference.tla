-------------------------- MODULE MCFastReference --------------------------
(***************************************************************************)
(* Small instances of FastReference.                                       *)
(***************************************************************************)
EXTENDS FastReference

=============================================================================
