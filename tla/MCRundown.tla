----------------------------- MODULE MCRundown -----------------------------
(***************************************************************************)
(* Small instances of Rundown.                                             *)
(***************************************************************************)
EXTENDS Rundown

=============================================================================
