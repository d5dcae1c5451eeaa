------------------------ MODULE MCConditionVariable ------------------------
(***************************************************************************)
(* Small instances of ConditionVariable.                                   *)
(***************************************************************************)
EXTENDS ConditionVariable

=============================================================================
