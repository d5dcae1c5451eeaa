----------------------------- MODULE MCPushLock -----------------------------
(***************************************************************************)
(* Small instances of PushLock.                                            *)
(***************************************************************************)
EXTENDS PushLock

=============================================================================
