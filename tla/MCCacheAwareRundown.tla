------------------------ MODULE MCCacheAwareRundown ------------------------
(***************************************************************************)
(* Small instances of CacheAwareRundown: at least two processors, so that  *)
(* a word goes below zero, and enough references for the sweep to meet     *)
(* releases on both sides of it.                                           *)
(***************************************************************************)
EXTENDS CacheAwareRundown

\* The invariants say nothing of the states after a wait that returned with
\* references outstanding, and there is no way back from them.
NothingLeaked == leaked = {}
=============================================================================
