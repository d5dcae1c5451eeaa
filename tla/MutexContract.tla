--------------------------- MODULE MutexContract ---------------------------
(***************************************************************************)
(* What a mutex promises: a thread gets in only when nobody is inside, and *)
(* only the thread inside lets the next one in.                            *)
(***************************************************************************)

CONSTANT Thread

VARIABLE inside    \* the threads that own the mutex

ContractInit == inside = {}

Enter(t) == inside = {} /\ inside' = {t}

Leave(t) == inside = {t} /\ inside' = {}

ContractNext == \E t \in Thread : Enter(t) \/ Leave(t)

ContractSpec == ContractInit /\ [][ContractNext]_inside
=============================================================================
