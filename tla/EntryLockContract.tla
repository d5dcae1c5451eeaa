------------------------- MODULE EntryLockContract -------------------------
(***************************************************************************)
(* What the lock bits of a handle table promise: each entry is a mutex of  *)
(* its own, and a step concerns one entry.                                 *)
(***************************************************************************)

CONSTANTS Thread, Entry

VARIABLE inside    \* of each entry, the threads that own it

ContractInit == inside = [e \in Entry |-> {}]

Enter(t, e) == inside[e] = {} /\ inside' = [inside EXCEPT ![e] = {t}]

Leave(t, e) == inside[e] = {t} /\ inside' = [inside EXCEPT ![e] = {}]

ContractNext == \E t \in Thread, e \in Entry : Enter(t, e) \/ Leave(t, e)

ContractSpec == ContractInit /\ [][ContractNext]_inside
=============================================================================
