--------------------------- MODULE RWLockContract ---------------------------
(***************************************************************************)
(* What a reader/writer lock promises: readers together, a writer alone,   *)
(* and a reader becomes the writer only when it is the only reader.        *)
(***************************************************************************)

CONSTANT Thread

VARIABLES readers, writers

vars == <<readers, writers>>

ContractInit == readers = {} /\ writers = {}

EnterShared(t) ==
    /\ writers = {} /\ t \notin readers
    /\ readers' = readers \cup {t} /\ UNCHANGED writers

EnterExclusive(t) ==
    /\ writers = {} /\ readers = {}
    /\ writers' = {t} /\ UNCHANGED readers

Convert(t) ==
    /\ readers = {t} /\ writers = {}
    /\ writers' = {t} /\ readers' = {}

LeaveShared(t) ==
    /\ t \in readers
    /\ readers' = readers \ {t} /\ UNCHANGED writers

LeaveExclusive(t) ==
    /\ writers = {t}
    /\ writers' = {} /\ UNCHANGED readers

ContractNext ==
    \E t \in Thread : \/ EnterShared(t) \/ EnterExclusive(t) \/ Convert(t)
                      \/ LeaveShared(t) \/ LeaveExclusive(t)

ContractSpec == ContractInit /\ [][ContractNext]_vars
=============================================================================
