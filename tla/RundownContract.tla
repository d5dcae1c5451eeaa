-------------------------- MODULE RundownContract --------------------------
(***************************************************************************)
(* What run-down protection promises its callers, whatever the layout of   *)
(* the EX_RUNDOWN_REF word: references are only handed out while the       *)
(* protected structure is live, and the structure is only declared run     *)
(* down once every reference has been given back.                          *)
(***************************************************************************)

CONSTANTS Reference   \* the identities of the references callers may hold

VARIABLES held,       \* the references handed out and not yet released
          phase       \* "live", "draining" or "down"

contractVars == <<held, phase>>

ContractTypeOK == /\ held \subseteq Reference
                  /\ phase \in {"live", "draining", "down"}

ContractInit == held = {} /\ phase = "live"

\* A caller is granted a set of new references: only while live.
Grant == /\ phase = "live"
         /\ \E S \in SUBSET (Reference \ held) : held' = held \cup S
         /\ UNCHANGED phase

\* A caller gives references back, at any time it has them.
GiveBack == /\ \E S \in SUBSET held : held' = held \ S
            /\ UNCHANGED phase

\* The owner starts the run-down: no reference is granted from here on.
BeginRundown == /\ phase = "live"
                /\ phase' = "draining"
                /\ UNCHANGED held

\* The run-down is over: nobody is left inside.
FinishRundown == /\ phase \in {"live", "draining"}
                 /\ held = {}
                 /\ phase' = "down"
                 /\ UNCHANGED held

\* The descriptor is made ready for another life of the structure.
Restart == /\ phase = "down"
           /\ phase' = "live"
           /\ UNCHANGED held

ContractNext == Grant \/ GiveBack \/ BeginRundown \/ FinishRundown \/ Restart

ContractSpec == ContractInit /\ [][ContractNext]_contractVars
=============================================================================
