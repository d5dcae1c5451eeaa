------------------------------ MODULE Rundown ------------------------------
(***************************************************************************)
(* Run-down protection: ntoskrnl/ex/rundown.c and the inline fast paths of *)
(* ntoskrnl/include/internal/ex.h.                                         *)
(*                                                                         *)
(* One EX_RUNDOWN_REF guards a structure.  Client threads acquire and      *)
(* release references to it; its owner waits until all are released, tears *)
(* the structure down, and may then mark the descriptor as run down for    *)
(* good or make it ready for another life.                                 *)
(*                                                                         *)
(* Every read of the shared word and every interlocked operation is an     *)
(* action of its own; what a routine computes between two of them is local *)
(* to its thread and belongs to the action that follows.                   *)
(***************************************************************************)
EXTENDS Integers, FiniteSets, RundownWord

CONSTANTS Thread,    \* client threads
          Ticket     \* names for the references one thread may hold at a time

ASSUME ThreadAssumption == IsFiniteSet(Thread)
ASSUME TicketAssumption == IsFiniteSet(Ticket)

(***************************************************************************)
(* A reference in a caller's hands is a pair <<thread, ticket>>.  The code *)
(* only keeps their number; the identities are what lets us say that the   *)
(* number is right.                                                        *)
(***************************************************************************)
Reference == Thread \X Ticket
TicketsOf(t) == {t} \X Ticket

\* The values the descriptor can hold; its count never goes below zero.
Word == [active : BOOLEAN, block : BOOLEAN, count : Nat]

VARIABLES
    runRef,   \* RunRef->Count, the shared word
    held,     \* the references handed out and not yet given back
    pc,       \* where each client is in its call
    value,    \* each client's local Value
    refs,     \* the references each client's call is about
    ownerPc,  \* where the owner is in its call
    ownerVal, \* the owner's local Value
    waitBlock \* EX_RUNDOWN_WAIT_BLOCK on the owner's stack: Count, WakeEvent,
              \* and whether the stack frame that holds it still exists

clientVars == <<pc, value, refs>>
ownerVars  == <<ownerPc, ownerVal>>
vars == <<runRef, held, pc, value, refs, ownerPc, ownerVal, waitBlock>>

ClientPc == {"idle", "acquireFast", "acquireSlow", "acquireLoop",
             "releaseFast", "releaseSlow", "releaseLoop", "releaseSignal"}
OwnerPc  == {"live", "waitSlow", "waitLoop", "waiting", "drained", "completed"}

TypeOK ==
    /\ runRef \in Word
    /\ held \in SUBSET Reference
    /\ pc \in [Thread -> ClientPc]
    /\ value \in [Thread -> Word]
    /\ refs \in [Thread -> SUBSET Reference]
    /\ ownerPc \in OwnerPc
    /\ ownerVal \in Word
    /\ waitBlock \in [count : Nat, signaled : BOOLEAN, live : BOOLEAN]

\* ExfInitializeRundownProtection: RunRef->Count = 0.
Init ==
    /\ runRef = Counted(0)
    /\ held = {}
    /\ pc = [t \in Thread |-> "idle"]
    /\ value = [t \in Thread |-> Counted(0)]
    /\ refs = [t \in Thread |-> {}]
    /\ ownerPc = "live"
    /\ ownerVal = Counted(0)
    /\ waitBlock = [count |-> 0, signaled |-> FALSE, live |-> FALSE]

-----------------------------------------------------------------------------
(* Acquiring *)

\* A client returns to its caller.
Return(t) == /\ pc' = [pc EXCEPT ![t] = "idle"]
             /\ refs' = [refs EXCEPT ![t] = {}]
             /\ value' = [value EXCEPT ![t] = Counted(0)]

\* _ExAcquireRundownProtection reads the word and masks the active bit.
AcquireFast(t) ==
    /\ pc[t] = "idle"
    /\ \E r \in TicketsOf(t) \ held : refs' = [refs EXCEPT ![t] = {r}]
    /\ value' = [value EXCEPT ![t] = MaskActive(runRef)]
    /\ pc' = [pc EXCEPT ![t] = "acquireFast"]
    /\ UNCHANGED <<runRef, held, ownerVars, waitBlock>>

\* The compare-exchange hands out the references refs[t].
TakeReferences(t) ==
    /\ runRef = value[t]
    /\ runRef' = Plus(value[t], Cardinality(refs[t]))
    /\ held' = held \cup refs[t]
    /\ Return(t)
    /\ UNCHANGED <<ownerVars, waitBlock>>

\* ... and tries to add a reference, falling back to the exported routine.
AcquireFastChange(t) ==
    /\ pc[t] = "acquireFast"
    /\ \/ TakeReferences(t)
       \/ /\ runRef # value[t]
          /\ pc' = [pc EXCEPT ![t] = "acquireSlow"]
          /\ UNCHANGED <<runRef, held, value, refs, ownerVars, waitBlock>>

\* ExfAcquireRundownProtection starts over with a fresh read.
ExfAcquire(t) ==
    /\ pc[t] = "acquireSlow"
    /\ value' = [value EXCEPT ![t] = runRef]
    /\ pc' = [pc EXCEPT ![t] = "acquireLoop"]
    /\ UNCHANGED <<runRef, held, refs, ownerVars, waitBlock>>

\* ExfAcquireRundownProtectionEx is called for several references at once.
ExfAcquireEx(t) ==
    /\ pc[t] = "idle"
    /\ \E S \in (SUBSET (TicketsOf(t) \ held)) \ {{}} :
           refs' = [refs EXCEPT ![t] = S]
    /\ value' = [value EXCEPT ![t] = runRef]
    /\ pc' = [pc EXCEPT ![t] = "acquireLoop"]
    /\ UNCHANGED <<runRef, held, ownerVars, waitBlock>>

\* Mutant: the loop no longer looks at the active bit.
NeverRefused(v) == FALSE

\* if (Value & EX_RUNDOWN_ACTIVE) return FALSE;
RefusedBy(v) == v.active

\* The loop of both routines.
AcquireLoop(t) ==
    /\ pc[t] = "acquireLoop"
    /\ \/ /\ RefusedBy(value[t])
          /\ Return(t)
          /\ UNCHANGED <<runRef, held, ownerVars, waitBlock>>
       \/ /\ ~RefusedBy(value[t])
          /\ TakeReferences(t)
       \/ /\ ~RefusedBy(value[t])
          /\ runRef # value[t]
          /\ value' = [value EXCEPT ![t] = runRef]
          /\ UNCHANGED <<runRef, held, pc, refs, ownerVars, waitBlock>>

-----------------------------------------------------------------------------
(* Releasing *)

\* _ExReleaseRundownProtection reads the word and masks the active bit.
ReleaseFast(t) ==
    /\ pc[t] = "idle"
    /\ \E r \in TicketsOf(t) \cap held : refs' = [refs EXCEPT ![t] = {r}]
    /\ value' = [value EXCEPT ![t] = MaskActive(runRef)]
    /\ pc' = [pc EXCEPT ![t] = "releaseFast"]
    /\ UNCHANGED <<runRef, held, ownerVars, waitBlock>>

\* The compare-exchange gives the references refs[t] back.
DropReferences(t) ==
    /\ runRef = value[t]
    /\ runRef' = Minus(value[t], Cardinality(refs[t]))
    /\ held' = held \ refs[t]
    /\ Return(t)
    /\ UNCHANGED <<ownerVars, waitBlock>>

ReleaseFastChange(t) ==
    /\ pc[t] = "releaseFast"
    /\ \/ DropReferences(t)
       \/ /\ runRef # value[t]
          /\ pc' = [pc EXCEPT ![t] = "releaseSlow"]
          /\ UNCHANGED <<runRef, held, value, refs, ownerVars, waitBlock>>

\* ExfReleaseRundownProtection starts over with a fresh read.
ExfRelease(t) ==
    /\ pc[t] = "releaseSlow"
    /\ value' = [value EXCEPT ![t] = runRef]
    /\ pc' = [pc EXCEPT ![t] = "releaseLoop"]
    /\ UNCHANGED <<runRef, held, refs, ownerVars, waitBlock>>

\* ExfReleaseRundownProtectionEx is called for several references at once.
ExfReleaseEx(t) ==
    /\ pc[t] = "idle"
    /\ \E S \in (SUBSET (TicketsOf(t) \cap held)) \ {{}} :
           refs' = [refs EXCEPT ![t] = S]
    /\ value' = [value EXCEPT ![t] = runRef]
    /\ pc' = [pc EXCEPT ![t] = "releaseLoop"]
    /\ UNCHANGED <<runRef, held, ownerVars, waitBlock>>

\* Mutant: the test is off by one.
LastButOne(countLeft) == countLeft = 1

\* The release that brings the wait block's count to zero wakes the owner.
LastOne(countLeft) == countLeft = 0

\* The loop of both routines: change the count, or, once the owner has put
\* its wait block in place, take the references off the block's count.
ReleaseLoop(t) ==
    /\ pc[t] = "releaseLoop"
    /\ \/ /\ ~value[t].active
          /\ DropReferences(t)
       \/ /\ ~value[t].active
          /\ runRef # value[t]
          /\ value' = [value EXCEPT ![t] = runRef]
          /\ UNCHANGED <<runRef, held, pc, refs, ownerVars, waitBlock>>
       \/ /\ value[t].active
          /\ waitBlock' = [waitBlock EXCEPT !.count = @ - Cardinality(refs[t])]
          /\ held' = held \ refs[t]
          /\ IF LastOne(waitBlock'.count)
             THEN /\ pc' = [pc EXCEPT ![t] = "releaseSignal"]
                  /\ UNCHANGED <<value, refs>>
             ELSE Return(t)
          /\ UNCHANGED <<runRef, ownerVars>>

\* KeSetEvent(&WaitBlock->WakeEvent, ...).
ReleaseSignal(t) ==
    /\ pc[t] = "releaseSignal"
    /\ waitBlock' = [waitBlock EXCEPT !.signaled = TRUE]
    /\ Return(t)
    /\ UNCHANGED <<runRef, held, ownerVars>>

-----------------------------------------------------------------------------
(* The owner *)

\* ExpChangeRundown(RunRef, EX_RUNDOWN_ACTIVE, 0) found the word at zero, or
\* an earlier run-down already marked it.
MarkActive == /\ runRef \in {Counted(0), Active}
              /\ runRef' = Active
              /\ ownerPc' = "drained"
              /\ UNCHANGED <<held, clientVars, ownerVal, waitBlock>>

\* _ExWaitForRundownProtectionRelease.
WaitFast ==
    /\ ownerPc \in {"live", "completed"}
    /\ \/ MarkActive
       \/ /\ runRef \notin {Counted(0), Active}
          /\ ownerPc' = "waitSlow"
          /\ UNCHANGED <<runRef, held, clientVars, ownerVal, waitBlock>>

\* ExfWaitForRundownProtectionRelease tries the same again.
ExfWait ==
    /\ ownerPc = "waitSlow"
    /\ \/ MarkActive
       \/ /\ runRef \notin {Counted(0), Active}
          /\ ownerVal' = runRef
          /\ ownerPc' = "waitLoop"
          /\ UNCHANGED <<runRef, held, clientVars, waitBlock>>

\* Mutant: the count is not shifted down, so the owner waits for twice as
\* many releases as there are references.
UnshiftedCount(v) == 2 * v.count

\* What the wait block's Count is set to before the block is published.
SavedCount(v) == v.count

\* The loop that moves the count into a wait block and puts the block's
\* address in the word.  The event is initialised before the block can be
\* seen; nothing is waited for if the last reference went in the meantime.
ExfWaitSetBlock ==
    /\ ownerPc = "waitLoop"
    /\ \/ /\ runRef = ownerVal
          /\ runRef' = Blocked
          /\ waitBlock' = [count |-> SavedCount(ownerVal), signaled |-> FALSE,
                           live |-> ownerVal.count # 0]
          /\ ownerPc' = IF ownerVal.count = 0 THEN "drained" ELSE "waiting"
          /\ UNCHANGED ownerVal
       \/ /\ runRef # ownerVal
          /\ ownerVal' = runRef
          /\ UNCHANGED <<runRef, ownerPc, waitBlock>>
    /\ UNCHANGED <<held, clientVars>>

\* KeWaitForSingleObject on the synchronization event; the routine returns
\* and its stack frame, wait block included, is gone.
ExfWaitWake ==
    /\ ownerPc = "waiting"
    /\ waitBlock.signaled
    /\ waitBlock' = [waitBlock EXCEPT !.signaled = FALSE, !.live = FALSE]
    /\ ownerPc' = "drained"
    /\ UNCHANGED <<runRef, held, clientVars, ownerVal>>

\* ExRundownCompleted: the word no longer refers to the wait block.
RundownCompleted ==
    /\ ownerPc = "drained"
    /\ runRef' = Active
    /\ ownerPc' = "completed"
    /\ UNCHANGED <<held, clientVars, ownerVal, waitBlock>>

\* ExfReInitializeRundownProtection: another life of the structure.
ReInitialize ==
    /\ ownerPc \in {"drained", "completed"}
    /\ runRef' = Counted(0)
    /\ ownerPc' = "live"
    /\ UNCHANGED <<held, clientVars, ownerVal, waitBlock>>

-----------------------------------------------------------------------------
AcquireStep(t) == AcquireFast(t) \/ AcquireFastChange(t) \/ ExfAcquire(t)
                    \/ ExfAcquireEx(t) \/ AcquireLoop(t)

ReleaseStep(t) == ReleaseFast(t) \/ ReleaseFastChange(t) \/ ExfRelease(t)
                    \/ ExfReleaseEx(t) \/ ReleaseLoop(t) \/ ReleaseSignal(t)

OwnerStep == WaitFast \/ ExfWait \/ ExfWaitSetBlock \/ ExfWaitWake
               \/ RundownCompleted \/ ReInitialize

Next == \/ \E t \in Thread : AcquireStep(t) \/ ReleaseStep(t)
        \/ OwnerStep

Spec == Init /\ [][Next]_vars

(***************************************************************************)
(* A thread inside a call is eventually scheduled.  That a client releases *)
(* what it holds is its side of the contract: however often it is found    *)
(* idle with a reference, it finally calls a release routine.              *)
(***************************************************************************)
InsideCall(t) == AcquireFastChange(t) \/ ExfAcquire(t) \/ AcquireLoop(t)
                   \/ ReleaseFastChange(t) \/ ExfRelease(t)
                   \/ ReleaseLoop(t) \/ ReleaseSignal(t)

FairSpec == /\ Spec
            /\ \A t \in Thread : /\ WF_vars(InsideCall(t))
                                 /\ SF_vars(ReleaseFast(t) \/ ExfReleaseEx(t))
            /\ WF_vars(ExfWait \/ ExfWaitSetBlock \/ ExfWaitWake)

-----------------------------------------------------------------------------
(* Properties *)

\* When ExWaitForRundownProtectionRelease has returned, and until the
\* descriptor is re-initialised, no thread is inside the structure: the owner
\* may tear it down.
RundownSafe == ownerPc \in {"drained", "completed"} => held = {}

\* A releasing thread only touches the wait block while the owner's stack
\* frame exists, and it never signals an event nobody waits for.
WaitBlockAlive ==
    \A t \in Thread :
        \/ pc[t] = "releaseSignal"
        \/ pc[t] = "releaseLoop" /\ value[t].active
        => waitBlock.live /\ ownerPc = "waiting"

\* The ASSERTs of the release and wait routines: the count never goes below
\* what is being released, and the block's count is zero when the owner wakes.
SanityChecks ==
    /\ \A t \in Thread :
          /\ pc[t] = "releaseFast" /\ runRef = value[t] => value[t].count >= 1
          /\ pc[t] = "releaseLoop" /\ ~value[t].active
                 => value[t].count >= Cardinality(refs[t])
          /\ pc[t] = "releaseLoop" /\ value[t].active
                 => waitBlock.count >= Cardinality(refs[t])
    /\ ownerPc = "waitLoop" => ~ownerVal.active
    /\ ownerPc = "waiting" /\ waitBlock.signaled => waitBlock.count = 0

\* Once the wait block is in place the owner is woken: no release is lost
\* between the word and the block.
RundownCompletes == ownerPc = "waiting" ~> ownerPc = "drained"

\* The descriptor implements the contract its callers rely on.
Phase == IF ~runRef.active THEN "live"
         ELSE IF ownerPc \in {"drained", "completed"} THEN "down"
         ELSE "draining"

Contract == INSTANCE RundownContract WITH phase <- Phase

ImplementsContract == Contract!ContractSpec
=============================================================================
