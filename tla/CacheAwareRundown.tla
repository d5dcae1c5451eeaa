------------------------- MODULE CacheAwareRundown -------------------------
(***************************************************************************)
(* Cache-aware run-down protection: the second half of                     *)
(* ntoskrnl/ex/rundown.c.  There is one EX_RUNDOWN_REF per processor; a    *)
(* thread takes and gives back references on the word of the processor it  *)
(* happens to run on, so a single word may go below zero and only their    *)
(* sum means anything.  The owner sweeps the words one by one, putting the *)
(* address of one wait block in each, while clients go on.                 *)
(*                                                                         *)
(* The read-and-compare-exchange loop of one acquire or release on a word  *)
(* that is not active is a single step here: module Rundown shows the loop *)
(* at the granularity of its reads.                                        *)
(***************************************************************************)
EXTENDS Integers, FiniteSets, RundownWord

CONSTANTS Thread,    \* client threads
          Ticket,    \* names for the references one thread may hold at a time
          Number,    \* RunRefCacheAware->Number, the number of words
          MaxSkew,   \* bound: no word counts above MaxSkew or below -MaxSkew
          Tests      \* the tests for having to wait that are considered: the
                     \* one in the source, and possibly the opposite one too

ASSUME ThreadAssumption == IsFiniteSet(Thread)
ASSUME TicketAssumption == IsFiniteSet(Ticket)
ASSUME NumberAssumption == Number \in Nat \ {0}
ASSUME MaxSkewAssumption == MaxSkew \in Nat
ASSUME TestsAssumption == /\ "asWritten" \in Tests
                          /\ Tests \subseteq {"asWritten", "opposite"}

Reference == Thread \X Ticket
TicketsOf(t) == {t} \X Ticket
Processor == 0 .. (Number - 1)

VARIABLES
    runRefs,   \* the word of each processor
    held,      \* the references handed out and not yet given back
    pc,        \* where each client is in its call
    refs,      \* the references each client's release is about
    ownerPc,   \* where the owner is in its call
    current,   \* Current, the loop variable of the owner's call
    total,     \* TotalCount, in references
    waitBlock, \* the wait block on the owner's stack
    leaked     \* references that were out when the owner's wait returned

clientVars == <<pc, refs>>
ownerVars  == <<ownerPc, current, total>>
vars == <<runRefs, held, pc, refs, ownerPc, current, total, waitBlock, leaked>>

Word == [active : BOOLEAN, block : BOOLEAN, count : Int]
OwnerPc == {"live", "sweep", "swept", "add", "waiting", "returned",
            "completing", "reinit"}

TypeOK ==
    /\ runRefs \in [Processor -> Word]
    /\ held \subseteq Reference
    /\ pc \in [Thread -> {"idle", "releaseBlock", "releaseSignal"}]
    /\ refs \in [Thread -> SUBSET Reference]
    /\ ownerPc \in OwnerPc
    /\ current \in 0 .. Number
    /\ ownerPc \in {"sweep", "completing", "reinit"} => current \in Processor
    /\ total \in Int
    /\ waitBlock \in [count : Int, ready : BOOLEAN, signaled : BOOLEAN,
                      live : BOOLEAN]
    /\ leaked \subseteq Reference

NoBlock == [count |-> 0, ready |-> FALSE, signaled |-> FALSE, live |-> FALSE]

\* ExAllocateCacheAwareRundownProtection and
\* ExInitializeRundownProtectionCacheAware: every word is zero.
Init ==
    /\ runRefs = [c \in Processor |-> Counted(0)]
    /\ held = {}
    /\ pc = [t \in Thread |-> "idle"]
    /\ refs = [t \in Thread |-> {}]
    /\ ownerPc = "live"
    /\ current = 0
    /\ total = 0
    /\ waitBlock = NoBlock
    /\ leaked = {}

-----------------------------------------------------------------------------
(* Clients.  KeGetCurrentProcessorNumber() is read once; nothing keeps the  *)
(* thread on that processor, so any word may be used at any call.           *)

\* The words are re-initialised one by one.  A reference taken on the first
\* of them and given back on the second before its turn would follow the
\* address of a wait block of the previous life: it is up to the callers not
\* to acquire before the re-initialisation is over.
CallersKeptOut == ownerPc = "reinit"

\* ExfAcquireRundownProtectionCacheAware(Ex).  On an active word the call
\* returns FALSE and changes nothing.
Acquire(t) ==
    /\ pc[t] = "idle"
    /\ ~CallersKeptOut
    /\ \E c \in Processor, S \in (SUBSET (TicketsOf(t) \ held)) \ {{}} :
           /\ ~runRefs[c].active
           /\ runRefs[c].count + Cardinality(S) <= MaxSkew
           /\ runRefs' = [runRefs EXCEPT ![c] = Plus(@, Cardinality(S))]
           /\ held' = held \cup S
    /\ UNCHANGED <<clientVars, ownerVars, waitBlock, leaked>>

\* ExfReleaseRundownProtectionCacheAware(Ex) on a word that still counts, or
\* the read that finds the wait block's address in it.
Release(t) ==
    /\ pc[t] = "idle"
    /\ \E c \in Processor, S \in (SUBSET (TicketsOf(t) \cap held)) \ {{}} :
        \/ /\ ~runRefs[c].active
           /\ runRefs[c].count - Cardinality(S) >= -MaxSkew
           /\ runRefs' = [runRefs EXCEPT ![c] = Minus(@, Cardinality(S))]
           /\ held' = held \ S
           /\ UNCHANGED clientVars
        \/ /\ runRefs[c].active
           /\ pc' = [pc EXCEPT ![t] = "releaseBlock"]
           /\ refs' = [refs EXCEPT ![t] = S]
           /\ UNCHANGED <<runRefs, held>>
    /\ UNCHANGED <<ownerVars, waitBlock, leaked>>

Return(t) == /\ pc' = [pc EXCEPT ![t] = "idle"]
             /\ refs' = [refs EXCEPT ![t] = {}]

\* Mutant: the test takes "nothing more than the owner's count" for zero.
NotPositive(countLeft) == countLeft <= 0

\* The release that brings the wait block's count to zero wakes the owner.
LastOne(countLeft) == countLeft = 0

\* Take the references off the wait block's count.  The count may be below
\* zero: the owner adds the words' counts to it only after the sweep.  If the
\* address leads to a stack frame that is gone, what the store hits is outside
\* the model; the caller believes it has released its references.
ReleaseBlock(t) ==
    /\ pc[t] = "releaseBlock"
    /\ held' = held \ refs[t]
    /\ waitBlock' = IF waitBlock.live
                    THEN [waitBlock EXCEPT !.count = @ - Cardinality(refs[t])]
                    ELSE waitBlock
    /\ IF waitBlock.live /\ LastOne(waitBlock'.count)
       THEN pc' = [pc EXCEPT ![t] = "releaseSignal"] /\ UNCHANGED refs
       ELSE Return(t)
    /\ UNCHANGED <<runRefs, ownerVars, leaked>>

\* KeSetEvent(&WaitBlock->WakeEvent, ...).
ReleaseSignal(t) ==
    /\ pc[t] = "releaseSignal"
    /\ waitBlock' = [waitBlock EXCEPT !.signaled = waitBlock.live]
    /\ Return(t)
    /\ UNCHANGED <<runRefs, held, ownerVars, leaked>>

-----------------------------------------------------------------------------
(* The owner *)

\* ExfWaitForRundownProtectionReleaseCacheAware is called.
Wait ==
    /\ ownerPc = "live"
    /\ ownerPc' = "sweep"
    /\ current' = 0
    /\ total' = 0
    /\ waitBlock' = [NoBlock EXCEPT !.live = TRUE]
    /\ UNCHANGED <<runRefs, held, clientVars, leaked>>

\* Mutant: the last word is left out.
StopsShort(i) == i + 2 >= Number

\* The for loops over the words end after the last one.
LastWord(i) == i + 1 = Number

\* Mutant: a word below zero is taken for an empty one.
NonNegativeTotal(sum, v) == IF v.count > 0 THEN sum + v.count ELSE sum

\* TotalCount += Value.
TotalWith(sum, v) == sum + v.count

\* One word of the sweep: the do-while loop ends with the exchange that
\* replaces a count by the wait block's address.
Sweep ==
    /\ ownerPc = "sweep"
    /\ total' = TotalWith(total, runRefs[current])
    /\ runRefs' = [runRefs EXCEPT ![current] = Blocked]
    /\ current' = current + 1
    /\ ownerPc' = IF LastWord(current) THEN "swept" ELSE "sweep"
    /\ UNCHANGED <<held, clientVars, waitBlock, leaked>>

\* The routine returns and its stack frame is gone.
WaitReturns == /\ ownerPc' = "returned"
               /\ waitBlock' = NoBlock
               /\ leaked' = leaked \cup held

\* Nothing was counted: return.  Otherwise initialise the event, which
\* clients could already reach through the words.
Swept ==
    /\ ownerPc = "swept"
    /\ \/ /\ total = 0
          /\ WaitReturns
       \/ /\ total # 0
          /\ ownerPc' = "add"
          /\ waitBlock' = [waitBlock EXCEPT !.ready = TRUE, !.signaled = FALSE]
          /\ UNCHANGED leaked
    /\ UNCHANGED <<runRefs, held, clientVars, current, total>>

\* The condition under which the routine goes to sleep.  As written, it is
\* that the block held minus the total before the total was added to it,
\* which is the case in which every reference has been released already: the
\* owner then sleeps for ever, and no release ever signals the event.  What
\* the releases and the wake-up do for an owner that sleeps while references
\* are out can be seen only under the opposite test, so an instance may allow
\* it besides the source's, which is always allowed: every behaviour of the
\* source is a behaviour of every instance.
HaveToWait(test, oldCount) == (oldCount = -total) <=> (test = "asWritten")

\* Add what the words counted to the block, and wait or return.
Add ==
    /\ ownerPc = "add"
    /\ \E test \in Tests :
          \/ /\ HaveToWait(test, waitBlock.count)
             /\ waitBlock' = [waitBlock EXCEPT !.count = @ + total]
             /\ ownerPc' = "waiting"
             /\ UNCHANGED leaked
          \/ /\ ~HaveToWait(test, waitBlock.count)
             /\ WaitReturns
    /\ UNCHANGED <<runRefs, held, clientVars, current, total>>

\* KeWaitForSingleObject returns.
Wake ==
    /\ ownerPc = "waiting"
    /\ waitBlock.signaled
    /\ WaitReturns
    /\ UNCHANGED <<runRefs, held, clientVars, current, total>>

\* ExfRundownCompletedCacheAware or ExfReInitializeRundownProtectionCacheAware
\* is called.
SetAll(loop) ==
    /\ ownerPc = "returned"
    /\ ownerPc' = loop
    /\ current' = 0
    /\ UNCHANGED <<runRefs, held, clientVars, total, waitBlock, leaked>>

\* One iteration of either loop: ExpSetRundown on one word.
SetOne(loop, word, after) ==
    /\ ownerPc = loop
    /\ runRefs' = [runRefs EXCEPT ![current] = word]
    /\ current' = current + 1
    /\ ownerPc' = IF LastWord(current) THEN after ELSE loop
    /\ UNCHANGED <<held, clientVars, total, waitBlock, leaked>>

RundownCompleted == \/ SetAll("completing")
                    \/ SetOne("completing", Active, "returned")

ReInitialize == \/ SetAll("reinit")
                \/ SetOne("reinit", Counted(0), "live")

-----------------------------------------------------------------------------
ClientStep(t) == Acquire(t) \/ Release(t) \/ ReleaseBlock(t) \/ ReleaseSignal(t)

OwnerStep == Wait \/ Sweep \/ Swept \/ Add \/ Wake
               \/ RundownCompleted \/ ReInitialize

Next == (\E t \in Thread : ClientStep(t)) \/ OwnerStep

Spec == Init /\ [][Next]_vars



-----------------------------------------------------------------------------
(* Properties *)

\* The units of the words that are above zero, and of those that are below.
Units(count) == UNION {{c} \X (1 .. count[c]) : c \in Processor}
Above == Units([c \in Processor |-> runRefs[c].count])
Below == Units([c \in Processor |-> -runRefs[c].count])

\* The sum of the words' counts, which are not yet in total.
Unswept == Cardinality(Above) - Cardinality(Below)

\* However threads move between processors and however the sweep interleaves
\* with them, no reference is lost or counted twice: the words, the total and
\* the wait block add up to the references that are out.  (Before any wait
\* has returned with references outstanding.)  Single words may be below zero,
\* but their sum is not when the sweep is over, which is an ASSERT of the code.
Accounting ==
    leaked = {} =>
        /\ ownerPc = "live" => Cardinality(held) = Unswept
        /\ ownerPc \in {"sweep", "swept", "add"} =>
              Cardinality(held) = Unswept + total + waitBlock.count
        /\ ownerPc = "waiting" => Cardinality(held) = waitBlock.count
        /\ ownerPc = "swept" => total >= 0

\* The event is initialised after clients can reach the block; nobody signals
\* it before that.
NoEarlySignal ==
    \A t \in Thread :
        leaked = {} /\ pc[t] = "releaseSignal" /\ waitBlock.live => waitBlock.ready

\* The routine returns without a wait when the sweep counted nothing.  That is
\* sound although the words were read one after the other while clients took
\* references on one processor and gave them back on another: a TotalCount of
\* zero means that no reference is out and that no client is between reading
\* the address of the wait block and its last access to it, so the stack frame
\* may go.
SweptEmpty ==
    leaked = {} /\ ownerPc = "swept" /\ total = 0 =>
        held = {} /\ \A t \in Thread : pc[t] = "idle"

\* What the routine is for: when it returns, every reference was released.
WaitReturnsWhenReleased ==
    ownerPc \in {"returned", "completing"} => held = {}
=============================================================================
