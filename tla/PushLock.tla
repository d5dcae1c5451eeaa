------------------------------ MODULE PushLock ------------------------------
(***************************************************************************)
(* Push locks: ntoskrnl/ex/pushlock.c and the inlines of                   *)
(* ntoskrnl/include/internal/ex.h.                                         *)
(*                                                                         *)
(* A push lock is one word.  Without waiters its upper bits count the      *)
(* shared owners; with waiters they point to the newest wait block, and    *)
(* the wait blocks, each on the stack of its waiter, form a list through   *)
(* Next.  The list is linked backwards (Previous) and its tail cached      *)
(* (Last) lazily, by whoever owns the Waking bit.  The shared owners that  *)
(* were there when the first waiter came are then counted in that waiter's *)
(* block (ShareCount), and MultipleShared says so.                         *)
(*                                                                         *)
(* Every access to the lock word, every step of a walk along the list and  *)
(* every handshake on a wait block is an action.  The fields Next, Last    *)
(* and Previous of one block are accessed together: while the block is     *)
(* queued they are written by the owner of Waking alone.                   *)
(***************************************************************************)
EXTENDS Integers, FiniteSets

CONSTANTS Thread,
          Reader,  \* the threads that ask for the lock shared
          Writer,  \* and those that ask for it exclusively
          Routines \* what is called beside the specific Exf routines

ASSUME ThreadAssumption == IsFiniteSet(Thread)
ASSUME RoleAssumption   == Reader \subseteq Thread /\ Writer \subseteq Thread

\* The kernel's inlines, and the releases that do not know the kind of owner.
ASSUME RoutinesAssumption == Routines \subseteq {"inline", "generic"}

Null    == "NULL"
Garbage == "uninitialised"
ASSUME PointerAssumption == Null \notin Thread /\ Garbage \notin Thread

\* Locked, Waiting, Waking and MultipleShared.
Bit == {"L", "W", "K", "M"}

Pointer == Thread \cup {Null, Garbage}

VARIABLES
    word,   \* the push lock: its bits, and the upper bits in both their uses
    block,  \* the EX_PUSH_LOCK_WAIT_BLOCK on the stack of each thread
    hold,   \* how each thread owns the lock
    call,   \* the routine each thread is in
    pc,     \* and where it is in it
    old,    \* OldValue of the acquire and release routines
    val,    \* OldValue of ExpOptimizePushLockList and ExfWakePushLock
    cur     \* WaitBlock of the walks along the list

vars == <<word, block, hold, call, pc, old, val, cur>>

Word == [bits : SUBSET Bit, shared : Nat, ptr : Thread \cup {Null}]

Zero == [bits |-> {}, shared |-> 0, ptr |-> Null]

Block == [excl : BOOLEAN, wait : BOOLEAN, last : Pointer, next : Pointer,
          prev : Pointer, share : Int, signaled : BOOLEAN,
          gate : {"uninitialised", "clear", "signalled"}]

\* What a stack frame that is not in use holds.
NoBlock == [excl |-> FALSE, wait |-> FALSE, last |-> Garbage, next |-> Garbage,
            prev |-> Garbage, share |-> 0, signaled |-> FALSE,
            gate |-> "uninitialised"]

AcquireCalls == {"AcquireExclusive", "AcquireShared"}
ReleaseCalls == {"ReleaseExclusive", "ReleaseShared", "Release"}

\* Where a thread is while its wait block can be found in the list, or while
\* it may be signalled.
WakerPc == {"link", "linked", "stop", "walk", "detach", "clear", "signal", "gate"}
WaitPc  == {"initgate", "test", "asleep"}

Pc == {"idle", "read", "acquire", "release", "find", "count", "drop", "unlock",
       "generic", "tryread", "trycas"} \cup WakerPc \cup WaitPc

TypeOK ==
    /\ word \in Word
    /\ block \in [Thread -> Block]
    /\ hold \in [Thread -> {"none", "shared", "exclusive"}]
    /\ call \in [Thread -> {"none"} \cup AcquireCalls \cup ReleaseCalls]
    /\ pc \in [Thread -> Pc]
    /\ old \in [Thread -> Word]
    /\ val \in [Thread -> Word]
    /\ cur \in [Thread -> Pointer]

\* _ExInitializePushLock.
Init ==
    /\ word = Zero
    /\ block = [t \in Thread |-> NoBlock]
    /\ hold = [t \in Thread |-> "none"]
    /\ call = [t \in Thread |-> "none"]
    /\ pc = [t \in Thread |-> "idle"]
    /\ old = [t \in Thread |-> Zero]
    /\ val = [t \in Thread |-> Zero]
    /\ cur = [t \in Thread |-> Null]

-----------------------------------------------------------------------------
(* Moving from step to step *)

locals == <<call, old, val, cur>>

With(w, bs)    == [w EXCEPT !.bits = @ \cup bs]
Without(w, bs) == [w EXCEPT !.bits = @ \ bs]

Goto(t, p) == pc' = [pc EXCEPT ![t] = p]
Own(t, h)  == hold' = [hold EXCEPT ![t] = h]

\* The routine returns; its locals are gone.
Return(t) ==
    /\ Goto(t, "idle")
    /\ call' = [call EXCEPT ![t] = "none"]
    /\ old' = [old EXCEPT ![t] = Zero]
    /\ val' = [val EXCEPT ![t] = Zero]
    /\ cur' = [cur EXCEPT ![t] = Null]

\* A slow routine is entered, and reads the lock first.
Enter(t, c) ==
    /\ call' = [call EXCEPT ![t] = c]
    /\ Goto(t, "read")
    /\ UNCHANGED <<word, block, hold, old, val, cur>>

\* The routine goes on with a value it has just read.
Continue(t, c, v) ==
    /\ old' = [old EXCEPT ![t] = v]
    /\ cur' = [cur EXCEPT ![t] = IF c \in {"ReleaseShared", "Release"} /\ "M" \in v.bits
                                 THEN v.ptr ELSE Null]
    /\ Goto(t, CASE c \in AcquireCalls -> "acquire"
                 [] c = "ReleaseExclusive" -> "release"
                 [] c \in {"ReleaseShared", "Release"} ->
                        IF "W" \notin v.bits THEN "release"
                        ELSE IF "M" \in v.bits THEN "find" ELSE "unlock")
    /\ UNCHANGED <<call, val>>

\* ExfWakePushLock's loop starts with a value of the lock.
WakeWith(t, v) ==
    /\ val' = [val EXCEPT ![t] = v]
    /\ cur' = [cur EXCEPT ![t] = v.ptr]
    /\ Goto(t, IF "L" \in v.bits THEN "stop" ELSE "walk")
    /\ UNCHANGED <<call, old>>

\* ExfWakePushLock or ExpOptimizePushLockList is done: a releaser leaves, a
\* new waiter goes on to wait.
Woken(t) ==
    IF call[t] \in AcquireCalls
    THEN /\ Goto(t, "initgate")
         /\ val' = [val EXCEPT ![t] = Zero]
         /\ cur' = [cur EXCEPT ![t] = Null]
         /\ UNCHANGED <<call, old>>
    ELSE Return(t)

\* OldValue = *PushLock.
Read(t) ==
    /\ pc[t] = "read"
    /\ Continue(t, call[t], word)
    /\ UNCHANGED <<word, block, hold>>

-----------------------------------------------------------------------------
(* Acquiring *)

\* The bit test and set of ExAcquirePushLockExclusive and
\* ExTryToAcquirePushLockExclusive; the slow routine otherwise.  The slow
\* routine is also called without it, by ExWaitOnPushLock for one.
ExAcquirePushLockExclusive(t) ==
    /\ t \in Writer /\ pc[t] = "idle" /\ hold[t] = "none"
    /\ \/ /\ "inline" \in Routines
          /\ "L" \notin word.bits
          /\ word' = With(word, {"L"})
          /\ Own(t, "exclusive")
          /\ UNCHANGED <<block, pc, locals>>
       \/ Enter(t, "AcquireExclusive")

ExAcquirePushLockShared(t) ==
    /\ t \in Reader /\ pc[t] = "idle" /\ hold[t] = "none"
    /\ \/ /\ "inline" \in Routines
          /\ word = Zero
          /\ word' = [bits |-> {"L"}, shared |-> 1, ptr |-> Null]
          /\ Own(t, "shared")
          /\ UNCHANGED <<block, pc, locals>>
       \/ Enter(t, "AcquireShared")

ExConvertPushLockSharedToExclusive(t) ==
    /\ "inline" \in Routines /\ t \in Writer
    /\ pc[t] = "idle" /\ hold[t] = "shared"
    /\ word = [bits |-> {"L"}, shared |-> 1, ptr |-> Null]
    /\ word' = [bits |-> {"L"}, shared |-> 0, ptr |-> Null]
    /\ Own(t, "exclusive")
    /\ UNCHANGED <<block, pc, locals>>

\* The slow routine may lock the lock it has seen.
MayLock(c, v) ==
    \/ "L" \notin v.bits
    \/ c = "AcquireShared" /\ v.shared > 0 /\ "W" \notin v.bits

LockValue(c, v) ==
    [v EXCEPT !.bits = @ \cup {"L"},
              !.shared = IF c = "AcquireShared" /\ "W" \notin v.bits THEN @ + 1 ELSE @]

AcquireLock(t) ==
    /\ pc[t] = "acquire"
    /\ MayLock(call[t], old[t])
    /\ \/ /\ word = old[t]
          /\ word' = LockValue(call[t], old[t])
          /\ Own(t, IF call[t] = "AcquireShared" THEN "shared" ELSE "exclusive")
          /\ Return(t)
       \/ /\ word # old[t]
          /\ Goto(t, "read")
          /\ UNCHANGED <<word, hold, locals>>
    /\ UNCHANGED block

\* The lock with one more waiter.  The first waiter's block takes over the
\* count of the shared owners.
Queued(c, v, t) ==
    [bits |-> {"W"} \cup (IF "W" \in v.bits THEN (v.bits \cap {"L", "M"}) \cup {"K"}
                          ELSE (v.bits \cap {"L", "K", "M"})
                                 \cup (IF v.shared > 1 THEN {"M"} ELSE {})),
     shared |-> 0, ptr |-> t]

\* Mutant: the shared owners are counted even if there is only one.
CountsOne(c, v, t) ==
    [excl |-> c = "AcquireExclusive", wait |-> TRUE, prev |-> Null,
     last |-> IF "W" \in v.bits THEN Null ELSE t,
     next |-> IF "W" \in v.bits THEN v.ptr ELSE Garbage,
     share |-> IF "W" \in v.bits THEN 0 ELSE v.shared,
     signaled |-> FALSE, gate |-> "uninitialised"]

WaitBlock(c, v, t) ==
    [excl |-> c = "AcquireExclusive", wait |-> TRUE, prev |-> Null,
     last |-> IF "W" \in v.bits THEN Null ELSE t,
     next |-> IF "W" \in v.bits THEN v.ptr ELSE Garbage,
     share |-> IF "W" \notin v.bits /\ v.shared > 1 THEN v.shared ELSE 0,
     signaled |-> FALSE, gate |-> "uninitialised"]

\* Mutant: the list is linked even while somebody else does so.
AlwaysLinks(v) == "W" \in v.bits

\* The first to find the list unattended links it (ExpOptimizePushLockList).
NeedWake(v) == "W" \in v.bits /\ "K" \notin v.bits

Enqueue(t) ==
    /\ pc[t] = "acquire"
    /\ ~MayLock(call[t], old[t])
    /\ \/ /\ word = old[t]
          /\ word' = Queued(call[t], old[t], t)
          /\ block' = [block EXCEPT ![t] = WaitBlock(call[t], old[t], t)]
          /\ IF NeedWake(old[t])
             THEN /\ val' = [val EXCEPT ![t] = word']
                  /\ cur' = [cur EXCEPT ![t] = t]
                  /\ Goto(t, "link")
             ELSE /\ Goto(t, "initgate")
                  /\ UNCHANGED <<val, cur>>
          /\ UNCHANGED <<call, old>>
       \/ /\ word # old[t]
          /\ Goto(t, "read")
          /\ UNCHANGED <<word, block, locals>>
    /\ UNCHANGED hold

\* KeInitializeGate: only now, when the block is already in the list.
InitGate(t) ==
    /\ pc[t] = "initgate"
    /\ block' = [block EXCEPT ![t].gate = "clear"]
    /\ Goto(t, "test")
    /\ UNCHANGED <<word, hold, locals>>

\* The wait is over: the block is not used any more, and the routine tries
\* again with the value it had before it waited.
EndWait(t) ==
    /\ block' = [block EXCEPT ![t] = NoBlock]
    /\ Goto(t, "acquire")

\* InterlockedBitTestAndReset of the wait flag by the waiter.
TestWait(t) ==
    /\ pc[t] = "test"
    /\ \/ /\ block[t].wait
          /\ block' = [block EXCEPT ![t].wait = FALSE]
          /\ Goto(t, "asleep")
       \/ ~block[t].wait /\ EndWait(t)
    /\ UNCHANGED <<word, hold, locals>>

\* KeWaitForGate.
WaitForGate(t) ==
    /\ pc[t] = "asleep"
    /\ block[t].gate = "signalled"
    /\ EndWait(t)
    /\ UNCHANGED <<word, hold, locals>>

-----------------------------------------------------------------------------
(* ExpOptimizePushLockList *)

\* One step along Next, until a block knows the tail.
Link(t) ==
    /\ pc[t] = "link"
    /\ LET b == block[cur[t]] IN
       IF b.last # Null
       THEN /\ block' = [block EXCEPT ![val[t].ptr].last = b.last]
            /\ Goto(t, "linked")
            /\ UNCHANGED cur
       ELSE /\ block' = [block EXCEPT ![b.next].prev = cur[t]]
            /\ cur' = [cur EXCEPT ![t] = b.next]
            /\ UNCHANGED pc
    /\ UNCHANGED <<word, hold, call, old, val>>

\* Give up Waking, unless the lock has changed: then link the new waiters as
\* well, or wake them if the lock was released.
Linked(t) ==
    /\ pc[t] = "linked"
    /\ \/ /\ word = val[t]
          /\ word' = Without(val[t], {"K"})
          /\ Woken(t)
       \/ /\ word # val[t]
          /\ "L" \notin word.bits
          /\ WakeWith(t, word)
          /\ UNCHANGED word
       \/ /\ word # val[t]
          /\ "L" \in word.bits
          /\ val' = [val EXCEPT ![t] = word]
          /\ cur' = [cur EXCEPT ![t] = word.ptr]
          /\ Goto(t, "link")
          /\ UNCHANGED <<word, call, old>>
    /\ UNCHANGED <<block, hold>>

-----------------------------------------------------------------------------
(* ExfWakePushLock *)

\* The lock is taken: its owner will wake the waiters.
StopWaking(t) ==
    /\ pc[t] = "stop"
    /\ \/ /\ word = val[t]
          /\ word' = Without(val[t], {"K"})
          /\ Woken(t)
       \/ /\ word # val[t]
          /\ WakeWith(t, word)
          /\ UNCHANGED word
    /\ UNCHANGED <<block, hold>>

\* One step along Next, until a block knows the tail.
Walk(t) ==
    /\ pc[t] = "walk"
    /\ LET b == block[cur[t]] IN
       IF b.last # Null
       THEN /\ cur' = [cur EXCEPT ![t] = b.last]
            /\ Goto(t, "detach")
            /\ UNCHANGED block
       ELSE /\ block' = [block EXCEPT ![b.next].prev = cur[t]]
            /\ cur' = [cur EXCEPT ![t] = b.next]
            /\ UNCHANGED pc
    /\ UNCHANGED <<word, hold, call, old, val>>

\* A reader is first, or nobody is behind: everybody is woken.
WakesAll(b) == ~b.excl \/ b.prev = Null

DetachAll(t) ==
    /\ pc[t] = "detach"
    /\ WakesAll(block[cur[t]])
    /\ \/ /\ word = val[t]
          /\ word' = Zero
          /\ Goto(t, "signal")
          /\ UNCHANGED locals
       \/ /\ word # val[t]
          /\ WakeWith(t, word)
          /\ UNCHANGED word
    /\ UNCHANGED <<block, hold>>

\* A writer is taken off the end of the list.
DetachOne(t) ==
    /\ pc[t] = "detach"
    /\ ~WakesAll(block[cur[t]])
    /\ block' = [block EXCEPT ![val[t].ptr].last = block[cur[t]].prev,
                              ![cur[t]].prev = Null]
    /\ Goto(t, "clear")
    /\ UNCHANGED <<word, hold, locals>>

\* InterlockedAndPointer.
ClearWaking(t) ==
    /\ pc[t] = "clear"
    /\ word' = Without(word, {"K"})
    /\ Goto(t, "signal")
    /\ UNCHANGED <<block, hold, locals>>

\* On to the previous block, the next newer waiter.
Advance(t, p) ==
    IF p = Null THEN Woken(t)
    ELSE /\ cur' = [cur EXCEPT ![t] = p]
         /\ Goto(t, "signal")
         /\ UNCHANGED <<call, old, val>>

\* Mutant: a waiter that has come to its gate is forgotten.
NeverSignals(b) == FALSE

\* Mutant: the gate is signalled whether or not its waiter has come to it.
AlwaysSignals(b) == TRUE

\* The wait flag was no longer set: the waiter is on its way to the gate.
NeedsSignal(b) == ~b.wait

\* InterlockedBitTestAndReset of the wait flag by the waker.
SignalBlock(t) ==
    /\ pc[t] = "signal"
    /\ LET b == block[cur[t]] IN
       /\ block' = [block EXCEPT ![cur[t]].signaled = TRUE, ![cur[t]].wait = FALSE]
       /\ \/ ~NeedsSignal(b) /\ Advance(t, b.prev)
          \/ NeedsSignal(b) /\ Goto(t, "gate") /\ UNCHANGED locals
    /\ UNCHANGED <<word, hold>>

\* KeSignalGateBoostPriority.  Previous was read before.
SignalGate(t) ==
    /\ pc[t] = "gate"
    /\ block' = [block EXCEPT ![cur[t]].gate = "signalled"]
    /\ Advance(t, block[cur[t]].prev)
    /\ UNCHANGED <<word, hold>>

-----------------------------------------------------------------------------
(* Releasing *)

\* InterlockedExchangeAdd takes the Locked bit off; ExfTryToWakePushLock
\* follows if there are waiters nobody is waking.
ExReleasePushLockExclusive(t) ==
    /\ pc[t] = "idle" /\ hold[t] = "exclusive"
    /\ \/ /\ "inline" \in Routines
          /\ word' = Without(word, {"L"})
          /\ Own(t, "none")
          /\ IF NeedWake(word)
             THEN /\ call' = [call EXCEPT ![t] = "ReleaseExclusive"]
                  /\ Goto(t, "tryread")
             ELSE UNCHANGED <<call, pc>>
          /\ UNCHANGED <<block, old, val, cur>>
       \/ Enter(t, "ReleaseExclusive")

ExReleasePushLockShared(t) ==
    /\ pc[t] = "idle" /\ hold[t] = "shared"
    /\ \/ /\ "inline" \in Routines
          /\ word = [bits |-> {"L"}, shared |-> 1, ptr |-> Null]
          /\ word' = Zero
          /\ Own(t, "none")
          /\ UNCHANGED <<block, pc, locals>>
       \/ Enter(t, "ReleaseShared")

\* One owner less in a lock nobody waits for.
OneLess(v) == IF v.shared > 1 THEN [v EXCEPT !.shared = @ - 1] ELSE Zero

\* ExReleasePushLock does not know how the lock is owned.  It reads the lock...
ExReleasePushLock(t) ==
    /\ "generic" \in Routines
    /\ pc[t] = "idle" /\ hold[t] # "none"
    /\ \/ /\ "inline" \in Routines
          /\ call' = [call EXCEPT ![t] = "Release"]
          /\ old' = [old EXCEPT ![t] = word]
          /\ Goto(t, "generic")
          /\ UNCHANGED <<word, block, hold, val, cur>>
       \/ Enter(t, "Release")

\* ... and tries once.
GenericRelease(t) ==
    /\ pc[t] = "generic"
    /\ \/ /\ "W" \notin old[t].bits /\ word = old[t]
          /\ word' = OneLess(old[t])
          /\ Own(t, "none")
          /\ Return(t)
       \/ /\ "W" \in old[t].bits \/ word # old[t]
          /\ Goto(t, "read")
          /\ UNCHANGED <<word, hold, locals>>
    /\ UNCHANGED block

\* ExfTryToWakePushLock.
TryToWakeRead(t) ==
    /\ pc[t] = "tryread"
    /\ \/ /\ word.bits \cap {"L", "W", "K"} # {"W"}
          /\ Return(t)
       \/ /\ word.bits \cap {"L", "W", "K"} = {"W"}
          /\ old' = [old EXCEPT ![t] = word]
          /\ Goto(t, "trycas")
          /\ UNCHANGED <<call, val, cur>>
    /\ UNCHANGED <<word, block, hold>>

TryToWake(t) ==
    /\ pc[t] = "trycas"
    /\ \/ /\ word = old[t]
          /\ word' = With(word, {"K"})
          /\ WakeWith(t, word')
       \/ /\ word # old[t]
          /\ Return(t)
          /\ UNCHANGED word
    /\ UNCHANGED <<block, hold>>

\* ExfReleasePushLockExclusive.
ReleaseExclusive(t) ==
    /\ pc[t] = "release" /\ call[t] = "ReleaseExclusive"
    /\ \/ /\ word = old[t]
          /\ Own(t, "none")
          /\ IF NeedWake(old[t])
             THEN /\ word' = With(Without(old[t], {"L"}), {"K"})
                  /\ WakeWith(t, word')
             ELSE /\ word' = Without(old[t], {"L"})
                  /\ Return(t)
       \/ /\ word # old[t]
          /\ Continue(t, call[t], word)
          /\ UNCHANGED <<word, hold>>
    /\ UNCHANGED block

\* ExfReleasePushLockShared and ExfReleasePushLock, as long as nobody waits.
ReleaseShared(t) ==
    /\ pc[t] = "release" /\ call[t] # "ReleaseExclusive"
    /\ \/ /\ word = old[t]
          /\ word' = OneLess(old[t])
          /\ Own(t, "none")
          /\ Return(t)
       \/ /\ word # old[t]
          /\ Continue(t, call[t], word)
          /\ UNCHANGED <<word, hold>>
    /\ UNCHANGED block

\* The walk to the block that counts the shared owners.
FindOldest(t) ==
    /\ pc[t] = "find"
    /\ LET b == block[cur[t]] IN
       IF b.last # Null
       THEN /\ cur' = [cur EXCEPT ![t] = b.last]
            /\ Goto(t, IF call[t] = "Release" THEN "count" ELSE "drop")
       ELSE /\ cur' = [cur EXCEPT ![t] = b.next]
            /\ UNCHANGED pc
    /\ UNCHANGED <<word, block, hold, call, old, val>>

\* ExfReleasePushLock looks at the count first.
TestShareCount(t) ==
    /\ pc[t] = "count"
    /\ Goto(t, IF block[cur[t]].share > 0 THEN "drop" ELSE "unlock")
    /\ UNCHANGED <<word, block, hold, locals>>

\* Mutant: everybody thinks to be the last shared owner.
AnyIsLast(n) == n >= 0

\* InterlockedDecrement(&WaitBlock->ShareCount) > 0 is false.
LastOwner(n) == n <= 0

DropShare(t) ==
    /\ pc[t] = "drop"
    /\ LET left == block[cur[t]].share - 1 IN
       /\ block' = [block EXCEPT ![cur[t]].share = left]
       /\ IF LastOwner(left)
          THEN /\ Goto(t, "unlock")
               /\ cur' = [cur EXCEPT ![t] = Null]
               /\ UNCHANGED <<hold, call, old, val>>
          ELSE Own(t, "none") /\ Return(t)
    /\ UNCHANGED word

\* Mutant: MultipleShared survives its owners.
KeepsMultiple(v) == With(Without(v, {"L"}), {"K"})

\* The lock without its last owner, and with somebody in charge of the list.
Unlocked(v) == With(Without(v, {"L", "M"}), {"K"})

\* The last owner unlocks; it wakes the waiters unless another thread owns
\* Waking, and that thread will.
Unlock(t) ==
    /\ pc[t] = "unlock"
    /\ \/ /\ word = old[t]
          /\ word' = Unlocked(old[t])
          /\ Own(t, "none")
          /\ IF NeedWake(old[t]) THEN WakeWith(t, word') ELSE Return(t)
       \/ /\ word # old[t]
          /\ old' = [old EXCEPT ![t] = word]
          /\ UNCHANGED <<word, hold, pc, call, val, cur>>
    /\ UNCHANGED block

-----------------------------------------------------------------------------
Begin(t) == \/ ExAcquirePushLockExclusive(t) \/ ExAcquirePushLockShared(t)
            \/ ExConvertPushLockSharedToExclusive(t)

BeginRelease(t) == \/ ExReleasePushLockExclusive(t) \/ ExReleasePushLockShared(t)
                   \/ ExReleasePushLock(t)

Step(t) == \/ Read(t) \/ AcquireLock(t) \/ Enqueue(t) \/ InitGate(t)
           \/ TestWait(t) \/ WaitForGate(t)
           \/ Link(t) \/ Linked(t)
           \/ StopWaking(t) \/ Walk(t) \/ DetachAll(t) \/ DetachOne(t)
           \/ ClearWaking(t) \/ SignalBlock(t) \/ SignalGate(t)
           \/ GenericRelease(t) \/ TryToWakeRead(t) \/ TryToWake(t)
           \/ ReleaseExclusive(t) \/ ReleaseShared(t) \/ FindOldest(t)
           \/ TestShareCount(t) \/ DropShare(t) \/ Unlock(t)

Next == \E t \in Thread : Begin(t) \/ BeginRelease(t) \/ Step(t)

Spec == Init /\ [][Next]_vars

\* A thread inside a routine is scheduled, and an owner finally releases.
FairSpec == Spec /\ \A t \in Thread : WF_vars(BeginRelease(t) \/ Step(t))

-----------------------------------------------------------------------------
(* Properties *)

Shared    == {t \in Thread : hold[t] = "shared"}
Exclusive == {t \in Thread : hold[t] = "exclusive"}

\* Readers and writers exclude each other, also between the routines that
\* count owners in the word and those that count them in a wait block.
Contract == INSTANCE RWLockContract WITH readers <- Shared, writers <- Exclusive
ImplementsRWLock == Contract!ContractSpec

\* The push lock words PushLockValueIsPlausible of the kernel mode test
\* accepts are the only ones there are, in every interleaving.
ValueIsPlausible ==
    /\ "K" \in word.bits => "W" \in word.bits
    /\ "M" \in word.bits => {"L", "W"} \subseteq word.bits
    /\ word.bits \cap {"L", "W"} = {} => word = Zero
    /\ "W" \in word.bits <=> word.ptr # Null
    /\ "W" \in word.bits => word.shared = 0

\* A thread whose wait block may still be used by others.
InList(t) == call[t] \in AcquireCalls /\ pc[t] \in WakerPc \cup WaitPc

\* No walk and no waker ever touches the wait block of a thread that has
\* left its wait: the block is on that thread's stack.  The gate in it is
\* ready when it is signalled, although it is initialised after the block is
\* published, and its waiter is there to consume the signal.
BlocksAlive ==
    \A t \in Thread :
        /\ pc[t] \in {"link", "walk", "detach", "signal", "gate", "find", "count", "drop"}
              => cur[t] \in Thread /\ InList(cur[t])
        /\ pc[t] \in {"link", "detach"} => InList(val[t].ptr)
        /\ pc[t] = "gate" => block[cur[t]].gate = "clear" /\ pc[cur[t]] = "asleep"

\* The Waking bit has exactly one owner, and the list is linked and unlinked
\* by that thread alone.
OneWaker ==
    LET Wakers == {t \in Thread : pc[t] \in {"link", "linked", "stop", "walk",
                                             "detach", "clear"}}
    IN  Cardinality(Wakers) = IF "K" \in word.bits THEN 1 ELSE 0

\* The owners are counted exactly: in the word while nobody waits, and in the
\* wait block of the oldest waiter while MultipleShared is set.
OwnersCounted ==
    /\ "L" \in word.bits <=> Shared \cup Exclusive # {}
    /\ "W" \notin word.bits => word.shared = Cardinality(Shared)
    /\ "W" \in word.bits /\ "M" \notin word.bits => Cardinality(Shared) <= 1
    /\ "M" \in word.bits =>
          \E b \in Thread :
             /\ InList(b) /\ block[b].excl /\ block[b].last = b
             /\ block[b].share = Cardinality(Shared)
                   - Cardinality({t \in Thread : pc[t] = "unlock" /\ hold[t] = "shared"})

\* The assertions in the routines.
SanityChecks ==
    \A t \in Thread :
        /\ pc[t] \in {"stop", "walk", "detach"} => "M" \notin val[t].bits
        /\ pc[t] = "stop" => "W" \in val[t].bits
        /\ pc[t] = "linked" => "L" \in val[t].bits
        /\ pc[t] = "clear" => val[t].ptr # cur[t] /\ "W" \in word.bits
        /\ pc[t] = "signal" => ~block[cur[t]].signaled
        /\ pc[t] = "asleep" /\ block[t].gate = "signalled"
              => block[t].signaled /\ block[t].share = 0
        /\ pc[t] = "test" /\ ~block[t].wait => block[t].share = 0
        /\ pc[t] = "drop" => block[cur[t]].share > 0 /\ block[cur[t]].excl
        /\ pc[t] \in {"release", "find", "unlock", "generic"} => "L" \in old[t].bits
        /\ hold[t] # "none" => "L" \in word.bits
        /\ hold[t] = "exclusive" => "W" \in word.bits \/ word.shared = 0

\* Once the calls stop coming, every waiter gets the lock and every routine
\* returns.
Drains ==
    (\A t \in Thread : <>[][~Begin(t)]_vars)
        => <>[](\A t \in Thread : pc[t] = "idle" /\ hold[t] = "none")
=============================================================================
