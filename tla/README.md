# A verification of the ReactOS executive's synchronization core

ReactOS is an operating system kernel, a Win32 subsystem, drivers and user
programs in some 29 000 files. This project is about the part of it that
everything else stands on and that tests reach worst: the lock-free and
sleeping synchronization primitives of the kernel executive
(`ntoskrnl/ex`, `ntoskrnl/ke`), two things built on them, the handle table and
the references of the object manager, and condition variables, the user-mode
primitive that leans most on the kernel. Each of these is a few hundred lines of C in which a word that is
changed by compare-exchange encodes several facts at once, in which threads
publish addresses of their own stack frames to each other, and in which one
wrong interleaving in a million sleeps for ever or gives a handle out twice.

The modules are TLA+, model-checked with TLC on small instances. Every safety
property of the passing runs but one (`NoHandleLost`) is also proved, with TLAPS, for
any number of threads; liveness is model-checked only.

## 1. Inventory

### 1.1 The parts that are modelled

**Run-down protection** (`ntoskrnl/ex/rundown.c`, inlines in
`ntoskrnl/include/internal/ex.h`).
*State*: one word, `EX_RUNDOWN_REF.Count`: either twice the number of references
that are out, or the address of the owner's wait block with the active bit, or
the active bit alone. The wait block (`EX_RUNDOWN_WAIT_BLOCK`: a count and an
event) is on the stack of the thread that waits.
*Operations*: initialize, acquire (one or several), release (one or several),
wait for release, completed, re-initialize.
*Interaction*: clients and the owner share the word; once the owner has put its
wait block into the word, releases go to the block and the last one signals.
*Hard*: the count moves from the word to the block while clients release; a
release that read the block's address touches a stack frame that may be gone;
clients of one life of the descriptor meet the next.
*Correct if*: the wait returns only when no reference is out, does return, the
block is only touched while it exists, no reference is given out after it began.

**Cache-aware run-down protection** (second half of `ntoskrnl/ex/rundown.c`).
*State*: one such word per processor. A reference taken on one processor may be
released on another, so a word's count may be negative.
*Operations*: the same; the wait sweeps the words one after the other, adds what
it finds, then adds the total to the block. *Hard*: everything that happens
between the visits to two words. *Correct if*: words, running total and block
always add up to the references that are out, and the wait returns when they
have all been released.

**Guarded mutexes** (`ntoskrnl/include/internal/ke_x.h`, `ntoskrnl/ke/gmutex.c`,
`KiAcquireGuardedMutex` in `ntoskrnl/ke/wait.c`).
*State*: `Count` (free bit, woken bit, number of waiters), `Owner`, a gate.
*Hard*: the fields of `Count` are changed by plain additions whose carries are
intended; the mutex is freed by one interlocked operation and a waiter is chosen
by a second one that may fail. *Correct if*: mutual exclusion, exact fields, no
lost wake-up, every waiter gets in.

**Fast mutexes** (`ntoskrnl/include/internal/ex.h`, `ntoskrnl/ex/fmutex.c`,
`KiAcquireFastMutex` in `ntoskrnl/ke/wait.c`).
*State*: `Count`, `Owner`, `OldIrql`, a synchronization event with its wait list.
*Hard*: the caller's IRQL is kept in the mutex; kernel APCs take waiters of the
unsafe routines off the list. *Correct if*: mutual exclusion, an exact count,
everybody's IRQL is restored, no signal is lost, nobody starves.

**Push locks** (`ntoskrnl/ex/pushlock.c`, inlines in `ex.h`).
*State*: one word (Locked, Waiting, Waking, MultipleShared, and either the number
of shared owners or the address of the newest wait block), and a list of wait
blocks on the stacks of the waiters, singly linked by the waiters and doubly
linked, lazily, by whoever owns Waking.
*Operations*: acquire shared and exclusive, convert, try to convert, release
shared, exclusive and generic, wake, optimize the list.
*Hard*: nearly everything: the walk over other threads' stacks, the passing on
of Waking, the shared owners counted in a waiter's block.
*Correct if*: it is a reader/writer lock; no block is touched after its waiter
has left; Waking has one owner; once calls stop, everybody has had the lock.

**The lock bit of handle table entries** (`ExpBlockOnLockedHandleEntry` and its
callers in `ntoskrnl/ex/handle.c`; `ExBlockPushLock`, `ExfUnblockPushLock`,
`ExWaitForUnblockPushLock` in `ntoskrnl/ex/pushlock.c`).
*State*: the lock bit of each entry; one list of wait blocks for the whole table.
*Hard*: an entry unlocked before the waiter's block is in the list; an unblocker
that walks a list of blocks whose owners unblock themselves; an entry freed and
created again meanwhile. *Correct if*: each entry is a mutex, sleepers wake.

**Handle tables: free lists and growth** (`ntoskrnl/ex/handle.c`).
*State*: `FirstFree`, `LastFree`, the links through the free entries, the pages,
`HandleCount`, four push locks. *Operations*: create, destroy, move one list to
the other, grow. *Hard*: the ABA problem of the compare-exchange on `FirstFree`,
growth and failure of growth against concurrent frees. *Correct if*: no entry is
given out twice and the count is exact.

**Fast references and the reaper** (`ntoskrnl/ob/obref.c`, `ntoskrnl/ob/oblife.c`,
inlines in `ex.h`), as the primary token of a process uses them
(`ntoskrnl/ps/security.c`, `ntoskrnl/se/token.c`).
*State*: the field `Process->Token`, an address with a small number of references in
its low bits; `PointerCount` of every object; the process lock; `ObpReaperList`, its
links and one work item.
*Operations*: reference (fast, with a refill, or under the lock), return, dereference,
replace, delete on the spot or push for the reaper, reap.
*Hard*: a refill or a return that meets a field that has been replaced; a reader that
has an address but has not counted itself; an object pushed while the reaper decides
to stop. *Correct if*: `PointerCount` is exact, nobody touches a token that is gone,
one reaper is on its way exactly when there is something on the list, and what is
pushed is deleted.

**Keyed events and condition variables** (`ntoskrnl/ex/keyedevt.c`,
`sdk/lib/rtl/condvar.c`).
*State*: two lists of threads per keyed event, with a key and a semaphore each; the
pointer of a condition variable, which is the head of a list of entries on the stacks
of the sleepers and a lock bit.
*Operations*: wait for a key, release a key, each with a timeout; sleep, wake one,
wake all. *Hard*: a timeout at the moment of the meeting; the walk of a waker over
other threads' stacks while these wake up and remove themselves; a sleeper between
its entry on the list and its wait. *Correct if*: a waiter and a releaser of a key
meet, entries are only used while they exist, every call comes back that can, and a
wake-all wakes all that sleep.

### 1.2 How they interact

```
     handle table ----------> push lock (HandleTableLock[0..3])
          |                        |
     entry lock bit --> blocking   +--> gate
          |             push lock ----> event
     run-down protection -------------> event
     fast mutex ----------------------> event <--- kernel APCs
     guarded mutex -------------------> gate
     condition variable --> keyed event (push lock per bucket, semaphore per thread)
     fast reference --> process lock (push lock)
          |
     dereference ----> reaper list --> work item --> worker thread
```

Composition follows these arrows through contracts rather than by multiplying
state spaces: `PushLock` is shown to implement `RWLockContract`, and
`HandleTable` uses locks that behave as that contract says, together with the one
fact beyond it that the code reads (`Locked` is set exactly while somebody owns
the lock, `OwnersCounted`). The process lock in `FastReference` and the lock of a keyed
event's bucket behave as the contract says too. `ConditionVariable` is composed with
`KeyedEvent`, and `FastReference` with `ObjectReaper`, action by action: the lower
module has the state and the steps of its component, the upper one says when a thread
enters and leaves it. `RundownWord` is the layout of the descriptor word,
shared by both run-down modules.

### 1.3 The parts that are not modelled

`PROJECT.json` lists all of them. In short:

| part | why |
|---|---|
| gates (`ke/gate.c`) and the APC on a gate | one step per call here. What is hard in a gate, its lock against the thread lock and the try-lock in between, only happens when an APC takes a thread off it, which guarded mutexes exclude; next in the plan |
| dispatcher (waits, timers, DPCs, scheduling) | only an event with its wait list so far (`FastMutex`) |
| remove locks, resources, dynamic worker threads, LPC, critical sections and SRW locks | in the plan |
| handle counts, names, directories and types of objects; creation, alerts and thread termination of keyed events | the parts of `ob` and `keyedevt.c` next to what is modelled |
| layout of the handle table (three levels), duplication, sweep, enumeration | sequential code on tables nobody else uses, or under one lock |
| memory, cache and configuration managers, I/O, PnP, Ps, Se | clients of the core; their state is page tables, hives, device trees |
| Win32 subsystem, drivers, HAL, boot loader, DLLs, applications | I/O and data processing, much of it third-party |

## 2. The modules and the code

Every read of a shared word and every interlocked operation is an action. What a
routine computes from a value it has read is part of the action that uses it, and
`pc[t]` is the place between two such accesses. Addresses of wait blocks are names
of threads, since each block is on the stack of its thread; counts stay numbers.

| module | code | remarks |
|---|---|---|
| `RundownWord` | bit layout, `ex.h` and `rundown.c` | a word as a record: active, block, count |
| `Rundown` | plain descriptor | references have identities (`held`), the code only counts them; the property that the count is right is stated with them |
| `RundownContract` | - | what callers rely on: references only while live, down only with none out |
| `CacheAwareRundown` | cache-aware descriptor | the loop of one acquire or release on a word is one step, its grain is `Rundown`'s business; `Acquire` uses any processor, so every migration is covered |
| `GuardedMutex` | guarded mutex and its gate | `count` is a number and the additions are the code's, so carries happen; `SpecialApcDisable`, kept beside `Owner` for one assertion, is left out |
| `FastMutex` | fast mutex, event, APC | `KernelApc` removes a sleeping thread of an unsafe acquire, which waits again |
| `MutexContract` | - | at most one thread inside, the same one leaves |
| `PushLock` | push lock | one action per access to the word, step of a walk or handshake on a block; uninitialised fields are `Garbage`, which no property lets anyone follow |
| `RWLockContract` | - | readers together, a writer alone, conversion by the only reader |
| `HandleThreads` | - | the set of threads, which the two modules about handle tables share |
| `HandleEntryLock` | entry lock bit, blocking push lock | one list for all entries; freeing and creating again included; its names say "entry" so that one module can hold the proofs about both halves of `handle.c` |
| `EntryLockContract` | - | a mutex per entry |
| `HandleTable` | free lists and growth | pages are numbered (the three-level tree is layout); memory for a page may be missing at any time |
| `ObjectReaper` | `ObpDeferObjectDeletion`, `ObpDeleteObject`, `ObpReapObject`, the work item | the list is its head and `NextToFree`, with the values NULL and 1 the code uses; an object is free, live or dead (its count is zero) |
| `FastReference` | fast references, reference counts, primary tokens | every read and compare-exchange of the field is an action; what `KeAreAllApcsDisabled` says is left open, so both ways of deletion happen anywhere; memory of a deleted token is used again |
| `KeyedEvent` | `ExpReleaseOrWaitForKeyedEvent` | one bucket; what happens under its lock is one step, the wait and the clean-up are others |
| `ConditionVariable` | condition variables | an entry is the name of its thread, and its key; each call on the caller's lock (`sdk/lib/rtl/critical.c`, `sdk/lib/rtl/srw.c`) is one step, and its own protocol is not modelled |
| `MC...` | - | instances for TLC |
| `RundownProofs`, `CacheAwareRundownProofs`, `GuardedMutexProofs`, `FastMutexProofs`, `PushLockProofs`, `HandleTableProofs` (both modules about handle tables), `FastReferenceProofs`, `ConditionVariableProofs` (with `KeyedEvent`) | - | theorems |

Two routines do not do what they are for (findings 1 and 2 of section 4). Their
modules model them as they are; what holds nevertheless is stated with the help of
history variables, which no guard reads:

* `leaked` in `CacheAwareRundown`: references that were out when a wait returned.
  The properties speak of the time before that. The constant `Tests` says which
  tests for having to wait are considered. The source's is always among them, so
  every behaviour of the source is one of every instance; with it alone, though, an
  owner never sleeps while references are out, and what the releases do for such an
  owner would not be seen. The passing run and the theorems therefore admit the
  opposite test besides it, the violation run does not.
* `exposed` in `HandleTable`: a handle was freed to `FirstFree` while another thread
  was between finding it there and its compare-exchange. The properties speak of the
  time before that, so that they say that nothing else gives a handle out twice.
* `lost` in `HandleTable`: the lists that the assertion at the end of
  `ExpMoveFreeHandles` left in nobody's hands.
* `overwritten` in `HandleEntryLock`: entries that `ExCreateHandle` wrote while they
  were locked, until all who locked them have let go. `ExCreateHandle` does not look
  at the lock bit; it relies on the free lists, which finding 2 is about, so that
  `Create` may happen to any entry at any time. Such an entry is not claimed to be a
  mutex until everybody who locked it has let go.

A compare-exchange on an entry may fail because the entry holds another object's
unlocked value by now; values of entries are not told apart, so the failing branch of
`Lock` is not guarded.

Assumptions on callers: a thread releases only what it holds and in the way it
took it (the generic release of push locks aside); the cache-aware descriptor is
not acquired while it is being re-initialised (`CallersKeptOut`), which is the
caller's duty there as the words are reset one by one.

The contended path of guarded mutexes runs in a guarded region or at APC_LEVEL, so no
APC interrupts its wait at the gate. A special kernel APC may take a waiter of a push
lock off its gate; `KeWaitForGate` waits again before it returns, and as the gate in
a wait block has only one waiter this changes nothing the push lock can see. What it
does inside the gate belongs to the gate module of the plan.

Tokens in `FastReference` are assigned while they are in use nowhere, and nobody has a
handle to them. The other path of `SeExchangePrimaryToken`, for a token in use, ends in
a reference to the old token and its dereference by the caller, which clients do anyway.
A condition variable is used with one caller's lock, whose modes are fixed per thread.

The time-out of
`ExTimedWaitForUnblockPushLock` is not modelled: no caller passes one.

## 3. The runs

Deadlock is checked in every passing run but `cache_aware`: no state without a
successor is reachable, since there is always some call a thread may start unless all
sleep. The owner of a cache-aware descriptor, as written, may sleep for ever.

| run | instance | states | what it shows |
|---|---|---|---|
| `rundown` | 2 clients, 2 references each, 1 owner | 79 k | safety, life of the wait block, asserts, completion, contract |
| `cache_aware` | 3 clients, 2 references, 3 processors, either test | 94 k | accounting, no early signal, an empty sweep is safe |
| `cache_aware_early` | 2 processors, as written | violation | finding 1 |
| `guarded_mutex` | 3 threads | 88 k | owner, fields of `Count`, no lost wake-up, mutex, every waiter gets in |
| `fast_mutex` | 4 threads | 99 k | IRQL, count, no lost wake-up, mutex, no starvation |
| `push_lock` | 3 threads, two of them also writers, all routines | 398 k | reader/writer lock, plausible words, blocks alive, one waker, owners counted, asserts, draining |
| `handle_entry_lock` | 3 threads, 2 entries | 670 k | a mutex per entry, blocks alive, sleepers wake |
| `handle_table` | 2 threads, 2 pages of 2 handles | 1.35 M | no handle twice, exact count, no handle lost, until one is freed in front of a taker |
| `handle_table_reuse` | 2 creators, as written | violation | finding 2 |
| `fast_reference` | 2 threads, one also replaces, 3 tokens, 2 workers, 2 stored references | 264 k | exact counts, no use after free, one reaper, pushed objects are deleted |
| `condition_variable` | 2 sleepers, 2 wakers (one thread is both) | 107 k | entries alive, exact list, rendezvous, wake-all wakes who sleeps, calls return |
| `condition_variable_wake_all` | 1 sleeper, 1 waker | violation | finding 3 |

The type invariants are not among the properties of the runs except through the
theorems: what they say (a count is not negative, an index in range) the properties
say more sharply.

### Bounds, and why they are enough

* *Threads.* The protocols are symmetric in the threads. Two clients suffice for
  run-down: one to be the last to release and one to be overtaken by it; the
  theorem covers any number. Three threads are an owner, a woken waiter and a
  third that barges in between. The fast mutex gets four, so that a list of two
  remains behind a waiter an APC sends back. In push locks, an owner, a waiter
  that is being linked and a waker are three, and two shared owners with a writer
  behind them make the count in a block two.
* *Tickets.* Two per client: releases of one and of several references at once.
* *Processors and skew.* Three processors: visited, being visited and still to be
  visited. `MaxSkew` bounds how far one word's count departs from zero; three is
  beyond what is needed for a word below zero and another above one.
* *Pages.* A page of the model has two usable entries, so that a list may have a
  head and a rest; two pages, so that the table grows while handles are freed,
  and then cannot grow any more. Handle numbers select different locks.
* *Tokens, stored references, workers.* Three tokens: in the field, old and still
  referenced, being assigned or reaped. Two stored references instead of seven are the
  least for which taking one without refilling, taking the last and filling up differ.
  Two workers, so that a second reaper could start if the list let it. Two threads,
  both clients and one of them a replacer: a refill, a locked reference or a return
  against a replacement is between two threads.
* *Sleepers and wakers.* Two sleepers give a list with a head and a tail, for which
  the code differs; two wakers compete for the lock bit, and one thread takes both roles. `Shared` lets two threads have the caller's lock together.
* *Integers.* Counts are far from overflow with any number of threads a machine
  has; their width is not modelled. Counts below zero are.

* *Constraints.* `NothingLeaked` and `NotExposed` end the exploration of a behaviour
  where `leaked` or `exposed` has become true of it: the invariants say nothing of
  what comes after, and there is no way back.

Symmetry is used in the handle table run, which checks no liveness.

### Fairness

`FairSpec` (`FairEntrySpec` for entry locks) assumes weak fairness of the steps of a thread that is inside a
routine: the scheduler runs a ready thread sooner or later. The compare-exchange
loops need no more, since a failed attempt means another thread's success. That
an owner finally releases a mutex or a client a reference is the callers' side of
every one of these contracts; for run-down it is strong fairness, because a client
may go on acquiring and releasing other references in between. Starting a call is
never fair. For condition variables the callers do not keep their own lock for ever and
time passes for a wait with a timeout; a sleeper without one has no claim to wake up.
For the reaper, worker threads run. `PushedObjectsAreDeleted` is about objects that
are on the list: a thread whose compare-exchange to put one there keeps failing
because others succeed is not something weak fairness rules out.
`CallsReturn` is stated for behaviours in which calls stop coming: the lock bit of a
condition variable is a spin lock without a queue. `EveryWaiterGetsIn` and `Drains` are stated for behaviours in which
calls stop coming (guarded mutexes and push locks admit a thread that barges in,
so a waiter may otherwise lose the race for ever), and for fast mutexes without
that condition, because there ownership is handed over, as long as APCs do not
keep sending the waiter to the end of the list.

## 4. What the runs found

1. **Cache-aware wait** (`ntoskrnl/ex/rundown.c:492`, run `cache_aware_early`).
   The routine compares the block's count before the total was added with the
   negative of the total and sleeps if they are equal, which is when everything
   has already been released. Otherwise, that is if references are out, it returns.
   When it does sleep no release is left that would signal it, and it sleeps for ever.
   The comment says "Do we have to wait? If so, go ahead!".
2. **Handles freed to the list they are protected from** (`ntoskrnl/ex/handle.c:304`,
   run `handle_table_reuse`). A creator owns `HandleTableLock[i]` shared while it
   goes from reading a handle's link to the compare-exchange that takes it off
   `FirstFree`. Freeing puts a handle on `FirstFree` exactly when that lock is
   owned. The handle can be taken, freed and be at the head again with another
   rest behind it, and the creator's compare-exchange succeeds with a stale link.
   An entry is then given out twice; the first thing to notice is the assertion on
   the lock bit in `ExUnlockHandleTableEntry`. It takes two creators.
   For the same reason `FirstFree` may have become non-empty while `LastFree` is
   moved to it; a handle whose lock is the table lock, which the mover owns, always goes
   there. The compare-exchange (`ntoskrnl/ex/handle.c:669`) then fails, and the routine
   takes itself to be strict FIFO and asserts (lines 676-677). Without assertions the
   moved list is lost. TLC finds a state with a nonempty `lost` after 41 steps of two
   threads, without a handle exposed to another taker; `NoHandleLost` says that this
   is the only way to lose handles before one is.
3. **A sleeper that a wake-all forgets** (`sdk/lib/rtl/condvar.c:312`, run
   `condition_variable_wake_all`). A waker releases the key of each entry with a
   timeout of zero. If the sleeper is on the list but has not reached
   `NtWaitForKeyedEvent`, the release returns `STATUS_TIMEOUT`, which is 0x102 and
   satisfies `NT_SUCCESS`. The waker takes the thread for woken and removes its
   entry; the sleeper then waits, without a timeout for ever, and no later wake sees
   it. The comments say "Otherwise all waiting threads are woken" and "We failed to
   wake a thread. We'll keep trying", the latter in a branch that is never taken.
   `WakeAllWakesTheSleeping`, which passes, is what remains: whoever has reached the
   keyed event is woken.

## 5. What is proved

For every finite set of threads, tickets, tokens and so on, with the specification
`Spec` without fairness (`EntrySpec` for entry locks):

| module | theorem | statement |
|---|---|---|
| `RundownProofs` | `Safety` | `RundownSafe`: the wait only returns when no reference is out |
| | `BlockLifetime` | `WaitBlockAlive` |
| | `AssertsHold` | `SanityChecks`, the ASSERTs of the routines |
| | `Refinement` | `Spec` implements `RundownContract` |
| | `TypeCorrect` | counts never go below zero |
| `GuardedMutexProofs` | `MutualExclusion` | `Spec` implements `MutexContract` |
| | `FieldsCorrect`, `OwnerCorrect`, `NoWakeupLost`, `TypeCorrect` | the invariants of the run |
| `FastMutexProofs` | `MutualExclusion` | `Spec` implements `MutexContract` |
| | `CountCorrect`, `IrqlCorrect`, `NoWakeupLost`, `TypeCorrect` | the invariants of the run |
| `PushLockProofs` | `Refinement` | `Spec` implements `RWLockContract` |
| | `BlockLifetime`, `SingleWaker`, `OwnersAreCounted` | `BlocksAlive`, `OneWaker`, `OwnersCounted` |
| | `PlausibleValues`, `AssertsHold`, `TypeCorrect` | the words of the kernel-mode test; the ASSERTs; no uninitialised pointer in the word |
| `HandleTableProofs` | `MutualExclusion` | `EntrySpec` implements `EntryLockContract`, entries that are `overwritten` left out |
| | `BlockLifetime`, `EntryTypeCorrect` | `BlocksAlive` of the entry locks |
| | `NoHandleTwice`, `HandlesCounted` | `NoDoubleAllocation`, `CountExact`: both until `exposed` |
| | `EntriesStayLocked` | the assertions that fail in finding 2 fail only once `exposed` is set |
| | `TypeCorrect` | without that condition: no link leads outside the table |
| `CacheAwareRundownProofs` | `ReferencesCounted` | `Accounting`: words, running total and block add up to what is out |
| | `SignalAfterInitialization` | `NoEarlySignal` |
| | `EmptySweepIsSafe` | `SweptEmpty`: after a sweep that counts nothing, nothing is out and nobody is on the way to the block |
| | `TypeCorrect` | |
| `FastReferenceProofs` | `ReferencesCounted` | `PointerCountExact` |
| | `TokensAlive`, `SingleReaper`, `TypeCorrect` | `NoUseAfterFree`, `OneReaper`; counts never go below zero |
| `ConditionVariableProofs` | `EntriesStayAlive`, `ListIsExact` | `EntriesAlive`, `ListExact` |
| | `EveryMeeting` | `Rendezvous` |
| | `TypeCorrect` | |

The theorems about the cache-aware descriptor hold for the source's test and for both
tests together. None of the theorems about handle tables changes the source; what they
leave out is in the history variables of section 2.

Assumptions, all named `ASSUME`s of the modules: the sets are finite (counts are
cardinalities), and the values that stand for no thread, no token or an uninitialised
pointer are not threads or tokens. In `HandleTable` a page has at least one usable
entry and there is memory for at least one page. Every thread has a key of its own in
`ConditionVariable`, since the key is the address of its entry.

**Run-down.** `RundownSafe` says nothing of the count, so it is not inductive. The
strengthening `IInv` ties each place of the owner to where the references are
counted: in the word while there is no block (`runRef.count` is the cardinality of
`held`), in the block while the owner waits (`OwnerInv`). It says what a client knows
inside a call (`ClientInv`): its references in a release are among `held` and those
in an acquire are not; if it saw the active bit in a release, its references keep
the owner waiting and the block alive; if it is about to signal, nothing is held any
more and the event is not yet signalled. `OneSignal` adds that at most one client is
about to signal, so that the first signal cannot end the block under a second. The arithmetic rests on two facts about the
cardinality of a union and a difference. The step `Next` is split by what it does
to the count: takes references, drops them from the word or from the block, moves
the count, or only changes local state.

**Guarded mutex.** `LockInv` (free exactly when nobody holds it, and at most one
holder), `OwnerIsHolder`, `GateInv` (the gate's list is
the sleeping threads, each once, and it is empty while the gate is signalled),
`TokenInv` (a wake-up is in one place only: chosen, in the gate, or in the hands of
the woken waiter, and the woken bit is set exactly then), `OldInv` (what a thread's
stale copy of `Count` may still be relied on for), `WaitInv` (the waiters in `Count`
plus the pending wake-up are the threads at the gate) and `ChosenInv` (if the mutex
is free with waiters and no wake-up under way, some thread in its release is about
to choose one). The last is what makes `NoLostWakeup` inductive; `TokenInv` is what
makes the carry out of the woken bit add exactly one.

**Fast mutex.** Ownership is a token: held, in the event's signal state, or on its
way from a release to the event (`TokenInv`); `CountInv` counts the involved threads;
`ListInv` describes the wait list, through the removal of a thread in its middle by an
APC; `IrqlInv` says whose IRQL the mutex keeps. A token that exists while somebody
is involved is what `NoLostWakeup` needs.

**Push lock.** The list of wait blocks is nowhere in the state as a list: it is a
chain of `Next` pointers from the word, with `Previous` and `Last` pointers that are
filled in when the owner of Waking walks over it, and a cut-off part of it belongs to
the thread that is going to wake it. What a pointer promises can only be said with the
list itself, so the invariant quantifies it: there are `pos` (the order of arrival),
`list` (whether a waiter is in the queue, in whose wake list, or in none), `anchor` (the
first block from the newest that knows the tail) and `tail` such that `ListInv` holds.
`ListedInv` says that a listed waiter has not been signalled and so has not left,
`QueueInv` that `Next` follows the order and that everything behind the anchor is linked
backwards, `ShareInv` that the tail alone counts shared owners, `WalkInv` what the owner
of Waking has linked so far, `WakeInv` what a waker has before it. Every action that
adds a waiter or cuts off a part of the queue names the new list. `OwnerInv` ties the
owners to the word, `WakerInv` the Waking bit to one thread, and `CallInv` says what a
thread may conclude from the value it has read, which a compare-exchange or the bits it
owns keep true.

**Entry locks.** `HolderInv`, about the entries that are not overwritten, gives mutual
exclusion on its own. `BlockInv` says in
which state a wait block is at each place of its owner, and `ChainInv` that the event,
the `Next` pointers of listed blocks and the unblockers lead to listed blocks, no two
to the same one. The last is what makes it impossible for two unblockers to reach one
block, whose owner returns after the first; `BlocksAlive` alone does not exclude it.

**Free lists of the handle table.** Again the lists are chains that the state does not
contain. `IInv` has a function `list` from handles to the list each is in: FirstFree,
LastFree, the one that is being moved, or none. `FreeInv` says that links stay in one
list and that a listed handle is in nobody's hands, `ApartInv` that no two pointers
lead to the same handle. `Taking` is the argument against reuse: while a creator owns
the lock of a handle that it has seen in front of FirstFree, the handle is still there
with the link that was read, or it has left for LastFree, or it is being moved by a
thread whose sweep has not come to that lock, or it is in hands that do not take it to
FirstFree. Under the source's choice of the list the last alternative can fail at
`Choose`, which is where `exposed` is set; what is inductive is `exposed \/ IInv`. A
page that is being added is described by `PageInv`; `Usable` leaves it out until it is
in the list. A list that is lost stays one: nothing says that something leads to it.

**Cache-aware run-down.** `SafeInv` says which words are active at each place of the
sweep, and that an active word has no count (`WordsInv`); what adds up to the references
that are out, the words ahead of the sweep, the running total or the block (`CountInv`);
that until the total is added the block's count has only gone down from zero, so that no
release takes itself for the last one before the event is ready (`BlockInv`); what a
client inside a release relies on (`ClientInv`); and that one client at most signals. As
written the wait may return with references out, which the model remembers in `leaked`:
`IInv` says `leaked = {} => SafeInv`. `SweptEmpty` follows: a release that has read the
address of the block keeps its references in `held`, or has taken the block's count
below zero, and neither fits a total of zero.
The sum over the words is changed in one place by each step, the lemma all the
arithmetic rests on.

**Fast references.** `PointerCountExact` is inductive once it is known what each thread
has at each place (`PcInv`) and that an object is live exactly while its count is not
zero (`LifeInv`). The references are counted as pairs of a thread and a number, so that
what one thread contributes can be exchanged in the cardinality. `GraceInv` is the
argument for the lock that the replacer takes and releases: a reader that has the
address and has not counted itself is protected by the field, or by a replacer that has
yet to get through that lock. `VictimInv` says that the object a thread brought to zero
is its own to delete, `ChainInv` that the reaper's list leads through such objects and
that no two pointers lead to the same one, and `StartInv` that a reaper that has not
begun will find something, without which `OneReaper` is not inductive.

**Condition variables.** `KeyedInv` is what makes `Rendezvous` inductive: a thread is on
one list at most, once, and a waiting thread is on a list or has its semaphore signalled,
never both. `LockInv` gives the lock bit one owner; `ListInv` says that a thread's entry
is on the list until the thread has been told that it is not; `WalkInv` places the
entries in the hands of the owner of the lock bit on the list, the next one in front of
the present one, so that they are alive. Lemmas on sequences without repetitions
(append, removal) carry these proofs.

Each refinement theorem shows that initial states are mapped to initial states
and every step to a step of the contract or to a stutter.

**Only model-checked.** All liveness, since it needs fairness and ENABLED, which the
prover does not handle: `RundownCompletes`, `EveryWaiterGetsIn` of
both mutexes, `Drains`, `SleepersWake`, `PushedObjectsAreDeleted`,
`WakeAllWakesTheSleeping` and `CallsReturn`. Also `NoHandleLost`: what can be reached
along `next` is defined by recursion over the length of the path, and induction over
data is beyond the prover.

## 6. Plan

Written in this order, the most important first:

1. done: run-down protection with its contract and proof; mutexes with theirs;
   push locks; entry locks; free lists of handle tables; cache-aware run-down;
   keyed events with condition variables; fast references with the reaper.
2. done: proofs of every safety property of the passing runs but `NoHandleLost`. Left
   to prove: the
   safety part of what liveness rests on, that is, that no state of a push lock or of
   an entry lock has a sleeper and nobody who will wake it.
3. `Gate` (`ke/gate.c`, `ke/apc.c:213-250`): gate lock against thread lock, the
   try-lock and retry, the APC that takes a thread off a gate; shown to implement
   the one-step gate the mutex and push lock modules use.
4. `RemoveLock` (`io/iomgr/remlock.c`): count, `Removed` flag and event; an abstract
   specification close to `RundownContract`.
5. `Resource` (`ex/resource.c`), dynamic worker threads (`ex/work.c`), waits on
   several objects (`ke/wait.c`), LPC requests and replies, critical sections and SRW
   locks (`sdk/lib/rtl`); handle counts of objects.
