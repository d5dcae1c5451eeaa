-------------------------- MODULE HandleEntryLock --------------------------
(***************************************************************************)
(* The lock bit of handle table entries (ntoskrnl/ex/handle.c) and the     *)
(* blocking form of push locks it waits on (ExBlockPushLock,               *)
(* ExWaitForUnblockPushLock and ExfUnblockPushLock of                      *)
(* ntoskrnl/ex/pushlock.c).                                                *)
(*                                                                         *)
(* An entry is locked by clearing a bit of it.  A thread that finds it     *)
(* locked puts a wait block, which is on its stack, on the table's         *)
(* HandleContentionEvent, looks at the entry again, and waits.  Whoever    *)
(* unlocks or frees any entry of the table takes the whole list of blocks  *)
(* and wakes everybody.                                                    *)
(***************************************************************************)
EXTENDS Integers, HandleThreads

CONSTANT Entry

ASSUME EntryAssumption == Entry # {}

Null    == "NULL"
Garbage == "uninitialised"
NoEntry == "none"
ASSUME ValueAssumption == Null \notin Thread /\ Garbage \notin Thread /\ NoEntry \notin Entry

VARIABLES
    value,   \* of each entry: free, locked or unlocked
    event,   \* HandleContentionEvent: the newest wait block
    block,   \* the wait block on the stack of each thread
    epc,     \* where each thread is
    entry,   \* the entry it is about
    old,     \* OldValue of ExBlockPushLock
    cur,     \* WaitBlock of ExfUnblockPushLock
    blocked, \* the thread is in ExpBlockOnLockedHandleEntry, its block in use
    overwritten \* history: the entries that were created over while somebody had
                \* them locked, until all who have them locked have let go

evars == <<value, event, block, epc, entry, old, cur, blocked, overwritten>>

Pointer == Thread \cup {Null, Garbage}
Block   == [wait : BOOLEAN, next : Pointer,
            event : {"uninitialised", "clear", "signalled"}]
NoBlock == [wait |-> FALSE, next |-> Garbage, event |-> "uninitialised"]

EntryPc == {"idle", "try", "lock", "holding", "block", "push", "look", "exchange",
       "flag", "signal", "initevent", "test", "asleep"}

EntryTypeOK ==
    /\ value \in [Entry -> {"free", "locked", "unlocked"}]
    /\ event \in Thread \cup {Null}
    /\ block \in [Thread -> Block]
    /\ epc \in [Thread -> EntryPc]
    /\ entry \in [Thread -> Entry \cup {NoEntry}]
    /\ old \in [Thread -> Thread \cup {Null}]
    /\ cur \in [Thread -> Thread \cup {Null}]
    /\ blocked \in [Thread -> BOOLEAN]
    /\ overwritten \subseteq Entry

EntryInit ==
    /\ value = [e \in Entry |-> "free"]
    /\ event = Null
    /\ block = [t \in Thread |-> NoBlock]
    /\ epc = [t \in Thread |-> "idle"]
    /\ entry = [t \in Thread |-> NoEntry]
    /\ old = [t \in Thread |-> Null]
    /\ cur = [t \in Thread |-> Null]
    /\ blocked = [t \in Thread |-> FALSE]
    /\ overwritten = {}

EntryGoto(t, p) == epc' = [epc EXCEPT ![t] = p]

-----------------------------------------------------------------------------
(* ExpLockHandleTableEntry *)

\* A thread looks a handle up and wants its entry.
Call(t) ==
    /\ epc[t] = "idle"
    /\ \E e \in Entry : entry' = [entry EXCEPT ![t] = e]
    /\ EntryGoto(t, "try")
    /\ UNCHANGED <<value, event, block, old, cur, blocked, overwritten>>

\* The entry is free and the call fails, or it is unlocked or locked.
Try(t) ==
    /\ epc[t] = "try"
    /\ \/ /\ value[entry[t]] = "free"
          /\ EntryGoto(t, "idle")
          /\ entry' = [entry EXCEPT ![t] = NoEntry]
       \/ /\ value[entry[t]] # "free"
          /\ EntryGoto(t, IF value[entry[t]] = "unlocked" THEN "lock" ELSE "block")
          /\ UNCHANGED entry
    /\ UNCHANGED <<value, event, block, old, cur, blocked, overwritten>>

\* Mutant: the lock bit is removed with a plain store.
LockAlways(v) == TRUE

\* The compare of the compare-exchange: the entry is as it was read.
AsRead(v) == v = "unlocked"

\* The compare-exchange; the thread blocks when it fails as well.  It may also
\* fail on an unlocked entry: since it was read the entry may have been freed,
\* created again and unlocked, and then it holds the value of another object.
Lock(t) ==
    /\ epc[t] = "lock"
    /\ \/ /\ AsRead(value[entry[t]])
          /\ value' = [value EXCEPT ![entry[t]] = "locked"]
          /\ EntryGoto(t, "holding")
       \/ /\ EntryGoto(t, "block")
          /\ UNCHANGED value
    /\ UNCHANGED <<event, block, entry, old, cur, blocked, overwritten>>

\* ExCreateHandle writes the entry, which is locked that way.  It writes it
\* whatever it holds: the free lists (module HandleTable) are to give it to one
\* thread only, and do not always do so.  Here they may do so as soon as it is
\* cleared, earlier than ExpFreeHandleTableEntry.
Create(t) ==
    /\ epc[t] = "idle"
    /\ \E e \in Entry :
          /\ value' = [value EXCEPT ![e] = "locked"]
          /\ entry' = [entry EXCEPT ![t] = e]
          /\ overwritten' = IF value[e] = "locked" THEN overwritten \cup {e}
                            ELSE overwritten
    /\ EntryGoto(t, "holding")
    /\ UNCHANGED <<event, block, old, cur, blocked>>

\* Those who have an entry locked, or believe so.
Holders(e) == {t \in Thread : epc[t] = "holding" /\ entry[t] = e}

\* ExUnlockHandleTableEntry, and the end of ExDestroyHandle.
UnlockEntry(t) ==
    /\ epc[t] = "holding"
    /\ \E v \in {"unlocked", "free"} : value' = [value EXCEPT ![entry[t]] = v]
    /\ EntryGoto(t, "exchange")
    /\ overwritten' = IF Holders(entry[t]) = {t} THEN overwritten \ {entry[t]}
                      ELSE overwritten
    /\ UNCHANGED <<event, block, entry, old, cur, blocked>>

-----------------------------------------------------------------------------
(* ExpBlockOnLockedHandleEntry *)

\* ExBlockPushLock: the wait flag, and the first value of the lock.
BlockPushLock(t) ==
    /\ epc[t] = "block"
    /\ block' = [block EXCEPT ![t] = [wait |-> TRUE, next |-> Garbage,
                                      event |-> "uninitialised"]]
    /\ blocked' = [blocked EXCEPT ![t] = TRUE]
    /\ old' = [old EXCEPT ![t] = event]
    /\ EntryGoto(t, "push")
    /\ UNCHANGED <<value, event, entry, cur, overwritten>>

\* WaitBlock->Next = OldValue.
Linked(b, next) == [b EXCEPT !.next = next]

\* The block goes in front of the others.
Push(t) ==
    /\ epc[t] = "push"
    /\ block' = [block EXCEPT ![t] = Linked(@, old[t])]
    /\ \/ /\ event = old[t]
          /\ event' = t
          /\ old' = [old EXCEPT ![t] = Null]
          /\ EntryGoto(t, "look")
       \/ /\ event # old[t]
          /\ old' = [old EXCEPT ![t] = event]
          /\ UNCHANGED <<event, epc>>
    /\ UNCHANGED <<value, entry, cur, blocked, overwritten>>

\* Mutant: the entry is not looked at again once the block is in the list.
NeverLooks(v) == FALSE

\* The entry was unlocked or freed before the block was in the list.
NoLongerLocked(v) == v # "locked"

\* Nobody may come to wake the thread then: it wakes everybody itself.
Look(t) ==
    /\ epc[t] = "look"
    /\ EntryGoto(t, IF NoLongerLocked(value[entry[t]]) THEN "exchange" ELSE "initevent")
    /\ UNCHANGED <<value, event, block, entry, old, cur, blocked, overwritten>>

\* ExpBlockOnLockedHandleEntry returns; its frame is gone.
Unblocked(t) ==
    /\ block' = [block EXCEPT ![t] = NoBlock]
    /\ blocked' = [blocked EXCEPT ![t] = FALSE]
    /\ EntryGoto(t, "try")

-----------------------------------------------------------------------------
(* ExfUnblockPushLock *)

\* Mutant: the thread's own block is not waited for.
NeverPending(b) == FALSE

\* CurrentWaitBlock is still pending: somebody else has it in his list.
Pending(b) == b.wait

\* All blocks are done.  A thread that passed its own block leaves only when
\* nobody is going to touch it; an unlocker just leaves.
Done(t, blk) ==
    \/ /\ blocked[t] /\ Pending(blk[t])
       /\ EntryGoto(t, "initevent")
       /\ block' = blk
       /\ UNCHANGED <<entry, blocked>>
    \/ /\ blocked[t] /\ ~Pending(blk[t])
       /\ block' = [blk EXCEPT ![t] = NoBlock]
       /\ blocked' = [blocked EXCEPT ![t] = FALSE]
       /\ EntryGoto(t, "try")
       /\ UNCHANGED entry
    \/ /\ ~blocked[t]
       /\ EntryGoto(t, "idle")
       /\ entry' = [entry EXCEPT ![t] = NoEntry]
       /\ block' = blk
       /\ UNCHANGED blocked

\* The loop goes on with the next block.
Advance(t, n, blk) ==
    \/ n = Null /\ cur' = [cur EXCEPT ![t] = Null] /\ Done(t, blk)
    \/ /\ n # Null
       /\ cur' = [cur EXCEPT ![t] = n]
       /\ EntryGoto(t, "flag")
       /\ block' = blk
       /\ UNCHANGED <<entry, blocked>>

\* The whole list is taken.
Exchange(t) ==
    /\ epc[t] = "exchange"
    /\ event' = Null
    /\ Advance(t, event, block)
    /\ UNCHANGED <<value, old, overwritten>>

\* The waiter had reset its flag before: it waits for the event.
AlreadyReset(b) == ~b.wait

\* Next is read and the wait flag reset.
ResetFlag(t) ==
    /\ epc[t] = "flag"
    /\ LET b == block[cur[t]]
           reset == [block EXCEPT ![cur[t]].wait = FALSE] IN
       \/ ~AlreadyReset(b) /\ Advance(t, b.next, reset)
       \/ AlreadyReset(b) /\ EntryGoto(t, "signal") /\ block' = reset
          /\ UNCHANGED <<cur, entry, blocked>>
    /\ UNCHANGED <<value, event, old, overwritten>>

\* KeSetEventBoostPriority; Next was read before.
Signal(t) ==
    /\ epc[t] = "signal"
    /\ Advance(t, block[cur[t]].next,
               [block EXCEPT ![cur[t]].event = "signalled"])
    /\ UNCHANGED <<value, event, old, overwritten>>

-----------------------------------------------------------------------------
(* ExWaitForUnblockPushLock *)

InitEvent(t) ==
    /\ epc[t] = "initevent"
    /\ block' = [block EXCEPT ![t].event = "clear"]
    /\ EntryGoto(t, "test")
    /\ UNCHANGED <<value, event, entry, old, cur, blocked, overwritten>>

\* InterlockedBitTestAndReset of the wait flag by the waiter.
TestFlag(t) ==
    /\ epc[t] = "test"
    /\ \/ /\ block[t].wait
          /\ block' = [block EXCEPT ![t].wait = FALSE]
          /\ EntryGoto(t, "asleep")
          /\ UNCHANGED blocked
       \/ ~block[t].wait /\ Unblocked(t)
    /\ UNCHANGED <<value, event, entry, old, cur, overwritten>>

WaitForEvent(t) ==
    /\ epc[t] = "asleep"
    /\ block[t].event = "signalled"
    /\ Unblocked(t)
    /\ UNCHANGED <<value, event, entry, old, cur, overwritten>>

-----------------------------------------------------------------------------
Step(t) == \/ Try(t) \/ Lock(t) \/ UnlockEntry(t) \/ BlockPushLock(t) \/ Push(t)
           \/ Look(t) \/ Exchange(t) \/ ResetFlag(t) \/ Signal(t)
           \/ InitEvent(t) \/ TestFlag(t) \/ WaitForEvent(t)

EntryNext == \E t \in Thread : Call(t) \/ Create(t) \/ Step(t)

EntrySpec == EntryInit /\ [][EntryNext]_evars

\* A thread inside the routines is scheduled, and an owner finally unlocks.
FairEntrySpec == EntrySpec /\ \A t \in Thread : WF_evars(Step(t))

-----------------------------------------------------------------------------
(* Properties *)

\* Who is inside an entry, unless ExCreateHandle stored over a locked one.
Inside(e) == IF e \in overwritten THEN {} ELSE Holders(e)

\* The lock bit of an entry is a mutex, from its creation to its end and
\* over again for the next handle that uses it.  The one exception is an entry
\* that the free lists give out while somebody has it locked: ExCreateHandle
\* stores over it without a look, two threads are inside, and nothing is said
\* about that entry until both have let go.  The other entries are mutexes all
\* the same, and so is this one afterwards.
Contract == INSTANCE EntryLockContract WITH inside <- [e \in Entry |-> Inside(e)]
ImplementsMutex == Contract!ContractSpec

\* An unblocker only touches the block of a thread that is still blocked:
\* the block is on the stack of that thread.  The event in it is ready when it
\* is signalled, although it is initialised after the block is in the list,
\* and its waiter is there.
BlocksAlive ==
    \A t \in Thread :
        /\ epc[t] \in {"flag", "signal"} => blocked[cur[t]]
        /\ epc[t] = "signal" => block[cur[t]].event = "clear" /\ epc[cur[t]] = "asleep"

\* Every thread that sleeps over an entry is woken, that is, it is awake again
\* and again: also when the entry was unlocked, or freed, before its wait block
\* was in the list.
SleepersWake == \A t \in Thread : []<>(epc[t] # "asleep")
=============================================================================
