---------------------------- MODULE HandleTable ----------------------------
(***************************************************************************)
(* The free handles of a handle table: the allocation and freeing of       *)
(* entries in ntoskrnl/ex/handle.c.                                        *)
(*                                                                         *)
(* Free entries are linked through NextFreeTableEntry into two lists.      *)
(* Entries are taken off FirstFree by compare-exchange, under a shared     *)
(* lock chosen by the handle; that lock is what is to keep the handle from *)
(* coming back to FirstFree in the meantime.  LastFree becomes FirstFree   *)
(* when that is empty, and when there is nothing in either the table grows *)
(* by a page.                                                              *)
(*                                                                         *)
(* The push locks of the table are reader/writer locks here: module        *)
(* PushLock shows that they are, and that Locked means that somebody owns  *)
(* one.  Handles are numbered, without their tag bits.  Nothing in the     *)
(* tree sets StrictFIFO, so the tests for it all find it clear.            *)
(*                                                                         *)
(* The list that ExpFreeHandleTableEntry chooses is the one of the source, *)
(* which does not keep what the locks are for: a handle may come back to   *)
(* FirstFree between the read of its link and the compare-exchange.  The   *)
(* history variable exposed says that it has done so, and lost says which  *)
(* lists the assertion at the end of ExpMoveFreeHandles left behind.       *)
(***************************************************************************)
EXTENDS Integers, HandleThreads

CONSTANTS PageEntries, \* LOW_LEVEL_ENTRIES: entries of a page, the first unused
          MaxPages     \* bound: the pages there is memory for

ASSUME PageAssumption == PageEntries \in Nat /\ PageEntries > 1 /\ MaxPages \in Nat \ {0}


NoOne == "nobody"
ASSUME NoOneAssumption == NoOne \notin Thread

Locks   == 0 .. 3
Page(p) == (p * PageEntries + 1) .. ((p + 1) * PageEntries - 1)
Handle  == UNION {Page(p) : p \in 0 .. (MaxPages - 1)}

\* GrantedAccess, which shares its place with NextFreeTableEntry.
Access == -1
Link   == Handle \cup {0, Access}

VARIABLES
    firstFree, lastFree, \* the heads of the two lists
    next,                \* NextFreeTableEntry of each entry
    object,              \* the Object of each entry
    pages,               \* NextHandleNeedingPool, in pages
    handleCount,         \* HandleTable->HandleCount
    sharers, owner,      \* who owns each HandleTableLock, shared and exclusively
    pc,                  \* where each thread is
    handle,              \* OldValue, or the handle it frees
    link,                \* NewValue, LastFree or OldValue of the list it frees to
    lock,                \* the index of the lock it is about
    exposed,             \* history: a handle was freed to FirstFree under the eyes
                         \* of a thread about to take it by compare-exchange
    lost                 \* history: the heads of the lists that were moved nowhere

listVars  == <<firstFree, lastFree, next>>
lockVars  == <<sharers, owner>>
tableVars == <<listVars, object, pages, handleCount, lockVars>>
localVars == <<handle, link, lock>>
history   == <<exposed, lost>>
vars == <<firstFree, lastFree, next, object, pages, handleCount, sharers, owner,
          pc, handle, link, lock, exposed, lost>>

Pc == {"idle", "empty", "recheck", "move", "waitOn", "waitAcquire", "waitRelease",
       "moved", "grow", "linkPage", "pushPage", "unlock0",
       "unlockFailed", "failed", "retry", "share",
       "check", "next", "take", "unshare", "unshareRetry", "count", "write",
       "unlock", "clear", "uncount", "choose", "toFirst", "toLast", "pushFirst",
       "pushLast"}

TableTypeOK ==
    /\ firstFree \in Link /\ lastFree \in Link
    /\ next \in [Handle -> Link]
    /\ object \in [Handle -> {"NULL", "locked", "unlocked"}]
    /\ pages \in 1 .. MaxPages
    /\ handleCount \in Int
    /\ sharers \in [Locks -> SUBSET Thread]
    /\ owner \in [Locks -> Thread \cup {NoOne}]
    /\ pc \in [Thread -> Pc]
    /\ handle \in [Thread -> Link]
    /\ link \in [Thread -> Link]
    /\ lock \in [Thread -> Locks]

TypeOK == TableTypeOK /\ exposed \in BOOLEAN /\ lost \subseteq Link

\* The entries of a page in order, the last one linked to l.
Chain(p, l) ==
    [h \in Page(p) |-> IF h + 1 \in Page(p) THEN h + 1 ELSE l]

\* ExpAllocateHandleTable: one page, all of it free.
Init ==
    /\ firstFree = 1 /\ lastFree = 0
    /\ next = [h \in Handle |-> IF h \in Page(0) THEN Chain(0, 0)[h] ELSE 0]
    /\ object = [h \in Handle |-> "NULL"]
    /\ pages = 1
    /\ handleCount = 0
    /\ sharers = [i \in Locks |-> {}]
    /\ owner = [i \in Locks |-> NoOne]
    /\ pc = [t \in Thread |-> "idle"]
    /\ handle = [t \in Thread |-> 0]
    /\ link = [t \in Thread |-> 0]
    /\ lock = [t \in Thread |-> 0]
    /\ exposed = FALSE
    /\ lost = {}

Goto(t, p)   == pc' = [pc EXCEPT ![t] = p]
LockOf(h)    == h % 4
Locked(i)    == sharers[i] # {} \/ owner[i] # NoOne
Free(i)      == ~Locked(i)
Own(t, i)    == owner' = [owner EXCEPT ![i] = t]
Disown(i)    == owner' = [owner EXCEPT ![i] = NoOne]
SetHandle(t, h) == handle' = [handle EXCEPT ![t] = h]
SetLink(t, l)   == link' = [link EXCEPT ![t] = l]
SetLock(t, i)   == lock' = [lock EXCEPT ![t] = i]

\* The thread returns to its caller.
Return(t) == /\ Goto(t, "idle")
             /\ SetHandle(t, 0) /\ SetLink(t, 0) /\ SetLock(t, 0)

\* Allocation goes on with a value read from the head of the list.
Continue(t, h) ==
    /\ SetHandle(t, h)
    /\ IF h = 0 THEN Goto(t, "empty") /\ UNCHANGED lock
                ELSE Goto(t, "share") /\ SetLock(t, LockOf(h))

-----------------------------------------------------------------------------
(* ExpAllocateHandleTableEntry *)

\* ExCreateHandle is called, and every retry: OldValue = FirstFree.
ReadFirst(t) ==
    /\ pc[t] \in {"idle", "retry"}
    /\ Continue(t, firstFree)
    /\ UNCHANGED <<tableVars, link>>

\* The list is empty: take the table lock and look again.
LockTable(t) ==
    /\ pc[t] = "empty"
    /\ Free(0)
    /\ Own(t, 0)
    /\ Goto(t, "recheck")
    /\ UNCHANGED <<listVars, object, pages, handleCount, sharers, localVars>>

Recheck(t) ==
    /\ pc[t] = "recheck"
    /\ SetHandle(t, firstFree)
    /\ Goto(t, IF firstFree # 0 THEN "unlock0" ELSE "move")
    /\ UNCHANGED <<tableVars, link, lock>>

\* ExpMoveFreeHandles: take the whole of LastFree.
TakeLast(t) ==
    /\ pc[t] = "move"
    /\ SetLink(t, lastFree)
    /\ SetLock(t, 1)
    /\ lastFree' = 0
    /\ Goto(t, IF lastFree = 0 THEN "grow" ELSE "waitOn")
    /\ UNCHANGED <<firstFree, next, object, pages, handleCount, lockVars, handle>>

\* ExWaitOnPushLock for each of the other locks.
NextLock(t) ==
    IF lock[t] = 3 THEN Goto(t, "moved") /\ SetLock(t, 0)
                   ELSE Goto(t, "waitOn") /\ SetLock(t, lock[t] + 1)

WaitOn(t) ==
    /\ pc[t] = "waitOn"
    /\ \/ Free(lock[t]) /\ NextLock(t)
       \/ Locked(lock[t]) /\ Goto(t, "waitAcquire") /\ UNCHANGED lock
    /\ UNCHANGED <<tableVars, handle, link>>

WaitAcquire(t) ==
    /\ pc[t] = "waitAcquire"
    /\ Free(lock[t])
    /\ Own(t, lock[t])
    /\ Goto(t, "waitRelease")
    /\ UNCHANGED <<listVars, object, pages, handleCount, sharers, localVars>>

WaitRelease(t) ==
    /\ pc[t] = "waitRelease"
    /\ Disown(lock[t])
    /\ NextLock(t)
    /\ UNCHANGED <<listVars, object, pages, handleCount, sharers, handle, link>>

\* The list that was LastFree becomes FirstFree if that is still empty.
\* Otherwise ASSERT(FALSE) fails; where assertions are compiled out, the list
\* is in nobody's hands from here on.
MoveToFirst(t) ==
    /\ pc[t] = "moved"
    /\ \/ firstFree = 0 /\ firstFree' = link[t] /\ UNCHANGED lost
       \/ firstFree # 0 /\ lost' = lost \cup {link[t]} /\ UNCHANGED firstFree
    /\ SetHandle(t, link[t])
    /\ Goto(t, "unlock0")
    /\ UNCHANGED <<lastFree, next, object, pages, handleCount, lockVars, link, lock>>

\* ExpAllocateHandleTableEntrySlow: a new page, if there is memory for it.
Grow(t) ==
    /\ pc[t] = "grow"
    /\ \/ /\ pages < MaxPages
          /\ next' = [h \in Handle |-> IF h \in Page(pages) THEN Chain(pages, 0)[h]
                                       ELSE next[h]]
          /\ pages' = pages + 1
          /\ Goto(t, "linkPage")
       \/ /\ Goto(t, "unlockFailed")
          /\ UNCHANGED <<next, pages>>
    /\ UNCHANGED <<firstFree, lastFree, object, handleCount, lockVars, localVars>>

LastOfPage == pages * PageEntries - 1

LinkPage(t) ==
    /\ pc[t] = "linkPage"
    /\ SetLink(t, firstFree)
    /\ next' = [next EXCEPT ![LastOfPage] = firstFree]
    /\ Goto(t, "pushPage")
    /\ UNCHANGED <<firstFree, lastFree, object, pages, handleCount, lockVars,
                   handle, lock>>

PushPage(t) ==
    /\ pc[t] = "pushPage"
    /\ \/ /\ firstFree = link[t]
          /\ firstFree' = (pages - 1) * PageEntries + 1
          /\ Goto(t, "unlock0")
       \/ /\ firstFree # link[t]
          /\ Goto(t, "linkPage")
          /\ UNCHANGED firstFree
    /\ UNCHANGED <<lastFree, next, object, pages, handleCount, lockVars, localVars>>

\* The table lock is released; without a value so far, FirstFree is read again.
UnlockTable(t) ==
    /\ pc[t] \in {"unlock0", "unlockFailed"}
    /\ Disown(0)
    /\ \/ handle[t] # 0 /\ Continue(t, handle[t])
       \/ /\ handle[t] = 0
          /\ Goto(t, IF pc[t] = "unlock0" THEN "retry" ELSE "failed")
          /\ UNCHANGED <<handle, lock>>
    /\ SetLink(t, 0)
    /\ UNCHANGED <<listVars, object, pages, handleCount, sharers>>

\* There was no memory: the call fails, unless somebody freed a handle.
Failed(t) ==
    /\ pc[t] = "failed"
    /\ \/ firstFree = 0 /\ Return(t)
       \/ firstFree # 0 /\ Continue(t, firstFree) /\ UNCHANGED link
    /\ UNCHANGED tableVars

\* The lock that goes with the handle, shared.
Share(t) ==
    /\ pc[t] = "share"
    /\ owner[lock[t]] = NoOne
    /\ sharers' = [sharers EXCEPT ![lock[t]] = @ \cup {t}]
    /\ Goto(t, "check")
    /\ UNCHANGED <<listVars, object, pages, handleCount, owner, localVars>>

\* The value changed before the lock was acquired.
Changed(h) == h # firstFree

Check(t) ==
    /\ pc[t] = "check"
    /\ Goto(t, IF Changed(handle[t]) THEN "unshareRetry" ELSE "next")
    /\ UNCHANGED <<tableVars, localVars>>

\* The entry is looked up first; what is not a handle has none, and the code
\* does not expect that.
ReadNext(t) ==
    /\ pc[t] = "next"
    /\ handle[t] \in Handle
    /\ SetLink(t, next[handle[t]])
    /\ Goto(t, "take")
    /\ UNCHANGED <<tableVars, handle, lock>>

Take(t) ==
    /\ pc[t] = "take"
    /\ \/ /\ firstFree = handle[t]
          /\ firstFree' = link[t]
          /\ Goto(t, "unshare")
       \/ /\ firstFree # handle[t]
          /\ Goto(t, "unshareRetry")
          /\ UNCHANGED firstFree
    /\ UNCHANGED <<lastFree, next, object, pages, handleCount, lockVars, localVars>>

Unshare(t) ==
    /\ pc[t] \in {"unshare", "unshareRetry"}
    /\ sharers' = [sharers EXCEPT ![lock[t]] = @ \ {t}]
    /\ Goto(t, IF pc[t] = "unshare" THEN "count" ELSE "retry")
    /\ UNCHANGED <<listVars, object, pages, handleCount, owner, localVars>>

CountUp(t) ==
    /\ pc[t] = "count"
    /\ handleCount' = handleCount + 1
    /\ Goto(t, "write")
    /\ UNCHANGED <<listVars, object, pages, lockVars, localVars>>

\* ExCreateHandle writes the entry, which is locked that way...
Write(t) ==
    /\ pc[t] = "write"
    /\ object' = [object EXCEPT ![handle[t]] = "locked"]
    /\ next' = [next EXCEPT ![handle[t]] = Access]
    /\ Goto(t, "unlock")
    /\ UNCHANGED <<firstFree, lastFree, pages, handleCount, lockVars, localVars>>

\* ... and unlocks it: ExUnlockHandleTableEntry.
Unlock(t) ==
    /\ pc[t] = "unlock"
    /\ object' = [object EXCEPT ![handle[t]] = "unlocked"]
    /\ Return(t)
    /\ UNCHANGED <<listVars, pages, handleCount, lockVars>>

-----------------------------------------------------------------------------
(* ExDestroyHandle and ExpFreeHandleTableEntry *)

\* The handle is looked up and its entry locked.
Destroy(t) ==
    /\ pc[t] = "idle"
    /\ \E h \in Handle :
           /\ object[h] = "unlocked"
           /\ object' = [object EXCEPT ![h] = "locked"]
           /\ SetHandle(t, h)
    /\ Goto(t, "clear")
    /\ UNCHANGED <<listVars, pages, handleCount, lockVars, link, lock>>

Clear(t) ==
    /\ pc[t] = "clear"
    /\ object' = [object EXCEPT ![handle[t]] = "NULL"]
    /\ Goto(t, "uncount")
    /\ UNCHANGED <<listVars, pages, handleCount, lockVars, localVars>>

CountDown(t) ==
    /\ pc[t] = "uncount"
    /\ handleCount' = handleCount - 1
    /\ Goto(t, "choose")
    /\ UNCHANGED <<listVars, object, pages, lockVars, localVars>>

\* Which list the handle goes to: FirstFree if somebody owns its lock.
ListFor(i) == IF Locked(i) THEN "toFirst" ELSE "toLast"

\* Somebody has seen the handle in front of FirstFree, owns its lock, and has
\* not yet come to the compare-exchange.
AboutToTake(h) == \E u \in Thread : pc[u] \in {"next", "take"} /\ handle[u] = h

Choose(t) ==
    /\ pc[t] = "choose"
    /\ LET list == ListFor(LockOf(handle[t])) IN
           /\ Goto(t, list)
           /\ exposed' = (exposed \/ (list = "toFirst" /\ AboutToTake(handle[t])))
    /\ UNCHANGED <<tableVars, localVars, lost>>

\* HandleTableEntry->NextFreeTableEntry = OldValue, the head of that list...
LinkFreed(t) ==
    /\ \/ /\ pc[t] = "toFirst"
          /\ SetLink(t, firstFree)
          /\ next' = [next EXCEPT ![handle[t]] = firstFree]
          /\ Goto(t, "pushFirst")
       \/ /\ pc[t] = "toLast"
          /\ SetLink(t, lastFree)
          /\ next' = [next EXCEPT ![handle[t]] = lastFree]
          /\ Goto(t, "pushLast")
    /\ UNCHANGED <<firstFree, lastFree, object, pages, handleCount, lockVars,
                   handle, lock>>

\* Mutant: the head is stored without a comparison.
StoreAlways(head, l) == TRUE

\* The compare of the compare-exchange on the head of the list.
StillHead(head, l) == head = l

\* ... and the head becomes the handle, if it is still what it was.
PushFreed(t) ==
    /\ \/ /\ pc[t] = "pushFirst" /\ StillHead(firstFree, link[t])
          /\ firstFree' = handle[t]
          /\ Return(t)
          /\ UNCHANGED lastFree
       \/ /\ pc[t] = "pushLast" /\ StillHead(lastFree, link[t])
          /\ lastFree' = handle[t]
          /\ Return(t)
          /\ UNCHANGED firstFree
       \/ /\ pc[t] = "pushFirst" /\ ~StillHead(firstFree, link[t])
          /\ Goto(t, "toFirst")
          /\ UNCHANGED <<firstFree, lastFree, localVars>>
       \/ /\ pc[t] = "pushLast" /\ ~StillHead(lastFree, link[t])
          /\ Goto(t, "toLast")
          /\ UNCHANGED <<firstFree, lastFree, localVars>>
    /\ UNCHANGED <<next, object, pages, handleCount, lockVars>>

-----------------------------------------------------------------------------
Allocate(t) ==
    \/ MoveToFirst(t) /\ UNCHANGED exposed
    \/ /\ \/ ReadFirst(t) \/ LockTable(t) \/ Recheck(t) \/ TakeLast(t)
          \/ WaitOn(t) \/ WaitAcquire(t) \/ WaitRelease(t)
          \/ Grow(t) \/ LinkPage(t) \/ PushPage(t) \/ UnlockTable(t) \/ Failed(t)
          \/ Share(t) \/ Check(t) \/ ReadNext(t) \/ Take(t) \/ Unshare(t)
          \/ CountUp(t) \/ Write(t) \/ Unlock(t)
       /\ UNCHANGED history

Release(t) ==
    \/ Choose(t)
    \/ /\ Destroy(t) \/ Clear(t) \/ CountDown(t) \/ LinkFreed(t) \/ PushFreed(t)
       /\ UNCHANGED history

Next == \E t \in Thread : Allocate(t) \/ Release(t)

Spec == Init /\ [][Next]_vars

-----------------------------------------------------------------------------
(* Properties *)

\* The assertions of ExUnlockHandleTableEntry ("make sure it wasn't earlier")
\* and of ExDestroyHandle: the entry a thread has created or locked is still
\* locked when it unlocks or clears it.
EntryStaysLocked ==
    \A t \in Thread : pc[t] \in {"unlock", "clear"} => object[handle[t]] = "locked"

\* The threads that have a handle in their hands: they have taken it off the
\* list and not yet published it, or cleared it and not yet put it back.
Holding(h) == {t \in Thread :
                  /\ handle[t] = h
                  /\ pc[t] \in {"unshare", "count", "write", "unlock", "clear", "uncount",
                                "choose", "toFirst", "toLast", "pushFirst", "pushLast"}}

\* An entry that is in use is not at the head of a free list, and no entry is
\* in the hands of two threads: no handle is given out twice, whatever is
\* freed, moved and grown meanwhile, as long as ExpFreeHandleTableEntry has
\* not put a handle back in front of a thread that was about to take it.  That
\* choice of list is thus the one thing that gives a handle out twice; the
\* assertion EntryStaysLocked fails after it.
NoDoubleAllocation ==
    ~exposed => \A h \in Handle :
        /\ Cardinality(Holding(h)) <= 1
        /\ object[h] # "NULL" \/ Holding(h) # {} => h # firstFree /\ h # lastFree

\* HandleCount is the number of entries in use, up to the calls under way; it
\* is as long as no handle was put back in front of a thread about to take it.
CountExact ==
    ~exposed => handleCount =
        Cardinality({h \in Handle : object[h] # "NULL" /\
                        \A t \in Holding(h) : pc[t] \in {"unlock", "clear"}})
          + Cardinality({t \in Thread : pc[t] \in {"write", "uncount"}})

\* Where the free handles of the table can be found: from the two heads, from
\* the list a thread is moving, in a page that is being added, and, for nobody
\* any more, from the lists that the assertion of ExpMoveFreeHandles left
\* behind.
Heads == {firstFree, lastFree}
           \cup {link[t] : t \in {u \in Thread : pc[u] \in {"waitOn", "waitAcquire",
                                                            "waitRelease", "moved"}}}
           \cup {(pages - 1) * PageEntries + 1 :
                    t \in {u \in Thread : pc[u] \in {"linkPage", "pushPage"}}}
           \cup lost

OnList(n) ==
    LET after[i \in 0 .. n] ==
            IF i = 0 THEN Heads
            ELSE LET S == after[i - 1] IN S \cup {next[h] : h \in S \cap Handle}
    IN  after[n]

\* Every handle of the table is in use, in somebody's hands, or free and still
\* on a list: concurrent frees, takes, moves and new pages drop no handle.
\* What is dropped at all is dropped by the assertion of ExpMoveFreeHandles,
\* when a handle is freed to FirstFree while LastFree is being moved there; and
\* (see NoDoubleAllocation) after a handle was put back under a taker's eyes.
NoHandleLost ==
    ~exposed => \A h \in 1 .. LastOfPage \cap Handle :
        object[h] # "NULL" \/ Holding(h) # {} \/ h \in OnList(Cardinality(Handle))
=============================================================================
