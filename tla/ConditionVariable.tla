------------------------- MODULE ConditionVariable -------------------------
(***************************************************************************)
(* Condition variables of the run-time library (sdk/lib/rtl/condvar.c) on  *)
(* top of a keyed event.                                                   *)
(*                                                                         *)
(* Sleepers put an entry that is on their stack on a list, newest first,   *)
(* whose head and lock bit share the variable's pointer; the address of    *)
(* the entry is the key they wait for.  A waker holds the lock bit while   *)
(* it walks the list from the oldest entry on and releases the keys one    *)
(* after the other, each with a timeout of zero.                           *)
(*                                                                         *)
(* The caller's lock is a critical section (sdk/lib/rtl/critical.c) or an  *)
(* SRW lock in either mode (sdk/lib/rtl/srw.c).  Each call on it is one    *)
(* step: what it does inside is a protocol of its own.                     *)
(***************************************************************************)
EXTENDS KeyedEvent

CONSTANTS
    Sleeper,  \* who may sleep,
    Waker,    \* who may wake,
    Shared    \* and who has the caller's lock in shared mode

ASSUME RoleAssumption == (Sleeper \cup Waker \cup Shared) \subseteq Thread

\* The key of a sleeper is the address of its entry.
ASSUME KeyAssumption == Key = Thread

Null == "NULL"
ASSUME NullAssumption == Null \notin Thread /\ NoKey \notin Thread

VARIABLES
    locked,      \* COND_VAR_LOCKED_FLAG of ConditionVariable->Ptr
    list,        \* the entries, newest first: the head is the address in Ptr
    handled,     \* ListRemovalHandled of each thread's entry
    pc,          \* where each thread is
    holders,     \* the threads that have the caller's lock
    timed,       \* it sleeps with a TimeOut
    releaseAll,  \* ReleaseAll of InternalWake
    entry,       \* Entry
    next,        \* NextEntry
    drop         \* the entry InternalUnlockCondVar has to remove

cvars == <<locked, list, handled>>
lvars == <<holders, timed, releaseAll, entry, next, drop>>
vars  == <<kvars, cvars, pc, lvars>>

SleepPc == {"insert", "inserted", "dropLock", "enter", "asleep", "lockSelf",
            "unlinkSelf", "unlockSelf", "reacquire"}
WakePc  == {"lockWake", "release", "releasing", "unlinkWake", "unlockWake"}

TypeOK ==
    /\ KeyedTypeOK
    /\ locked \in BOOLEAN
    /\ list \in Seq(Thread)
    /\ handled \in [Thread -> BOOLEAN]
    /\ pc \in [Thread -> {"idle"} \cup SleepPc \cup WakePc]
    /\ holders \subseteq Thread
    /\ timed \in [Thread -> BOOLEAN]
    /\ releaseAll \in [Thread -> BOOLEAN]
    /\ entry \in [Thread -> Thread \cup {Null}]
    /\ next \in [Thread -> Thread \cup {Null}]
    /\ drop \in [Thread -> Thread \cup {Null}]

\* RtlInitializeConditionVariable.
Init ==
    /\ KeyedInit
    /\ locked = FALSE
    /\ list = << >>
    /\ handled = [t \in Thread |-> FALSE]
    /\ pc = [t \in Thread |-> "idle"]
    /\ holders = {}
    /\ timed = [t \in Thread |-> FALSE]
    /\ releaseAll = [t \in Thread |-> FALSE]
    /\ entry = [t \in Thread |-> Null]
    /\ next = [t \in Thread |-> Null]
    /\ drop = [t \in Thread |-> Null]

Goto(t, p) == pc' = [pc EXCEPT ![t] = p]

-----------------------------------------------------------------------------
(* The caller's lock *)

\* The lock is free, or owned by threads in shared mode and asked for in shared
\* mode: RtlAcquireSRWLockShared.  Nobody asks for it twice.
Grantable(t) == \A u \in holders : {t, u} \subseteq Shared

\* RtlEnterCriticalSection or RtlAcquireSRWLock..., up to its return.
AcquireCallerLock(t) ==
    /\ pc[t] = "idle"
    /\ t \notin holders
    /\ Grantable(t)
    /\ holders' = holders \cup {t}
    /\ UNCHANGED <<kvars, cvars, pc, timed, releaseAll, entry, next, drop>>

\* RtlLeaveCriticalSection or RtlReleaseSRWLock...
ReleaseCallerLock(t) ==
    /\ pc[t] = "idle"
    /\ t \in holders
    /\ holders' = holders \ {t}
    /\ UNCHANGED <<kvars, cvars, pc, timed, releaseAll, entry, next, drop>>

-----------------------------------------------------------------------------
(* The lock bit *)

\* InternalUnlockCondVar, the compare-exchange at its end.
Unlock(t, from, to) ==
    /\ pc[t] = from
    /\ locked' = FALSE
    /\ Goto(t, to)
    /\ UNCHANGED <<kvars, list, handled, lvars>>

\* Mutant: the owner learns that its entry is gone while it still is there.
UnlinkEarlyFlag(t, from, to) ==
    /\ pc[t] = from
    /\ list' = list
    /\ handled' = IF drop[t] = Null THEN handled
                  ELSE [handled EXCEPT ![drop[t]] = TRUE]
    /\ drop' = [drop EXCEPT ![t] = Null]
    /\ Goto(t, to)
    /\ UNCHANGED <<kvars, locked, holders, timed, releaseAll, entry, next>>

\* InternalUnlockCondVar before that: RemoveEntry is taken off the list and its
\* owner told.
Unlink(t, from, to) ==
    /\ pc[t] = from
    /\ list' = RemoveFirst(list, drop[t])
    /\ handled' = IF drop[t] = Null THEN handled
                  ELSE [handled EXCEPT ![drop[t]] = TRUE]
    /\ drop' = [drop EXCEPT ![t] = Null]
    /\ Goto(t, to)
    /\ UNCHANGED <<kvars, locked, holders, timed, releaseAll, entry, next>>

-----------------------------------------------------------------------------
(* InternalSleep *)

\* RtlSleepConditionVariableCS and RtlSleepConditionVariableSRW.
Sleep(t) ==
    /\ t \in Sleeper
    /\ pc[t] = "idle"
    /\ t \in holders
    /\ handled' = [handled EXCEPT ![t] = FALSE]
    /\ \E b \in BOOLEAN : timed' = [timed EXCEPT ![t] = b]
    /\ Goto(t, "insert")
    /\ UNCHANGED <<kvars, locked, list, holders, releaseAll, entry, next, drop>>

\* InternalLockCondVar with an entry to insert: it becomes the new head.
Insert(t) ==
    /\ pc[t] = "insert"
    /\ ~locked
    /\ locked' = TRUE
    /\ list' = <<t>> \o list
    /\ Goto(t, "inserted")
    /\ UNCHANGED <<kvars, handled, lvars>>

Inserted(t) == Unlock(t, "inserted", "dropLock")

\* The caller's lock is released.
DropLock(t) ==
    /\ pc[t] = "dropLock"
    /\ holders' = holders \ {t}
    /\ Goto(t, "enter")
    /\ UNCHANGED <<kvars, cvars, timed, releaseAll, entry, next, drop>>

\* NtWaitForKeyedEvent is called ...
EnterWait(t) ==
    /\ pc[t] = "enter"
    /\ EnterKeyedEvent(t, "wait", t, IF timed[t] THEN "some" ELSE "none")
    /\ Goto(t, "asleep")
    /\ UNCHANGED <<cvars, lvars>>

\* Mutant: the thread trusts that whoever woke it removed its entry.
WakeUpTrusting(t) ==
    /\ pc[t] = "asleep"
    /\ LeaveKeyedEvent(t)
    /\ Goto(t, "reacquire")
    /\ UNCHANGED <<cvars, lvars>>

\* ... and returns.
WakeUp(t) ==
    /\ pc[t] = "asleep"
    /\ LeaveKeyedEvent(t)
    /\ Goto(t, IF handled[t] THEN "reacquire" ELSE "lockSelf")
    /\ UNCHANGED <<cvars, lvars>>

\* InternalLockCondVar with AbortIfLocked: the thread takes the lock, finds the
\* list empty, or gives up because the owner of the lock removed its entry.
LockSelf(t) ==
    /\ pc[t] = "lockSelf"
    /\ \/ /\ ~locked
          /\ list # << >>
          /\ locked' = TRUE
          /\ drop' = [drop EXCEPT ![t] = IF handled[t] THEN Null ELSE t]
          /\ Goto(t, "unlinkSelf")
       \/ /\ ~locked
          /\ list = << >>
          /\ Goto(t, "reacquire")
          /\ UNCHANGED <<locked, drop>>
       \/ /\ locked
          /\ handled[t]
          /\ Goto(t, "reacquire")
          /\ UNCHANGED <<locked, drop>>
    /\ UNCHANGED <<kvars, list, handled, holders, timed, releaseAll, entry, next>>

UnlinkSelf(t) == Unlink(t, "unlinkSelf", "unlockSelf")
UnlockSelf(t) == Unlock(t, "unlockSelf", "reacquire")

\* The caller's lock is taken again and the call returns; its stack is gone.
Reacquire(t) ==
    /\ pc[t] = "reacquire"
    /\ Grantable(t)
    /\ holders' = holders \cup {t}
    /\ timed' = [timed EXCEPT ![t] = FALSE]
    /\ handled' = [handled EXCEPT ![t] = FALSE]
    /\ Goto(t, "idle")
    /\ UNCHANGED <<kvars, locked, list, releaseAll, entry, next, drop>>

-----------------------------------------------------------------------------
(* InternalWake *)

\* RtlWakeConditionVariable and RtlWakeAllConditionVariable.
Wake(t, all) ==
    /\ t \in Waker
    /\ pc[t] = "idle"
    /\ releaseAll' = [releaseAll EXCEPT ![t] = all]
    /\ Goto(t, "lockWake")
    /\ UNCHANGED <<kvars, cvars, holders, timed, entry, next, drop>>

\* InternalLockCondVar: nobody is there, or the walk begins with the oldest.
LockWake(t) ==
    /\ pc[t] = "lockWake"
    /\ ~locked
    /\ \/ /\ list = << >>
          /\ Goto(t, "idle")
          /\ releaseAll' = [releaseAll EXCEPT ![t] = FALSE]
          /\ UNCHANGED <<locked, entry>>
       \/ /\ list # << >>
          /\ locked' = TRUE
          /\ entry' = [entry EXCEPT ![t] = Last(list)]
          /\ Goto(t, "release")
          /\ UNCHANGED releaseAll
    /\ UNCHANGED <<kvars, list, handled, holders, timed, next, drop>>

\* Mutant: the walk ends one entry too early.
StopBeforeHead(e) ==
    LET i == CHOOSE i \in DOMAIN list : list[i] = e
    IN  IF i <= 2 THEN Null ELSE list[i - 1]

\* Mutant: the walk does not stop at the head; the list is circular.
GoesAround(e) ==
    LET i == CHOOSE i \in DOMAIN list : list[i] = e
    IN  IF i = 1 THEN Last(list) ELSE list[i - 1]

\* Entry->ListEntry.Blink, or NULL after the head.
NextEntry(e) ==
    LET i == CHOOSE i \in DOMAIN list : list[i] = e
    IN  IF i = 1 THEN Null ELSE list[i - 1]

\* NextEntry is stored away and NtReleaseKeyedEvent called.
Release(t) ==
    /\ pc[t] = "release"
    /\ next' = [next EXCEPT ![t] = NextEntry(entry[t])]
    /\ EnterKeyedEvent(t, "release", entry[t], "zero")
    /\ Goto(t, "releasing")
    /\ UNCHANGED <<cvars, holders, timed, releaseAll, entry, drop>>

\* NT_SUCCESS: the status is not negative.  STATUS_TIMEOUT is not.
NT_SUCCESS(s) == s \in {"success", "timeout"}

\* NtReleaseKeyedEvent has returned.  The entry is removed, at once or, if it
\* is the head, by InternalUnlockCondVar, and the walk goes on or ends.  (The
\* loop's continue is for a negative status, which this call does not get.)
Released(t) ==
    LET ok     == NT_SUCCESS(status[t])
        isHead == entry[t] = Head(list)
        stop   == next[t] = Null \/ (ok /\ ~releaseAll[t])
    IN  /\ pc[t] = "releasing"
        /\ LeaveKeyedEvent(t)
        /\ drop' = IF ok /\ isHead THEN [drop EXCEPT ![t] = entry[t]] ELSE drop
        /\ list' = IF ok /\ ~isHead THEN RemoveFirst(list, entry[t]) ELSE list
        /\ handled' = IF ok /\ ~isHead THEN [handled EXCEPT ![entry[t]] = TRUE]
                      ELSE handled
        /\ entry' = [entry EXCEPT ![t] = IF stop THEN Null ELSE next[t]]
        /\ next' = [next EXCEPT ![t] = Null]
        /\ Goto(t, IF stop THEN "unlinkWake" ELSE "release")
        /\ UNCHANGED <<locked, holders, timed, releaseAll>>

UnlinkWake(t) == Unlink(t, "unlinkWake", "unlockWake")

UnlockWake(t) ==
    /\ pc[t] = "unlockWake"
    /\ locked' = FALSE
    /\ releaseAll' = [releaseAll EXCEPT ![t] = FALSE]
    /\ Goto(t, "idle")
    /\ UNCHANGED <<kvars, list, handled, holders, timed, entry, next, drop>>

-----------------------------------------------------------------------------
InKeyedEvent(t) == KeyedStep(t) /\ UNCHANGED <<cvars, pc, lvars>>

Call(t) == \/ AcquireCallerLock(t)
           \/ Sleep(t)
           \/ \E all \in BOOLEAN : Wake(t, all)

SleepStep(t) == \/ Insert(t) \/ Inserted(t) \/ DropLock(t) \/ EnterWait(t)
                \/ WakeUp(t) \/ LockSelf(t) \/ UnlinkSelf(t) \/ UnlockSelf(t)
                \/ Reacquire(t)

WakeStep(t) == \/ LockWake(t) \/ Release(t) \/ Released(t)
               \/ UnlinkWake(t) \/ UnlockWake(t)

Next == \E t \in Thread : \/ Call(t) \/ ReleaseCallerLock(t)
                          \/ SleepStep(t) \/ WakeStep(t) \/ InKeyedEvent(t)

Spec == Init /\ [][Next]_vars

\* A thread inside the library or the kernel is scheduled, time passes for
\* those who wait with a timeout, and the caller's lock is not kept for ever.
Fairness == \A t \in Thread :
               WF_vars(SleepStep(t) \/ WakeStep(t) \/ InKeyedEvent(t)
                         \/ ReleaseCallerLock(t))

FairSpec == Spec /\ Fairness

-----------------------------------------------------------------------------
(* Properties *)

\* The threads whose entry is on their stack: from its insertion until the
\* thread decides that it has been removed.
Alive == {t \in Thread : pc[t] \in {"inserted", "dropLock", "enter", "asleep",
                                    "lockSelf", "unlinkSelf", "unlockSelf"}}

\* Entries are on stacks: whatever timeouts, wakers and self-removal do, the
\* list, the walk of a waker (the current and the stored next entry) and the
\* entry that is about to be removed are never those of a thread that has left
\* InternalSleep.
EntriesAlive ==
    /\ ToSet(list) \subseteq Alive
    /\ \A t \in Thread : /\ pc[t] = "release" => entry[t] \in ToSet(list)
                         /\ next[t] # Null => next[t] \in ToSet(list)
                         /\ drop[t] # Null => drop[t] \in ToSet(list)

\* The lock bit excludes, and whoever waits for the keyed event of its entry
\* either has the entry on the list or has been told that it is not.
ListExact ==
    /\ Cardinality({t \in Thread : pc[t] \in
            {"inserted", "unlinkSelf", "unlockSelf", "release", "releasing",
             "unlinkWake", "unlockWake"}}) = IF locked THEN 1 ELSE 0
    /\ \A t \in Alive : t \in ToSet(list) <=> ~handled[t]

\* RtlWakeAllConditionVariable has the lock and is about to release a key.
WakingAll == \E w \in Thread : pc[w] = "release" /\ releaseAll[w]

\* A thread that has reached its wait when RtlWakeAllConditionVariable has
\* taken the lock is woken, wherever it is on the list.
WakeAllWakesTheSleeping ==
    \A t \in Sleeper :
        (WakingAll /\ t \in ToSet(list) /\ kpc[t] = "waiting") ~> kpc[t] # "waiting"

\* Once threads stop calling, the wakers return, and so does every sleeper
\* that has a timeout: the spinning on the lock bit, the waits and the
\* removals never block each other for good.
CallsReturn ==
    <>[][\A t \in Thread : ~Call(t)]_vars =>
        \A t \in Thread : pc[t] \in WakePc \/ (pc[t] \in SleepPc /\ timed[t])
                              ~> pc[t] = "idle"

\* "Otherwise all waiting threads are woken" (InternalWake).
WakeAllWakesAll ==
    \A t \in Sleeper :
        (WakingAll /\ t \in ToSet(list)) ~> pc[t] \notin {"dropLock", "enter", "asleep"}
=============================================================================
