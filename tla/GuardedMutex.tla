---------------------------- MODULE GuardedMutex ----------------------------
(***************************************************************************)
(* Guarded mutexes: the inlines of ntoskrnl/include/internal/ke_x.h and    *)
(* KiAcquireGuardedMutex of ntoskrnl/ke/wait.c, on top of a gate.          *)
(*                                                                         *)
(* Count packs three things: bit 0 (GM_LOCK_BIT) is set while the mutex is *)
(* free, bit 1 (GM_LOCK_WAITER_WOKEN) while one waiter has been chosen to  *)
(* wake and has not yet acted, and the rest is the number of waiters in    *)
(* units of GM_LOCK_WAITER_INC.  The code changes them by plain addition   *)
(* and relies on the carry from one field into the next, so Count is a     *)
(* number here too.                                                        *)
(*                                                                         *)
(* Threads that contend are inside a guarded region, so no APC interrupts  *)
(* their wait at the gate.                                                 *)
(***************************************************************************)
EXTENDS Integers, Sequences, FiniteSets

CONSTANT Thread

ASSUME ThreadAssumption == IsFiniteSet(Thread)

NoOwner == "NULL"
ASSUME OwnerAssumption == NoOwner \notin Thread

GM_LOCK_BIT          == 1
GM_LOCK_WAITER_WOKEN == 2
GM_LOCK_WAITER_INC   == 4

Free(v)    == v % 2 = 1
Woken(v)   == (v \div 2) % 2 = 1
Waiters(v) == v \div 4

VARIABLES
    count,      \* GuardedMutex->Count
    owner,      \* GuardedMutex->Owner
    gateSignal, \* Gate->Header.SignalState
    gateList,   \* Gate->Header.WaitListHead, oldest first
    pc,         \* where each thread is
    old,        \* its local OldValue
    woken       \* TRUE once it has been through the gate in this call: selects
                \* BitsToRemove and BitsToAdd

gateVars == <<gateSignal, gateList>>
vars == <<count, owner, gateSignal, gateList, pc, old, woken>>

Pc == {"idle", "contend", "change", "wait", "asleep", "acquired", "holding",
       "release", "wakeOne", "signal"}

TypeOK ==
    /\ count \in Nat
    /\ owner \in Thread \cup {NoOwner}
    /\ gateSignal \in BOOLEAN
    /\ gateList \in Seq(Thread)
    /\ pc \in [Thread -> Pc]
    /\ old \in [Thread -> Nat]
    /\ woken \in [Thread -> BOOLEAN]

\* _KeInitializeGuardedMutex.
Init ==
    /\ count = GM_LOCK_BIT
    /\ owner = NoOwner
    /\ gateSignal = FALSE
    /\ gateList = << >>
    /\ pc = [t \in Thread |-> "idle"]
    /\ old = [t \in Thread |-> 0]
    /\ woken = [t \in Thread |-> FALSE]

Goto(t, p) == pc' = [pc EXCEPT ![t] = p]

-----------------------------------------------------------------------------
(* Acquiring *)

\* _KeAcquireGuardedMutex(Unsafe): clear the lock bit, or enter the contended
\* case if it was clear already.
Acquire(t) ==
    /\ pc[t] = "idle"
    /\ \/ /\ Free(count)
          /\ count' = count - GM_LOCK_BIT
          /\ Goto(t, "acquired")
          /\ UNCHANGED woken
       \/ /\ ~Free(count)
          /\ Goto(t, "contend")
          /\ woken' = [woken EXCEPT ![t] = FALSE]
          /\ UNCHANGED count
    /\ UNCHANGED <<owner, gateVars, old>>

\* _KeTryToAcquireGuardedMutex; its failure leaves everything as it was.
TryToAcquire(t) ==
    /\ pc[t] = "idle"
    /\ Free(count)
    /\ count' = count - GM_LOCK_BIT
    /\ Goto(t, "acquired")
    /\ UNCHANGED <<owner, gateVars, old, woken>>

\* The outer loop of KiAcquireGuardedMutex reads the count.
Contend(t) ==
    /\ pc[t] = "contend"
    /\ old' = [old EXCEPT ![t] = count]
    /\ Goto(t, "change")
    /\ UNCHANGED <<count, owner, gateVars, woken>>

\* Mutant: a woken waiter removes its bit but does not lock.
RemoveWokenOnly(v, w) == IF w THEN v - GM_LOCK_WAITER_WOKEN ELSE v - GM_LOCK_BIT

\* OldValue ^ BitsToRemove.
RemoveBits(v, w) == IF ~w THEN v - GM_LOCK_BIT
                    ELSE IF Woken(v) THEN v - GM_LOCK_BIT - GM_LOCK_WAITER_WOKEN
                    ELSE v - GM_LOCK_BIT + GM_LOCK_WAITER_WOKEN

\* Mutant: a waiter that lost the race again adds itself as a new one and
\* leaves its woken bit behind.
AlwaysAddWaiter(w) == GM_LOCK_WAITER_INC

\* BitsToAdd: a new waiter, or the woken bit carried back into the waiters.
BitsToAdd(w) == IF w THEN GM_LOCK_WAITER_WOKEN ELSE GM_LOCK_WAITER_INC

\* The inner loop: take the mutex if it was free, join the waiters if not.
Change(t) ==
    /\ pc[t] = "change"
    /\ \/ /\ count = old[t]
          /\ Free(old[t])
          /\ count' = RemoveBits(old[t], woken[t])
          /\ Goto(t, "acquired")
          /\ UNCHANGED old
       \/ /\ count = old[t]
          /\ ~Free(old[t])
          /\ count' = old[t] + BitsToAdd(woken[t])
          /\ Goto(t, "wait")
          /\ UNCHANGED old
       \/ /\ count # old[t]
          /\ old' = [old EXCEPT ![t] = count]
          /\ UNCHANGED <<count, pc>>
    /\ UNCHANGED <<owner, gateVars, woken>>

\* KeWaitForGate: the gate is open and closes behind the thread, or the
\* thread goes to sleep at the end of its list.
WaitForGate(t) ==
    /\ pc[t] = "wait"
    /\ \/ /\ gateSignal
          /\ gateSignal' = FALSE
          /\ Goto(t, "contend")
          /\ woken' = [woken EXCEPT ![t] = TRUE]
          /\ UNCHANGED gateList
       \/ /\ ~gateSignal
          /\ gateList' = Append(gateList, t)
          /\ Goto(t, "asleep")
          /\ UNCHANGED <<gateSignal, woken>>
    /\ UNCHANGED <<count, owner, old>>

\* GuardedMutex->Owner = Thread.  SpecialApcDisable, which is kept beside it
\* for an assertion of the release, is left out.
SetOwner(t) ==
    /\ pc[t] = "acquired"
    /\ owner' = t
    /\ Goto(t, "holding")
    /\ UNCHANGED <<count, gateVars, old, woken>>

-----------------------------------------------------------------------------
(* Releasing *)

\* _KeReleaseGuardedMutex(Unsafe): GuardedMutex->Owner = NULL.
ClearOwner(t) ==
    /\ pc[t] = "holding"
    /\ owner' = NoOwner
    /\ Goto(t, "release")
    /\ UNCHANGED <<count, gateVars, old, woken>>

\* Mutant: a waiter is chosen although one is on its way.
AnyWaiters(v) == v # 0

\* if ((OldValue) && !(OldValue & GM_LOCK_WAITER_WOKEN))
HasToWake(v) == v # 0 /\ ~Woken(v)

\* InterlockedExchangeAdd(&Count, GM_LOCK_BIT): the mutex is free.
Release(t) ==
    /\ pc[t] = "release"
    /\ count' = count + GM_LOCK_BIT
    /\ old' = [old EXCEPT ![t] = count + GM_LOCK_BIT]
    /\ Goto(t, IF HasToWake(count) THEN "wakeOne" ELSE "idle")
    /\ UNCHANGED <<owner, gateVars, woken>>

\* Mutant: Owner is cleared only now, after the mutex was given up.
WakeOneLateClear(t) ==
    /\ pc[t] = "wakeOne"
    /\ \/ /\ count = old[t]
          /\ count' = old[t] + GM_LOCK_WAITER_WOKEN - GM_LOCK_WAITER_INC
          /\ Goto(t, "signal")
       \/ /\ count # old[t]
          /\ Goto(t, "idle")
          /\ UNCHANGED count
    /\ owner' = NoOwner
    /\ UNCHANGED <<gateVars, old, woken>>

\* Turn one waiter into the woken one, unless the count has changed: then
\* somebody else holds the mutex and will do it.
WakeOne(t) ==
    /\ pc[t] = "wakeOne"
    /\ \/ /\ count = old[t]
          /\ count' = old[t] + GM_LOCK_WAITER_WOKEN - GM_LOCK_WAITER_INC
          /\ Goto(t, "signal")
       \/ /\ count # old[t]
          /\ Goto(t, "idle")
          /\ UNCHANGED count
    /\ UNCHANGED <<owner, gateVars, old, woken>>

\* KeSignalGateBoostPriority: wake the first sleeper, or leave the gate open.
Signal(t) ==
    /\ pc[t] = "signal"
    /\ \/ /\ gateList # << >>
          /\ ~gateSignal
          /\ gateList' = Tail(gateList)
          /\ pc' = [pc EXCEPT ![t] = "idle", ![Head(gateList)] = "contend"]
          /\ woken' = [woken EXCEPT ![Head(gateList)] = TRUE]
          /\ UNCHANGED gateSignal
       \/ /\ gateList = << >> \/ gateSignal
          /\ gateSignal' = TRUE
          /\ Goto(t, "idle")
          /\ UNCHANGED <<gateList, woken>>
    /\ UNCHANGED <<count, owner, old>>

-----------------------------------------------------------------------------
Step(t) == \/ Acquire(t) \/ TryToAcquire(t) \/ Contend(t) \/ Change(t)
           \/ WaitForGate(t) \/ SetOwner(t)
           \/ ClearOwner(t) \/ Release(t) \/ WakeOne(t) \/ Signal(t)

Next == \E t \in Thread : Step(t)

Spec == Init /\ [][Next]_vars

\* A thread inside a routine is scheduled, and an owner finally releases.
FairSpec ==
    Spec /\ \A t \in Thread :
        WF_vars(Contend(t) \/ Change(t) \/ WaitForGate(t) \/ SetOwner(t)
                  \/ ClearOwner(t) \/ Release(t) \/ WakeOne(t) \/ Signal(t))

-----------------------------------------------------------------------------
(* Properties *)

Holders == {t \in Thread : pc[t] \in {"acquired", "holding", "release"}}

\* The mutex excludes: it implements the contract, whatever the waiters do to
\* the other fields of Count.
Contract == INSTANCE MutexContract WITH inside <- Holders
ImplementsMutex == Contract!ContractSpec

\* The Owner field names the thread that holds the mutex for as long as the
\* caller may look at it: a late store of a previous owner never shows.
OwnerIsHolder == \A t \in Thread : pc[t] = "holding" => owner = t

\* The threads that a wake-up is on its way to or that act on one.
InTransit == {t \in Thread : \/ pc[t] = "signal"
                             \/ pc[t] \in {"contend", "change"} /\ woken[t]}

\* The woken bit is set while a woken waiter acts on it.
WokenBitSet ==
    /\ \A t \in Thread : pc[t] \in {"contend", "change"} /\ woken[t] => Woken(count)
    /\ \A t \in Thread : pc[t] = "change" /\ woken[t] => Woken(old[t])

\* The number of waiters counts those at the gate, less the one that a wake-up
\* is already meant for.
WaitersExact ==
    Waiters(count) = Cardinality({t \in Thread : pc[t] \in {"wait", "asleep"}})
                       - Cardinality({t \in Thread : pc[t] = "signal"})
                       - (IF gateSignal THEN 1 ELSE 0)

\* The ASSERTs of KiAcquireGuardedMutex and what they are for: Count is changed
\* by plain additions that carry from one field into the next, and its fields
\* are exact at every step all the same.  Nobody waits uncounted, and a woken
\* waiter never sets the bit it means to remove.
FieldsExact == WokenBitSet /\ WaitersExact

\* No wake-up is lost: when the mutex is free and no thread is running inside
\* its routines, nobody is left asleep at the gate.
NoLostWakeup ==
    Free(count) /\ (\A t \in Thread : pc[t] \in {"idle", "asleep"})
        => \A t \in Thread : pc[t] # "asleep"

\* Once threads stop asking for the mutex anew, everyone who has asked gets
\* it.  (While they do not, a waiter may lose the race for ever: a thread
\* that releases the mutex does not hand it over.)
StartAcquire == \E t \in Thread : pc[t] = "idle" /\ pc'[t] # "idle"
EveryWaiterGetsIn ==
    <>[][~StartAcquire]_vars =>
        \A t \in Thread : pc[t] = "contend" ~> pc[t] = "holding"
=============================================================================
