----------------------------- MODULE FastMutex -----------------------------
(***************************************************************************)
(* Fast mutexes: the inlines of ntoskrnl/include/internal/ex.h and         *)
(* KiAcquireFastMutex of ntoskrnl/ke/wait.c, on top of a synchronization   *)
(* event.                                                                  *)
(*                                                                         *)
(* Count is one when the mutex is free; every thread that asks takes one   *)
(* off it and every release puts one back.  Unlike a guarded mutex, the    *)
(* mutex is handed to the thread that the event lets through.              *)
(*                                                                         *)
(* The safe routines run at APC_LEVEL and keep the caller's IRQL in the    *)
(* mutex itself; the unsafe ones leave it alone, and a thread that waits   *)
(* in one may be taken off the event's list by a special kernel APC and    *)
(* has to queue again.                                                     *)
(***************************************************************************)
EXTENDS Integers, Sequences, FiniteSets

CONSTANT Thread

ASSUME ThreadAssumption == IsFiniteSet(Thread)

NoOwner == "NULL"
ASSUME OwnerAssumption == NoOwner \notin Thread

Irql == {"PASSIVE_LEVEL", "APC_LEVEL"}

VARIABLES
    count,       \* FastMutex->Count
    owner,       \* FastMutex->Owner
    oldIrql,     \* FastMutex->OldIrql
    eventSignal, \* FastMutex->Event.Header.SignalState
    waitList,    \* FastMutex->Event.Header.WaitListHead, oldest first
    pc,          \* where each thread is
    entry,       \* the IRQL it called at, or "unsafe" for the unsafe routines
    saved        \* its local OldIrql

eventVars == <<eventSignal, waitList>>
vars == <<count, owner, oldIrql, eventSignal, waitList, pc, entry, saved>>

Pc == {"idle", "wait", "asleep", "acquired", "holding", "release", "signal",
       "lower"}

TypeOK ==
    /\ count \in Int
    /\ count <= 1
    /\ owner \in Thread \cup {NoOwner}
    /\ oldIrql \in Irql
    /\ eventSignal \in BOOLEAN
    /\ waitList \in Seq(Thread)
    /\ pc \in [Thread -> Pc]
    /\ entry \in [Thread -> Irql \cup {"unsafe"}]
    /\ saved \in [Thread -> Irql \cup {"unsafe"}]

\* ExInitializeFastMutex.
Init ==
    /\ count = 1
    /\ owner = NoOwner
    /\ oldIrql = "PASSIVE_LEVEL"
    /\ eventSignal = FALSE
    /\ waitList = << >>
    /\ pc = [t \in Thread |-> "idle"]
    /\ entry = [t \in Thread |-> "unsafe"]
    /\ saved = [t \in Thread |-> "unsafe"]

Goto(t, p) == pc' = [pc EXCEPT ![t] = p]

\* The thread raises its IRQL, or calls an unsafe routine.
EnterAt(t, level) == /\ entry' = [entry EXCEPT ![t] = level]
                     /\ saved' = [saved EXCEPT ![t] = level]

-----------------------------------------------------------------------------
\* if (InterlockedDecrement(&FastMutex->Count)) is false.
GotIt(left) == left = 0

\* Mutant: the IRQL is stored in the mutex before the mutex is owned.
AcquireStoresEarly(t) ==
    /\ pc[t] = "idle"
    /\ \E level \in Irql : EnterAt(t, level) /\ oldIrql' = level
    /\ count' = count - 1
    /\ Goto(t, IF GotIt(count - 1) THEN "acquired" ELSE "wait")
    /\ UNCHANGED <<owner, eventVars>>

\* _ExAcquireFastMutex(Unsafe).
Acquire(t) ==
    /\ pc[t] = "idle"
    /\ \E level \in Irql \cup {"unsafe"} : EnterAt(t, level)
    /\ count' = count - 1
    /\ Goto(t, IF GotIt(count - 1) THEN "acquired" ELSE "wait")
    /\ UNCHANGED <<owner, oldIrql, eventVars>>

\* Mutant: an exchange without a comparison.
TryUnguarded(t) ==
    /\ pc[t] = "idle"
    /\ count' = 0
    /\ \E level \in Irql : EnterAt(t, level)
    /\ Goto(t, IF count = 1 THEN "acquired" ELSE "lower")
    /\ UNCHANGED <<owner, oldIrql, eventVars>>

\* _ExTryToAcquireFastMutex: only from one to zero, and never by waiting.
TryToAcquire(t) ==
    /\ pc[t] = "idle"
    /\ count = 1
    /\ count' = 0
    /\ \E level \in Irql : EnterAt(t, level)
    /\ Goto(t, "acquired")
    /\ UNCHANGED <<owner, oldIrql, eventVars>>

\* KiAcquireFastMutex: KeWaitForSingleObject on the event.
WaitForEvent(t) ==
    /\ pc[t] = "wait"
    /\ \/ /\ eventSignal
          /\ eventSignal' = FALSE
          /\ Goto(t, "acquired")
          /\ UNCHANGED waitList
       \/ /\ ~eventSignal
          /\ waitList' = Append(waitList, t)
          /\ Goto(t, "asleep")
          /\ UNCHANGED eventSignal
    /\ UNCHANGED <<count, owner, oldIrql, entry, saved>>

\* A special kernel APC takes a thread off the event's list; it runs the APC
\* and waits again from the start (STATUS_KERNEL_APC).
KernelApc(t) ==
    /\ pc[t] = "asleep"
    /\ entry[t] = "unsafe"
    /\ \E i \in 1 .. Len(waitList) :
           /\ waitList[i] = t
           /\ waitList' = SubSeq(waitList, 1, i - 1)
                            \o SubSeq(waitList, i + 1, Len(waitList))
    /\ Goto(t, "wait")
    /\ UNCHANGED <<count, owner, oldIrql, eventSignal, entry, saved>>

\* FastMutex->Owner and, in the safe routines, FastMutex->OldIrql.
SetOwner(t) ==
    /\ pc[t] = "acquired"
    /\ owner' = t
    /\ oldIrql' = IF entry[t] = "unsafe" THEN oldIrql ELSE saved[t]
    /\ Goto(t, "holding")
    /\ UNCHANGED <<count, eventVars, entry, saved>>

\* _ExReleaseFastMutex(Unsafe): erase the owner and fetch the saved IRQL.
ClearOwner(t) ==
    /\ pc[t] = "holding"
    /\ owner' = NoOwner
    /\ saved' = [saved EXCEPT ![t] = IF entry[t] = "unsafe" THEN "unsafe"
                                     ELSE oldIrql]
    /\ Goto(t, "release")
    /\ UNCHANGED <<count, oldIrql, eventVars, entry>>

\* Mutant: the test is off by one.
BelowZero(left) == left < 0

\* if (InterlockedIncrement(&FastMutex->Count) <= 0)
SomeoneWaits(left) == left <= 0

Release(t) ==
    /\ pc[t] = "release"
    /\ count' = count + 1
    /\ Goto(t, IF SomeoneWaits(count + 1) THEN "signal" ELSE "lower")
    /\ UNCHANGED <<owner, oldIrql, eventVars, entry, saved>>

\* Mutant: the mutex is handed over and the event is signalled as well.
SignalTwice(t) ==
    /\ pc[t] = "signal"
    /\ \/ /\ waitList = << >>
          /\ eventSignal' = TRUE
          /\ Goto(t, "lower")
          /\ UNCHANGED waitList
       \/ /\ waitList # << >>
          /\ waitList' = Tail(waitList)
          /\ pc' = [pc EXCEPT ![t] = "lower", ![Head(waitList)] = "acquired"]
          /\ eventSignal' = TRUE
    /\ UNCHANGED <<count, owner, oldIrql, entry, saved>>

\* KeSetEventBoostPriority: the first waiter gets the mutex, or the event is
\* left signalled for the one that is about to wait.
Signal(t) ==
    /\ pc[t] = "signal"
    /\ \/ /\ waitList = << >>
          /\ eventSignal' = TRUE
          /\ Goto(t, "lower")
          /\ UNCHANGED waitList
       \/ /\ waitList # << >>
          /\ waitList' = Tail(waitList)
          /\ pc' = [pc EXCEPT ![t] = "lower", ![Head(waitList)] = "acquired"]
          /\ UNCHANGED eventSignal
    /\ UNCHANGED <<count, owner, oldIrql, entry, saved>>

\* KeLowerIrql(OldIrql) in the safe routine; the unsafe one just returns.
Lower(t) ==
    /\ pc[t] = "lower"
    /\ entry' = [entry EXCEPT ![t] = "unsafe"]
    /\ saved' = [saved EXCEPT ![t] = "unsafe"]
    /\ Goto(t, "idle")
    /\ UNCHANGED <<count, owner, oldIrql, eventVars>>

-----------------------------------------------------------------------------
Step(t) == \/ Acquire(t) \/ TryToAcquire(t) \/ WaitForEvent(t) \/ KernelApc(t)
           \/ SetOwner(t) \/ ClearOwner(t) \/ Release(t) \/ Signal(t) \/ Lower(t)

Next == \E t \in Thread : Step(t)

Spec == Init /\ [][Next]_vars

\* A thread inside a routine is scheduled, and an owner finally releases.
FairSpec ==
    Spec /\ \A t \in Thread :
        WF_vars(WaitForEvent(t) \/ SetOwner(t) \/ ClearOwner(t)
                  \/ Release(t) \/ Signal(t) \/ Lower(t))

-----------------------------------------------------------------------------
(* Properties *)

Holders == {t \in Thread : pc[t] \in {"acquired", "holding", "release"}}

\* The mutex excludes, although it passes from hand to hand without ever
\* being free in between.
Contract == INSTANCE MutexContract WITH inside <- Holders
ImplementsMutex == Contract!ContractSpec

\* A thread leaves the safe routines at the IRQL it came in with: the field
\* it is kept in belongs to the owner alone for as long as that needs it.
IrqlRestored ==
    \A t \in Thread : pc[t] \in {"release", "signal", "lower"} => saved[t] = entry[t]

\* Count is exact: one, less the threads that own the mutex or wait for it.
CountExact ==
    count = 1 - Cardinality({t \in Thread :
                     pc[t] \in {"wait", "asleep", "acquired", "holding", "release"}})

\* No wake-up is lost, APCs in the middle of a wait included: when no thread
\* is running or holding the mutex, nobody is left asleep.
NoLostWakeup ==
    (\A t \in Thread : pc[t] \in {"idle", "asleep"})
        => \A t \in Thread : pc[t] # "asleep"

\* Every thread that waits gets the mutex, without any assumption on how
\* often others ask for it, unless APCs keep sending it to the end of the list.
EveryWaiterGetsIn ==
    (\A t \in Thread : <>[][~KernelApc(t)]_vars) =>
        \A t \in Thread : pc[t] = "wait" ~> pc[t] = "holding"
=============================================================================
