---------------------------- MODULE ObjectReaper ----------------------------
(***************************************************************************)
(* The lives of objects and their deferred deletion: PointerCount,         *)
(* ObpDeferObjectDeletion (ntoskrnl/ob/obref.c), ObpDeleteObject and       *)
(* ObpReapObject (ntoskrnl/ob/oblife.c), and the work item that runs it.   *)
(*                                                                         *)
(* An object whose last reference goes away where it cannot be deleted is  *)
(* pushed on ObpReaperList.  The list is NULL while no reaper is on its    *)
(* way, 1 while a reaper has taken everything, or the newest object, with  *)
(* the others and finally one of these two values behind it.               *)
(*                                                                         *)
(* The module has no specification of its own: FastReference uses it.      *)
(***************************************************************************)
EXTENDS Integers, FiniteSets

CONSTANTS Object, Thread, Worker

Null == "NULL"
One  == "1"

ASSUME ReaperAssumption ==
    /\ {Null, One} \cap Object = {}
    /\ IsFiniteSet(Object) /\ IsFiniteSet(Thread) /\ IsFiniteSet(Worker)
    /\ Thread \cap Worker = {}

VARIABLES
    state,         \* of each object: free memory, live, or dead: PointerCount is 0
    pointerCount,  \* Header->PointerCount
    nextToFree,    \* Header->NextToFree
    reaperList,    \* ObpReaperList
    queued,        \* how often ObpReaperWorkItem is on the work queue
    entry,         \* Entry of a thread in ObpDeferObjectDeletion
    wpc,           \* where each worker is
    reap           \* its ReapObject

rvars == <<state, pointerCount, nextToFree, reaperList, queued, entry, wpc, reap>>

Link == Object \cup {Null, One}

ReaperTypeOK ==
    /\ state \in [Object -> {"free", "live", "dead"}]
    /\ pointerCount \in [Object -> Nat]
    /\ nextToFree \in [Object -> Link]
    /\ reaperList \in Link
    /\ queued \in Nat
    /\ entry \in [Thread -> Link]
    /\ wpc \in [Worker -> {"idle", "exchange", "reap", "look", "stop"}]
    /\ reap \in [Worker -> Link]

-----------------------------------------------------------------------------
(* Deletion *)

\* ObpDeleteObject: the memory is gone.
Delete(o) ==
    /\ state' = [state EXCEPT ![o] = "free"]
    /\ nextToFree' = [nextToFree EXCEPT ![o] = Null]

\* ObpDeferObjectDeletion reads the list and links the object to it.
DeferRead(t, o) ==
    /\ entry' = [entry EXCEPT ![t] = reaperList]
    /\ nextToFree' = [nextToFree EXCEPT ![o] = reaperList]
    /\ UNCHANGED <<state, pointerCount, reaperList, queued, wpc, reap>>

\* Its compare-exchange has succeeded: the object is the newest.
DeferPush(t, o) ==
    /\ reaperList = entry[t]
    /\ reaperList' = o
    /\ UNCHANGED <<state, pointerCount, nextToFree, queued, entry, wpc, reap>>

\* Mutant: the work item is queued whenever the reaper has nothing yet.
AlwaysQueues(e) == e \in {Null, One}

\* if (!Entry)
QueuesItem(e) == e = Null

\* ExQueueWorkItem, if nobody is on the way.
DeferQueue(t) ==
    /\ queued' = IF QueuesItem(entry[t]) THEN queued + 1 ELSE queued
    /\ entry' = [entry EXCEPT ![t] = Null]
    /\ UNCHANGED <<state, pointerCount, nextToFree, reaperList, wpc, reap>>

-----------------------------------------------------------------------------
(* ObpReapObject on a worker thread *)

WGoto(w, p) == wpc' = [wpc EXCEPT ![w] = p]

\* KeRemoveQueue gives the work item to a worker, which calls the routine.
Remove(w) ==
    /\ wpc[w] = "idle"
    /\ queued > 0
    /\ queued' = queued - 1
    /\ WGoto(w, "exchange")
    /\ UNCHANGED <<state, pointerCount, nextToFree, reaperList, entry, reap>>

\* The whole list is taken.
Exchange(w) ==
    /\ wpc[w] = "exchange"
    /\ reap' = [reap EXCEPT ![w] = reaperList]
    /\ reaperList' = One
    /\ WGoto(w, "reap")
    /\ UNCHANGED <<state, pointerCount, nextToFree, queued, entry>>

\* The end of a list that was begun anew, or behind a running reaper.
EndOfList(l) == l \in {Null, One}

\* The inner loop: the link is read before the object is deleted.
Reap(w) ==
    /\ wpc[w] = "reap"
    /\ reap' = [reap EXCEPT ![w] = nextToFree[reap[w]]]
    /\ WGoto(w, IF EndOfList(nextToFree[reap[w]]) THEN "look" ELSE "reap")
    /\ Delete(reap[w])
    /\ UNCHANGED <<pointerCount, reaperList, queued, entry>>

\* The test of the outer loop: more objects have been pushed, or not ...
Look(w) ==
    /\ wpc[w] = "look"
    /\ WGoto(w, IF reaperList # One THEN "exchange" ELSE "stop")
    /\ reap' = [reap EXCEPT ![w] = Null]
    /\ UNCHANGED <<state, pointerCount, nextToFree, reaperList, queued, entry>>

\* Mutant: the list is cleared with a plain store.
StopAnyway(w) ==
    /\ wpc[w] = "stop"
    /\ reaperList' = Null
    /\ WGoto(w, "idle")
    /\ UNCHANGED <<state, pointerCount, nextToFree, queued, entry, reap>>

\* ... and the compare-exchange that ends it, unless one is pushed just now.
Stop(w) ==
    /\ wpc[w] = "stop"
    /\ \/ /\ reaperList = One
          /\ reaperList' = Null
          /\ WGoto(w, "idle")
       \/ /\ reaperList # One
          /\ WGoto(w, "exchange")
          /\ UNCHANGED reaperList
    /\ UNCHANGED <<state, pointerCount, nextToFree, queued, entry, reap>>

WorkerStep(w) == Remove(w) \/ Exchange(w) \/ Reap(w) \/ Look(w) \/ Stop(w)
=============================================================================
