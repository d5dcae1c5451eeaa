--------------------------- MODULE FastReference ---------------------------
(***************************************************************************)
(* Fast references (ntoskrnl/ob/obref.c, ntoskrnl/include/internal/ex.h)   *)
(* as the primary token of a process uses them: PsReferencePrimaryToken    *)
(* and PspAssignPrimaryToken (ntoskrnl/ps/security.c) with                 *)
(* SeExchangePrimaryToken (ntoskrnl/se/token.c), down to the deletion of   *)
(* the tokens nobody refers to any more.                                   *)
(*                                                                         *)
(* The field holds a pointer and, in its low bits, how many references to  *)
(* the object are stored with it.  Taking or returning one of those is a   *)
(* compare-exchange of the field and leaves the object's count alone.      *)
(* When none are left a reader takes the process lock shared, reads the    *)
(* pointer and counts itself; whoever replaces the token gives up the last *)
(* reference to the old one only after it has had that lock exclusive.     *)
(***************************************************************************)
EXTENDS ObjectReaper

CONSTANTS
    MAX_FAST_REFS,  \* as many as fit into the low bits of the field
    Client,         \* threads that reference the token
    Replacer        \* threads that replace it

ASSUME FastReferenceAssumption ==
    /\ MAX_FAST_REFS \in Nat \ {0}
    /\ Client \cup Replacer = Thread

VARIABLES
    fastRef,    \* Process->Token: the object, and RefCnt
    sharers,    \* threads that hold the process lock shared
    pc,         \* where each thread is
    object,     \* the object it has or is about to have
    old,        \* its OldValue of the field
    new,        \* NewToken of a replacer
    victim,     \* the object whose count it brought to zero
    ret         \* where it goes on after that

fvars == <<fastRef, sharers>>
lvars == <<object, old, new, victim, ret>>
vars  == <<rvars, fvars, pc, lvars>>

Ref   == [obj : Object, cnt : 0 .. MAX_FAST_REFS]
NoRef == [obj |-> Null, cnt |-> 0]
Pc    == {"idle", "acquire", "take", "refill", "insert", "put", "undo",
          "lock", "peek", "count", "unlock", "holding", "release", "return",
          "swap", "unstock", "grace", "dropOld", "dropNew", "drop", "zero", "defer", "push", "queue"}

TypeOK ==
    /\ ReaperTypeOK
    /\ fastRef \in Ref
    /\ sharers \subseteq Thread
    /\ pc \in [Thread -> Pc]
    /\ object \in [Thread -> Object \cup {Null}]
    /\ old \in [Thread -> Ref \cup {NoRef}]
    /\ new \in [Thread -> Object \cup {Null}]
    /\ victim \in [Thread -> Object \cup {Null}]
    /\ ret \in [Thread -> Pc]

\* PspInitializeProcessSecurity has given the process a token: the reference
\* that comes with the pointer, and those stored in the field.
Init ==
    /\ \E o \in Object :
          /\ fastRef = [obj |-> o, cnt |-> MAX_FAST_REFS]
          /\ state = [x \in Object |-> IF x = o THEN "live" ELSE "free"]
          /\ pointerCount = [x \in Object |-> IF x = o THEN 1 + MAX_FAST_REFS ELSE 0]
    /\ nextToFree = [x \in Object |-> Null]
    /\ reaperList = Null
    /\ queued = 0
    /\ entry = [t \in Thread |-> Null]
    /\ wpc = [w \in Worker |-> "idle"]
    /\ reap = [w \in Worker |-> Null]
    /\ sharers = {}
    /\ pc = [t \in Thread |-> "idle"]
    /\ object = [t \in Thread |-> Null]
    /\ old = [t \in Thread |-> NoRef]
    /\ new = [t \in Thread |-> Null]
    /\ victim = [t \in Thread |-> Null]
    /\ ret = [t \in Thread |-> "idle"]

Goto(t, p) == pc' = [pc EXCEPT ![t] = p]

\* ObReferenceObjectEx and ObfReferenceObject.
Reference(o, n) ==
    /\ pointerCount' = [pointerCount EXCEPT ![o] = @ + n]
    /\ UNCHANGED <<state, nextToFree, reaperList, queued, entry, wpc, reap>>

-----------------------------------------------------------------------------
(* ObDereferenceObjectEx and ObfDereferenceObject *)

\* The decrement.  At zero the object is dead and the thread sees to its
\* deletion, otherwise the call returns.  (HandleCount is zero throughout.)
Dereference(t, o, n, at, to) ==
    /\ pointerCount' = [pointerCount EXCEPT ![o] = @ - n]
    /\ \/ /\ pointerCount[o] # n
          /\ Goto(t, to)
          /\ UNCHANGED <<state, victim, ret>>
       \/ /\ pointerCount[o] = n
          /\ state' = [state EXCEPT ![o] = "dead"]
          /\ victim' = [victim EXCEPT ![t] = o]
          /\ ret' = [ret EXCEPT ![t] = to]
          /\ Goto(t, at)
    /\ UNCHANGED <<nextToFree, reaperList, queued, entry, wpc, reap>>

DereferenceEx(t, o, n, to) == Dereference(t, o, n, "defer", to)
DereferenceOne(t, o, to)   == Dereference(t, o, 1, "zero", to)

Return(t) == /\ Goto(t, ret[t])
             /\ victim' = [victim EXCEPT ![t] = Null]
             /\ ret' = [ret EXCEPT ![t] = "idle"]

\* ObfDereferenceObject at zero: KeAreAllApcsDisabled tells whether the object
\* may be deleted on the spot.
Zero(t) ==
    /\ pc[t] = "zero"
    /\ \/ /\ Delete(victim[t])
          /\ Return(t)
          /\ UNCHANGED <<pointerCount, reaperList, queued, entry, wpc, reap>>
       \/ /\ Goto(t, "defer")
          /\ UNCHANGED <<rvars, victim, ret>>
    /\ UNCHANGED <<fvars, object, old, new>>

\* ObpDeferObjectDeletion.
Defer(t) ==
    /\ pc[t] = "defer"
    /\ DeferRead(t, victim[t])
    /\ Goto(t, "push")
    /\ UNCHANGED <<fvars, lvars>>

Push(t) ==
    /\ pc[t] = "push"
    /\ \/ /\ DeferPush(t, victim[t])
          /\ victim' = [victim EXCEPT ![t] = Null]
          /\ Goto(t, "queue")
       \/ /\ reaperList # entry[t]
          /\ Goto(t, "defer")
          /\ UNCHANGED <<rvars, victim>>
    /\ UNCHANGED <<fvars, object, old, new, ret>>

Queue(t) ==
    /\ pc[t] = "queue"
    /\ DeferQueue(t)
    /\ Return(t)
    /\ UNCHANGED <<fvars, object, old, new>>

-----------------------------------------------------------------------------
(* PsReferencePrimaryToken: ObFastReferenceObject *)

CallReference(t) ==
    /\ t \in Client
    /\ pc[t] = "idle"
    /\ Goto(t, "acquire")
    /\ UNCHANGED <<rvars, fvars, lvars>>

\* ExAcquireFastReference reads the field; none left is the end of it.
Acquire(t) ==
    /\ pc[t] = "acquire"
    /\ \/ fastRef.cnt # 0 /\ old' = [old EXCEPT ![t] = fastRef] /\ Goto(t, "take")
       \/ fastRef.cnt = 0 /\ Goto(t, "lock") /\ UNCHANGED old
    /\ UNCHANGED <<rvars, fvars, object, new, victim, ret>>

\* Its compare-exchange.  Whoever took the last one has to refill the field.
Take(t) ==
    /\ pc[t] = "take"
    /\ \/ /\ fastRef = old[t]
          /\ fastRef' = [fastRef EXCEPT !.cnt = @ - 1]
          /\ object' = [object EXCEPT ![t] = old[t].obj]
          /\ Goto(t, IF old[t].cnt > 1 THEN "holding" ELSE "refill")
       \/ /\ fastRef # old[t]
          /\ Goto(t, "acquire")
          /\ UNCHANGED <<fastRef, object>>
    /\ old' = [old EXCEPT ![t] = NoRef]
    /\ UNCHANGED <<rvars, sharers, new, victim, ret>>

\* ObReferenceObjectEx(Object, MAX_FAST_REFS).
Refill(t) ==
    /\ pc[t] = "refill"
    /\ Reference(object[t], MAX_FAST_REFS)
    /\ Goto(t, "insert")
    /\ UNCHANGED <<fvars, lvars>>

\* Mutant: references are added to whatever object is in the field.
AnyObject(ref, o) == ref.cnt + MAX_FAST_REFS <= MAX_FAST_REFS

\* The tests of ExInsertFastReference.
MayInsert(ref, o) == ref.cnt + MAX_FAST_REFS <= MAX_FAST_REFS /\ ref.obj = o

Insert(t) ==
    /\ pc[t] = "insert"
    /\ \/ /\ MayInsert(fastRef, object[t])
          /\ old' = [old EXCEPT ![t] = fastRef]
          /\ Goto(t, "put")
       \/ /\ ~MayInsert(fastRef, object[t])
          /\ Goto(t, "undo")
          /\ UNCHANGED old
    /\ UNCHANGED <<rvars, fvars, object, new, victim, ret>>

Put(t) ==
    /\ pc[t] = "put"
    /\ \/ /\ fastRef = old[t]
          /\ fastRef' = [fastRef EXCEPT !.cnt = @ + MAX_FAST_REFS]
          /\ Goto(t, "holding")
       \/ /\ fastRef # old[t]
          /\ Goto(t, "insert")
          /\ UNCHANGED fastRef
    /\ old' = [old EXCEPT ![t] = NoRef]
    /\ UNCHANGED <<rvars, sharers, object, new, victim, ret>>

\* The refill came too late.
Undo(t) ==
    /\ pc[t] = "undo"
    /\ DereferenceEx(t, object[t], MAX_FAST_REFS, "holding")
    /\ UNCHANGED <<fvars, object, old, new>>

-----------------------------------------------------------------------------
(* PsReferencePrimaryToken: ObFastReferenceObjectLocked *)

LockShared(t) ==
    /\ pc[t] = "lock"
    /\ sharers' = sharers \cup {t}
    /\ Goto(t, "peek")
    /\ UNCHANGED <<rvars, fastRef, lvars>>

\* The field is read ...
Peek(t) ==
    /\ pc[t] = "peek"
    /\ object' = [object EXCEPT ![t] = fastRef.obj]
    /\ Goto(t, "count")
    /\ UNCHANGED <<rvars, fvars, old, new, victim, ret>>

\* ... and then the object referenced.
Count(t) ==
    /\ pc[t] = "count"
    /\ Reference(object[t], 1)
    /\ Goto(t, "unlock")
    /\ UNCHANGED <<fvars, lvars>>

UnlockShared(t) ==
    /\ pc[t] = "unlock"
    /\ sharers' = sharers \ {t}
    /\ Goto(t, "holding")
    /\ UNCHANGED <<rvars, fastRef, lvars>>

-----------------------------------------------------------------------------
(* Giving a reference back *)

\* ObFastDereferenceObject, or ObDereferenceObject (PsDereferencePrimaryToken).
CallRelease(t) ==
    /\ pc[t] = "holding"
    /\ \E p \in {"release", "drop"} : Goto(t, p)
    /\ UNCHANGED <<rvars, fvars, lvars>>

\* The test of ExReleaseFastReference.
MayReturn(ref, o) == ref.obj = o /\ ref.cnt < MAX_FAST_REFS

Release(t) ==
    /\ pc[t] = "release"
    /\ \/ /\ MayReturn(fastRef, object[t])
          /\ old' = [old EXCEPT ![t] = fastRef]
          /\ Goto(t, "return")
       \/ /\ ~MayReturn(fastRef, object[t])
          /\ Goto(t, "drop")
          /\ UNCHANGED old
    /\ UNCHANGED <<rvars, fvars, object, new, victim, ret>>

GiveBack(t) ==
    /\ pc[t] = "return"
    /\ \/ /\ fastRef = old[t]
          /\ fastRef' = [fastRef EXCEPT !.cnt = @ + 1]
          /\ object' = [object EXCEPT ![t] = Null]
          /\ Goto(t, "idle")
       \/ /\ fastRef # old[t]
          /\ Goto(t, "release")
          /\ UNCHANGED <<fastRef, object>>
    /\ old' = [old EXCEPT ![t] = NoRef]
    /\ UNCHANGED <<rvars, sharers, new, victim, ret>>

Drop(t) ==
    /\ pc[t] = "drop"
    /\ DereferenceOne(t, object[t], "idle")
    /\ object' = [object EXCEPT ![t] = Null]
    /\ UNCHANGED <<fvars, old, new>>

-----------------------------------------------------------------------------
(* PspAssignPrimaryToken and SeExchangePrimaryToken *)

\* A new token in use nowhere.  Until the swap nobody else knows it, so its
\* references are counted in one step: the caller's, the one that goes with the
\* pointer, and those that ObFastReplaceObject puts into the field.
CallAssign(t) ==
    /\ t \in Replacer
    /\ pc[t] = "idle"
    /\ \E o \in Object :
          /\ state[o] = "free"
          /\ state' = [state EXCEPT ![o] = "live"]
          /\ pointerCount' = [pointerCount EXCEPT ![o] = 2 + MAX_FAST_REFS]
          /\ new' = [new EXCEPT ![t] = o]
    /\ Goto(t, "swap")
    /\ UNCHANGED <<nextToFree, reaperList, queued, entry, wpc, reap,
                   fvars, object, old, victim, ret>>

\* ObFastReplaceObject: the swap,
Swap(t) ==
    /\ pc[t] = "swap"
    /\ old' = [old EXCEPT ![t] = fastRef]
    /\ fastRef' = [obj |-> new[t], cnt |-> MAX_FAST_REFS]
    /\ Goto(t, "unstock")
    /\ UNCHANGED <<rvars, sharers, object, new, victim, ret>>

\* and the references that were left in it for the old object.
Unstock(t) ==
    /\ pc[t] = "unstock"
    /\ \/ /\ old[t].cnt # 0
          /\ DereferenceEx(t, old[t].obj, old[t].cnt, "grace")
       \/ /\ old[t].cnt = 0
          /\ Goto(t, "grace")
          /\ UNCHANGED <<rvars, victim, ret>>
    /\ UNCHANGED <<fvars, object, old, new>>

\* Mutant: the lock is not waited for.
NoGracePeriod(t) ==
    /\ pc[t] = "grace"
    /\ Goto(t, "dropOld")
    /\ UNCHANGED <<rvars, fvars, lvars>>

\* OldToken->TokenInUse = FALSE; then the lock is taken exclusive and given back
\* at once: whoever read the old pointer under it has counted itself by now.
Grace(t) ==
    /\ pc[t] = "grace"
    /\ sharers = {}
    /\ Goto(t, "dropOld")
    /\ UNCHANGED <<rvars, fvars, lvars>>

DropOld(t) ==
    /\ pc[t] = "dropOld"
    /\ DereferenceOne(t, old[t].obj, "dropNew")
    /\ old' = [old EXCEPT ![t] = NoRef]
    /\ UNCHANGED <<fvars, object, new>>

DropNew(t) ==
    /\ pc[t] = "dropNew"
    /\ DereferenceOne(t, new[t], "idle")
    /\ new' = [new EXCEPT ![t] = Null]
    /\ UNCHANGED <<fvars, object, old>>

-----------------------------------------------------------------------------
ClientStep(t) == \/ Acquire(t) \/ Take(t) \/ Refill(t) \/ Insert(t) \/ Put(t)
                 \/ Undo(t) \/ LockShared(t) \/ Peek(t) \/ Count(t)
                 \/ UnlockShared(t) \/ Release(t) \/ GiveBack(t) \/ Drop(t)

ReplacerStep(t) == \/ Swap(t) \/ Unstock(t) \/ Grace(t) \/ DropOld(t)
                   \/ DropNew(t)

DeleteStep(t) == Zero(t) \/ Defer(t) \/ Push(t) \/ Queue(t)

InWorker(w) == WorkerStep(w) /\ UNCHANGED <<fvars, pc, lvars>>

Next == \/ \E t \in Thread : \/ CallReference(t) \/ CallRelease(t) \/ CallAssign(t)
                             \/ ClientStep(t) \/ ReplacerStep(t) \/ DeleteStep(t)
        \/ \E w \in Worker : InWorker(w)

Spec == Init /\ [][Next]_vars

\* Threads inside the routines are scheduled, and so are the workers.
Fairness ==
    /\ \A t \in Thread : WF_vars(ClientStep(t) \/ ReplacerStep(t) \/ DeleteStep(t))
    /\ \A w \in Worker : WF_vars(InWorker(w))

FairSpec == Spec /\ Fairness

-----------------------------------------------------------------------------
(* Properties *)

If(b, n) == IF b THEN n ELSE 0

\* The references to o that a thread is answerable for: its own, those it wants
\* to put into the field, the new token's, and what the old one still has.
RefsOf(t, o) ==
    If(object[t] = o /\ pc[t] # "count", 1)
      + If(object[t] = o /\ pc[t] \in {"insert", "put", "undo"}, MAX_FAST_REFS)
      + If(new[t] = o, 1)
      + If(new[t] = o /\ pc[t] = "swap", 1 + MAX_FAST_REFS)
      + (IF pc[t] \in {"unstock", "grace", "dropOld"} /\ old[t].obj = o
         THEN 1 + If(pc[t] = "unstock", old[t].cnt) ELSE 0)

\* All of them, numbered for each thread.
Refs(o) == UNION {{t} \X (1 .. RefsOf(t, o)) : t \in Thread}

\* No reference is lost or counted twice on its way between the field, the
\* threads and the object: PointerCount is what all of them account for, however
\* refills, returns and replacements of the field cross.
PointerCountExact ==
    \A o \in Object :
        pointerCount[o] = Cardinality(Refs(o))
                            + If(fastRef.obj = o, 1 + fastRef.cnt)

\* Nobody touches a token that is deleted or about to be: not the field, not a
\* thread that has one, and not a reader that has read the pointer under the
\* lock and not yet counted itself, which is what the replacer's empty lock and
\* unlock are for.
NoUseAfterFree ==
    /\ state[fastRef.obj] = "live"
    /\ \A t \in Thread :
          /\ object[t] # Null => state[object[t]] = "live"
          /\ new[t] # Null => state[new[t]] = "live"
          /\ pc[t] \in {"unstock", "grace", "dropOld"} => state[old[t].obj] = "live"
          /\ pc[t] \in {"zero", "defer", "push"} => state[victim[t]] = "dead"
    /\ \A w \in Worker : wpc[w] = "reap" => reap[w] \in Object /\ state[reap[w]] = "dead"

\* One reaper is on its way exactly when the list is not NULL: a thread about to
\* queue the work item, the item on the queue, or a worker.  So the item is never
\* queued twice (ExQueueWorkItem asserts that), two workers never reap at the
\* same time, and nothing is pushed that nobody will look at.
OneReaper ==
    Cardinality({t \in Thread : pc[t] = "queue" /\ QueuesItem(entry[t])}) + queued
      + Cardinality({w \in Worker : wpc[w] # "idle"}) = If(reaperList # Null, 1)

\* An object that has been pushed is deleted, also when it was pushed while the
\* reaper was deciding to stop.
PushedObjectsAreDeleted ==
    \A o \in Object :
        (state[o] = "dead" /\ \A t \in Thread : victim[t] # o) ~> state[o] = "free"
=============================================================================
