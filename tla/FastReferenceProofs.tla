------------------------ MODULE FastReferenceProofs ------------------------
(***************************************************************************)
(* Fast references and the reaper are correct for any finite sets of       *)
(* objects, threads and workers and any number of stored references.       *)
(***************************************************************************)
EXTENDS FastReference, FiniteSetTheorems, TLAPS

Deleting == {"zero", "defer", "push", "queue"}

\* What a thread has at each place.
PcInv == \A t \in Thread :
    /\ object[t] # Null <=> pc[t] \in {"refill", "insert", "put", "undo", "count",
                                       "unlock", "holding", "release", "return", "drop"}
    /\ new[t] # Null <=> \/ pc[t] \in {"swap", "unstock", "grace", "dropOld", "dropNew"}
                         \/ pc[t] \in Deleting /\ ret[t] = "dropNew"
    /\ victim[t] # Null <=> pc[t] \in {"zero", "defer", "push"}
    /\ pc[t] \in Deleting => ret[t] \in {"idle", "dropNew"}
    /\ old[t] # NoRef <=> pc[t] \in {"take", "put", "return", "unstock", "grace", "dropOld"}
    /\ pc[t] = "take" => old[t].cnt # 0
    /\ pc[t] = "put" => MayInsert(old[t], object[t])
    /\ pc[t] = "return" => MayReturn(old[t], object[t])
    /\ t \in sharers <=> pc[t] \in {"peek", "count", "unlock"}

\* An object is live while there are references to it.
LifeInv == \A o \in Object : state[o] = "live" <=> pointerCount[o] # 0

\* The object a thread brought to zero is its own to delete.
VictimInv ==
    /\ \A t \in Thread : victim[t] # Null => state[victim[t]] = "dead"
    /\ \A t, u \in Thread : victim[t] = victim[u] /\ victim[t] # Null => t = u

\* A reader that has not counted itself is protected by the field, or by a
\* replacer that has yet to wait for it.
GraceInv == \A t \in Thread : pc[t] = "count" =>
    \/ fastRef.obj = object[t]
    \/ \E u \in Thread : pc[u] \in {"unstock", "grace"} /\ old[u].obj = object[t]

\* The objects on the reaper list or in the hands of a reaper.
Pushed == {o \in Object : state[o] = "dead" /\ \A t \in Thread : victim[t] # o}

\* Their links lead from one to the next, and no two of ObpReaperList, the
\* reaper and the links lead to the same object.
ChainInv ==
    /\ \A o \in Pushed : nextToFree[o] \in Pushed \cup {Null, One}
    /\ \A o, p \in Pushed : nextToFree[o] = nextToFree[p] /\ nextToFree[o] \in Object => o = p
    /\ reaperList \in Pushed \cup {Null, One}
    /\ \A o \in Pushed : reaperList \in Object => nextToFree[o] # reaperList
    /\ \A w \in Worker : wpc[w] = "reap" =>
          /\ reap[w] \in Pushed
          /\ reap[w] # reaperList
          /\ \A o \in Pushed : nextToFree[o] # reap[w]
    /\ \A t \in Thread : pc[t] = "push" => nextToFree[victim[t]] = entry[t]

\* The threads that are about to queue the work item, and the busy workers.
Queuing == {t \in Thread : pc[t] = "queue" /\ QueuesItem(entry[t])}
Busy    == {w \in Worker : wpc[w] # "idle"}

\* A reaper that has not begun will find an object.
StartInv ==
    /\ queued # 0 \/ Queuing # {} => reaperList \in Object
    /\ \A w \in Worker : wpc[w] = "exchange" => reaperList \in Object

ReaperInv == OneReaper /\ StartInv /\ ChainInv

IInv == /\ TypeOK
        /\ PcInv
        /\ LifeInv
        /\ VictimInv
        /\ GraceInv
        /\ ReaperInv
        /\ PointerCountExact

-----------------------------------------------------------------------------
(* Counting *)

\* The pairs of a thread and a number up to its f.
Pairs(f) == UNION {{u} \X (1 .. f[u]) : u \in Thread}

\* What one thread contributes to the number of pairs.
LEMMA PairsChange ==
    ASSUME NEW m \in Nat, NEW f \in [Thread -> 0 .. m], NEW g \in [Thread -> 0 .. m],
           NEW t \in Thread, \A u \in Thread \ {t} : g[u] = f[u]
    PROVE  /\ Cardinality(Pairs(f)) \in Nat /\ Cardinality(Pairs(f)) >= f[t]
           /\ Cardinality(Pairs(g)) = Cardinality(Pairs(f)) - f[t] + g[t]
<1> DEFINE R == UNION {{u} \X (1 .. f[u]) : u \in Thread \ {t}}
           M(n) == {t} \X (1 .. n)
<1>1. /\ Pairs(f) = R \cup M(f[t]) /\ Pairs(g) = R \cup M(g[t])
      /\ R \cap M(f[t]) = {} /\ R \cap M(g[t]) = {}
  BY DEF Pairs
<1>2. IsFiniteSet(R)
  <2>1. IsFiniteSet(Thread \X (1 .. m))
    <3>1. 1 \in Int /\ m \in Int
      OBVIOUS
    <3>2. IsFiniteSet(1 .. m)
      BY <3>1, FS_Interval, Zenon
    <3>. QED  BY <3>2, ReaperAssumption, FS_Product, Zenon
  <2>2. R \subseteq Thread \X (1 .. m)
    OBVIOUS
  <2>. QED  BY <2>1, <2>2, FS_Subset
<1>3. ASSUME NEW n \in 0 .. m PROVE IsFiniteSet(M(n)) /\ Cardinality(M(n)) = n
  <2>1. IsFiniteSet(1 .. n) /\ Cardinality(1 .. n) = n
    <3>1. 1 \in Int /\ n \in Int
      OBVIOUS
    <3>2. /\ IsFiniteSet(1 .. n)
          /\ Cardinality(1 .. n) = IF 1 > n THEN 0 ELSE n - 1 + 1
      BY <3>1, FS_Interval, Zenon
    <3>. QED  BY <3>2
  <2>2. IsFiniteSet({t}) /\ Cardinality({t}) = 1
    BY FS_Singleton
  <2>3. IsFiniteSet(M(n)) /\ Cardinality(M(n)) = Cardinality({t}) * Cardinality(1 .. n)
    BY <2>1, <2>2, FS_Product, Zenon
  <2>. QED  BY <2>1, <2>2, <2>3
<1>4. f[t] \in 0 .. m /\ g[t] \in 0 .. m
  OBVIOUS
<1> HIDE DEF R, M
<1>5. ASSUME NEW n \in 0 .. m, R \cap M(n) = {}
      PROVE  Cardinality(R \cup M(n)) = Cardinality(R) + n
  <2>1. Cardinality(R \cup M(n)) = Cardinality(R) + Cardinality(M(n)) - Cardinality(R \cap M(n))
    BY <1>2, <1>3, FS_Union
  <2>2. Cardinality(R \cap M(n)) = 0
    BY <1>5, FS_EmptySet
  <2>. QED  BY <1>2, <1>3, <2>1, <2>2, FS_CardinalityType
<1>6. /\ Cardinality(Pairs(f)) = Cardinality(R) + f[t]
      /\ Cardinality(Pairs(g)) = Cardinality(R) + g[t]
  BY <1>1, <1>4, <1>5
<1>. QED  BY <1>2, <1>4, <1>6, FS_CardinalityType

\* The part of a count that a step of t may change.
Share(t, o) == RefsOf(t, o) + If(fastRef.obj = o, 1 + fastRef.cnt)

LEMMA RefsOfType ==
    ASSUME TypeOK, NEW t \in Thread, NEW o \in Object
    PROVE  RefsOf(t, o) \in 0 .. 5 + 3 * MAX_FAST_REFS
<1>1. /\ MAX_FAST_REFS \in Nat
      /\ pc[t] \in {"unstock", "grace", "dropOld"} /\ old[t].obj = o => old[t].cnt \in 0 .. MAX_FAST_REFS
  BY FastReferenceAssumption, ReaperAssumption DEF TypeOK, Ref, NoRef
<1>. QED  BY <1>1 DEF RefsOf, If

LEMMA ShareType ==
    ASSUME TypeOK, NEW t \in Thread, NEW o \in Object
    PROVE  Share(t, o) \in Nat
<1>1. RefsOf(t, o) \in Nat /\ (fastRef.obj = o => fastRef.cnt \in Nat)
  BY RefsOfType, FastReferenceAssumption DEF TypeOK, Ref
<1>. QED  BY <1>1 DEF Share, If

\* What a thread is answerable for is part of the count.
LEMMA RefsCounted ==
    ASSUME TypeOK, PointerCountExact, NEW t \in Thread, NEW o \in Object
    PROVE  pointerCount[o] >= Share(t, o)
<1> DEFINE f == [u \in Thread |-> RefsOf(u, o)]
           m == 5 + 3 * MAX_FAST_REFS
<1>1. m \in Nat /\ f \in [Thread -> 0 .. m]
  BY RefsOfType, FastReferenceAssumption
<1>2. Refs(o) = Pairs(f) /\ f[t] = RefsOf(t, o)
  BY DEF Refs, Pairs
<1> HIDE DEF f, m
<1>3. Cardinality(Pairs(f)) \in Nat /\ Cardinality(Pairs(f)) >= f[t]
  BY <1>1, PairsChange
<1>4. If(fastRef.obj = o, 1 + fastRef.cnt) \in Nat /\ f[t] \in Nat
  BY <1>1 DEF TypeOK, Ref, If
<1>. QED  BY <1>2, <1>3, <1>4 DEF PointerCountExact, Share

\* A step of one thread has to account for what it changes.
LEMMA CountStep ==
    ASSUME TypeOK, TypeOK', PointerCountExact, NEW t \in Thread,
           \A u \in Thread \ {t} : /\ pc'[u] = pc[u] /\ object'[u] = object[u]
                                   /\ new'[u] = new[u] /\ old'[u] = old[u],
           \A o \in Object :
              pointerCount'[o] = pointerCount[o] - Share(t, o) + Share(t, o)'
    PROVE  PointerCountExact'
<1>. SUFFICES ASSUME NEW o \in Object
              PROVE  pointerCount'[o] = Cardinality(Refs(o)') + If(fastRef.obj = o, 1 + fastRef.cnt)'
  BY DEF PointerCountExact
<1> DEFINE f == [u \in Thread |-> RefsOf(u, o)]
           g == [u \in Thread |-> RefsOf(u, o)']
           m == 5 + 3 * MAX_FAST_REFS
<1>1. m \in Nat /\ f \in [Thread -> 0 .. m]
  BY RefsOfType, FastReferenceAssumption
<1>2. g \in [Thread -> 0 .. m]
  <2>1. ASSUME NEW u \in Thread PROVE RefsOf(u, o)' \in 0 .. m
    <3>1. /\ MAX_FAST_REFS \in Nat
          /\ (pc[u] \in {"unstock", "grace", "dropOld"} /\ old[u].obj = o => old[u].cnt \in 0 .. MAX_FAST_REFS)'
      BY FastReferenceAssumption, ReaperAssumption DEF TypeOK, Ref, NoRef
    <3>. QED  BY <3>1 DEF RefsOf, If
  <2>. QED  BY <2>1
<1>3. \A u \in Thread \ {t} : g[u] = f[u]
  BY DEF RefsOf
<1>4. /\ Refs(o) = Pairs(f) /\ f[t] = RefsOf(t, o)
      /\ Refs(o)' = Pairs(g) /\ g[t] = RefsOf(t, o)'
  BY DEF Refs, Pairs
<1> HIDE DEF f, g, m
<1>5. /\ Cardinality(Pairs(f)) \in Nat
      /\ Cardinality(Pairs(g)) = Cardinality(Pairs(f)) - f[t] + g[t]
  BY <1>1, <1>2, <1>3, PairsChange
<1>6. If(fastRef.obj = o, 1 + fastRef.cnt) \in Nat /\ f[t] \in Nat /\ g[t] \in Nat
  BY <1>1, <1>2 DEF TypeOK, Ref, If
<1>7. If(fastRef.obj = o, 1 + fastRef.cnt)' \in Nat
  BY DEF TypeOK, Ref, If
<1>8. pointerCount[o] = Cardinality(Pairs(f)) + If(fastRef.obj = o, 1 + fastRef.cnt)
  BY <1>4 DEF PointerCountExact
<1>. QED  BY <1>4, <1>5, <1>6, <1>7, <1>8 DEF Share

\* What is counted is live.
LEMMA CountedIsLive ==
    ASSUME TypeOK, LifeInv, PointerCountExact, NEW t \in Thread, NEW o \in Object,
           Share(t, o) # 0
    PROVE  state[o] = "live"
BY RefsCounted, ShareType DEF LifeInv, TypeOK, ReaperTypeOK

-----------------------------------------------------------------------------
(* Steps of threads that have brought no count to zero *)

\* Such a step of t: nothing of the reaper's and nothing of another thread.
Quiet(t) ==
    /\ pc[t] \notin Deleting
    /\ \E p \in Pc \ Deleting : pc' = [pc EXCEPT ![t] = p]
    /\ \A u \in Thread \ {t} : /\ object'[u] = object[u] /\ new'[u] = new[u]
                               /\ old'[u] = old[u]
    /\ UNCHANGED <<nextToFree, reaperList, queued, entry, wpc, reap, victim>>

\* The reaper does not notice.
LEMMA QuietReaper ==
    ASSUME IInv, NEW t \in Thread, Quiet(t),
           \A o \in Object : state[o] = "dead" <=> state'[o] = "dead"
    PROVE  VictimInv' /\ ReaperInv'
<1>1. /\ pc \in [Thread -> Pc] /\ victim \in [Thread -> Object \cup {Null}]
      /\ Null \notin Object
  BY ReaperAssumption DEF IInv, TypeOK
<1>2. PICK p \in Pc \ Deleting : pc' = [pc EXCEPT ![t] = p]
  BY DEF Quiet
<1>3. \A u \in Thread : /\ pc'[u] = "queue" <=> pc[u] = "queue"
                        /\ pc'[u] = "push" <=> pc[u] = "push"
  BY <1>1, <1>2 DEF Quiet, Deleting
<1>4. VictimInv'
  BY <1>1 DEF IInv, VictimInv, Quiet
<1>5. Pushed' = Pushed
  BY DEF Pushed, Quiet
<1>6. Queuing' = Queuing /\ Busy' = Busy
  BY <1>3 DEF Queuing, Busy, Quiet, QueuesItem
<1>7. OneReaper'
  BY <1>6 DEF IInv, ReaperInv, OneReaper, Queuing, Busy, Quiet
<1>8. StartInv'
  BY <1>6 DEF IInv, ReaperInv, StartInv, Quiet
<1>9. ChainInv'
  BY <1>3, <1>5 DEF IInv, ReaperInv, ChainInv, Quiet
<1>. QED  BY <1>4, <1>7, <1>8, <1>9 DEF ReaperInv

\* Together with the counts.
LEMMA QuietKeepsIInv ==
    ASSUME IInv, NEW t \in Thread, Quiet(t), TypeOK', PcInv', GraceInv', LifeInv',
           \A o \in Object : state[o] = "dead" <=> state'[o] = "dead",
           \A o \in Object :
              pointerCount'[o] = pointerCount[o] - Share(t, o) + Share(t, o)'
    PROVE  IInv'
<1>1. VictimInv' /\ ReaperInv'
  BY QuietReaper
<1>2. \A u \in Thread \ {t} : /\ pc'[u] = pc[u] /\ object'[u] = object[u]
                              /\ new'[u] = new[u] /\ old'[u] = old[u]
  BY DEF Quiet, IInv, TypeOK
<1>3. PointerCountExact'
  BY <1>2, CountStep DEF IInv
<1>. QED  BY <1>1, <1>3 DEF IInv

\* A step that leaves the counts alone.
LEMMA SilentKeepsIInv ==
    ASSUME IInv, NEW t \in Thread, Quiet(t), TypeOK', PcInv', GraceInv',
           UNCHANGED <<state, pointerCount>>,
           \A o \in Object : Share(t, o)' = Share(t, o)
    PROVE  IInv'
<1>1. LifeInv'
  BY DEF IInv, LifeInv
<1>2. \A o \in Object : pointerCount'[o] = pointerCount[o] - Share(t, o) + Share(t, o)'
  BY ShareType DEF IInv, TypeOK, ReaperTypeOK
<1>. QED  BY <1>1, <1>2, QuietKeepsIInv

LEMMA CallReferenceKeepsIInv ==
    ASSUME IInv, NEW t \in Thread, CallReference(t)
    PROVE  IInv'
<1>. USE DEF CallReference, Goto, rvars, fvars, lvars, Pc
<1>1. TypeOK'
  BY DEF IInv, TypeOK, ReaperTypeOK
<1>2. PcInv'
  BY DEF IInv, TypeOK, PcInv, Deleting
<1>3. GraceInv'
  BY DEF IInv, TypeOK, GraceInv
<1>4. Quiet(t) /\ UNCHANGED <<state, pointerCount>>
  BY DEF IInv, Quiet, Deleting
<1>5. \A o \in Object : Share(t, o)' = Share(t, o)
  BY DEF IInv, TypeOK, Share, RefsOf, If
<1>. QED  BY <1>1, <1>2, <1>3, <1>4, <1>5, SilentKeepsIInv

\* A stored reference becomes the thread's own.
LEMMA TakeKeepsIInv ==
    ASSUME IInv, NEW t \in Thread, Take(t)
    PROVE  IInv'
<1>. USE DEF Goto, rvars, fvars, lvars, Pc
<1>1. /\ pc[t] = "take" /\ old[t] \in Ref /\ old[t].cnt \in 1 .. MAX_FAST_REFS
      /\ MAX_FAST_REFS \in Nat /\ object[t] = Null /\ Null \notin Object
      /\ old[t].obj \in Object
  BY FastReferenceAssumption, ReaperAssumption DEF IInv, TypeOK, Take, PcInv, Ref
<1>2. CASE fastRef = old[t]
  <2>1. TypeOK'
    BY <1>1, <1>2 DEF Take, IInv, TypeOK, ReaperTypeOK, Ref
  <2>2. PcInv'
    BY <1>1, <1>2 DEF Take, IInv, TypeOK, PcInv, Deleting
  <2>3. GraceInv'
    BY <1>1, <1>2 DEF Take, IInv, TypeOK, GraceInv, Ref
  <2>4. Quiet(t) /\ UNCHANGED <<state, pointerCount>>
    <3>1. \E p \in Pc \ Deleting : pc' = [pc EXCEPT ![t] = p]
      BY <1>1, <1>2 DEF Take, Deleting
    <3>2. pc[t] \notin Deleting
      BY <1>1 DEF Deleting
    <3>3. \A u \in Thread \ {t} : /\ object'[u] = object[u] /\ new'[u] = new[u]
                                 /\ old'[u] = old[u]
      BY <1>2 DEF Take, IInv, TypeOK
    <3>4. UNCHANGED <<nextToFree, reaperList, queued, entry, wpc, reap, victim>>
      BY <1>2 DEF Take
    <3>5. UNCHANGED <<state, pointerCount>>
      BY <1>2 DEF Take
    <3>. QED  BY <3>1, <3>2, <3>3, <3>4, <3>5, Zenon DEF Quiet
  <2>5. \A o \in Object : Share(t, o)' = Share(t, o)
    BY <1>1, <1>2 DEF Take, IInv, TypeOK, Share, RefsOf, If, Ref
  <2>. QED  BY <2>1, <2>2, <2>3, <2>4, <2>5, SilentKeepsIInv
<1>3. CASE fastRef # old[t]
  <2>1. TypeOK'
    BY <1>1, <1>3 DEF Take, IInv, TypeOK, ReaperTypeOK
  <2>2. PcInv'
    BY <1>1, <1>3 DEF Take, IInv, TypeOK, PcInv, Deleting
  <2>3. GraceInv'
    BY <1>1, <1>3 DEF Take, IInv, TypeOK, GraceInv
  <2>4. Quiet(t) /\ UNCHANGED <<state, pointerCount>>
    BY <1>1, <1>3 DEF Take, Quiet, Deleting
  <2>5. \A o \in Object : Share(t, o)' = Share(t, o)
    BY <1>1, <1>3 DEF Take, IInv, TypeOK, Share, RefsOf, If
  <2>. QED  BY <2>1, <2>2, <2>3, <2>4, <2>5, SilentKeepsIInv
<1>. QED  BY <1>2, <1>3
LEMMA LockSharedKeepsIInv ==
    ASSUME IInv, NEW t \in Thread, LockShared(t)
    PROVE  IInv'
<1>. USE DEF LockShared, Goto, rvars, fvars, lvars, Pc
<1>0. Null \notin Object /\ MAX_FAST_REFS \in Nat /\ fastRef.obj \in Object
  BY FastReferenceAssumption, ReaperAssumption DEF IInv, TypeOK, Ref
<1>1. TypeOK'
  BY <1>0 DEF IInv, TypeOK, ReaperTypeOK
<1>2. PcInv'
  BY <1>0 DEF IInv, TypeOK, PcInv, Deleting
<1>3. GraceInv'
  BY <1>0 DEF IInv, TypeOK, GraceInv, PcInv
<1>4. Quiet(t) /\ UNCHANGED <<state, pointerCount>>
  BY DEF IInv, TypeOK, Quiet, Deleting
<1>5. \A o \in Object : Share(t, o)' = Share(t, o)
  BY <1>0 DEF IInv, TypeOK, PcInv, Share, RefsOf, If
<1>. QED  BY <1>1, <1>2, <1>3, <1>4, <1>5, SilentKeepsIInv

\* The pointer is read; the field protects it so far.
LEMMA PeekKeepsIInv ==
    ASSUME IInv, NEW t \in Thread, Peek(t)
    PROVE  IInv'
<1>. USE DEF Peek, Goto, rvars, fvars, lvars, Pc
<1>0. Null \notin Object /\ MAX_FAST_REFS \in Nat /\ fastRef.obj \in Object
  BY FastReferenceAssumption, ReaperAssumption DEF IInv, TypeOK, Ref
<1>1. TypeOK'
  BY <1>0 DEF IInv, TypeOK, ReaperTypeOK
<1>2. PcInv'
  BY <1>0 DEF IInv, TypeOK, PcInv, Deleting
<1>3. GraceInv'
  BY <1>0 DEF IInv, TypeOK, GraceInv, PcInv
<1>4. Quiet(t) /\ UNCHANGED <<state, pointerCount>>
  BY DEF IInv, TypeOK, Quiet, Deleting
<1>5. \A o \in Object : Share(t, o)' = Share(t, o)
  BY <1>0 DEF IInv, TypeOK, PcInv, Share, RefsOf, If
<1>. QED  BY <1>1, <1>2, <1>3, <1>4, <1>5, SilentKeepsIInv

LEMMA UnlockSharedKeepsIInv ==
    ASSUME IInv, NEW t \in Thread, UnlockShared(t)
    PROVE  IInv'
<1>. USE DEF UnlockShared, Goto, rvars, fvars, lvars, Pc
<1>0. Null \notin Object /\ MAX_FAST_REFS \in Nat /\ fastRef.obj \in Object
  BY FastReferenceAssumption, ReaperAssumption DEF IInv, TypeOK, Ref
<1>1. TypeOK'
  BY <1>0 DEF IInv, TypeOK, ReaperTypeOK
<1>2. PcInv'
  BY <1>0 DEF IInv, TypeOK, PcInv, Deleting
<1>3. GraceInv'
  BY <1>0 DEF IInv, TypeOK, GraceInv, PcInv
<1>4. Quiet(t) /\ UNCHANGED <<state, pointerCount>>
  BY DEF IInv, TypeOK, Quiet, Deleting
<1>5. \A o \in Object : Share(t, o)' = Share(t, o)
  BY <1>0 DEF IInv, TypeOK, PcInv, Share, RefsOf, If
<1>. QED  BY <1>1, <1>2, <1>3, <1>4, <1>5, SilentKeepsIInv

LEMMA CallReleaseKeepsIInv ==
    ASSUME IInv, NEW t \in Thread, CallRelease(t)
    PROVE  IInv'
<1>. USE DEF CallRelease, Goto, rvars, fvars, lvars, Pc
<1>0. Null \notin Object /\ MAX_FAST_REFS \in Nat /\ fastRef.obj \in Object
  BY FastReferenceAssumption, ReaperAssumption DEF IInv, TypeOK, Ref
<1>1. TypeOK'
  BY <1>0 DEF IInv, TypeOK, ReaperTypeOK
<1>2. PcInv'
  BY <1>0 DEF IInv, TypeOK, PcInv, Deleting
<1>3. GraceInv'
  BY <1>0 DEF IInv, TypeOK, GraceInv, PcInv
<1>4. Quiet(t) /\ UNCHANGED <<state, pointerCount>>
  BY DEF IInv, TypeOK, Quiet, Deleting
<1>5. \A o \in Object : Share(t, o)' = Share(t, o)
  BY <1>0 DEF IInv, TypeOK, PcInv, Share, RefsOf, If
<1>. QED  BY <1>1, <1>2, <1>3, <1>4, <1>5, SilentKeepsIInv

\* Nobody who read the old pointer is left.
LEMMA GraceKeepsIInv ==
    ASSUME IInv, NEW t \in Thread, Grace(t)
    PROVE  IInv'
<1>. USE DEF Grace, Goto, rvars, fvars, lvars, Pc
<1>0. Null \notin Object /\ MAX_FAST_REFS \in Nat /\ fastRef.obj \in Object
  BY FastReferenceAssumption, ReaperAssumption DEF IInv, TypeOK, Ref
<1>1. TypeOK'
  BY <1>0 DEF IInv, TypeOK, ReaperTypeOK
<1>2. PcInv'
  BY <1>0 DEF IInv, TypeOK, PcInv, Deleting
<1>3. GraceInv'
  BY <1>0 DEF IInv, TypeOK, GraceInv, PcInv
<1>4. Quiet(t) /\ UNCHANGED <<state, pointerCount>>
  BY DEF IInv, TypeOK, Quiet, Deleting
<1>5. \A o \in Object : Share(t, o)' = Share(t, o)
  BY <1>0 DEF IInv, TypeOK, PcInv, Share, RefsOf, If
<1>. QED  BY <1>1, <1>2, <1>3, <1>4, <1>5, SilentKeepsIInv

LEMMA AcquireKeepsIInv ==
    ASSUME IInv, NEW t \in Thread, Acquire(t)
    PROVE  IInv'
<1>. USE DEF Acquire, Goto, rvars, fvars, lvars, Pc
<1>0. /\ Null \notin Object /\ MAX_FAST_REFS \in Nat \ {0}
      /\ fastRef \in Ref /\ fastRef.obj \in Object /\ fastRef.cnt \in 0 .. MAX_FAST_REFS
  BY FastReferenceAssumption, ReaperAssumption DEF IInv, TypeOK, Ref, NoRef, PcInv, MayInsert, MayReturn
<1>1. TypeOK'
  BY <1>0 DEF IInv, TypeOK, ReaperTypeOK, Ref
<1>2. PcInv'
  BY <1>0 DEF IInv, TypeOK, PcInv, Deleting, NoRef, MayInsert, MayReturn
<1>3. GraceInv'
  BY <1>0 DEF IInv, TypeOK, GraceInv, PcInv, Ref
<1>4. Quiet(t) /\ UNCHANGED <<state, pointerCount>>
  BY DEF IInv, TypeOK, Quiet, Deleting
<1>5. \A o \in Object : Share(t, o)' = Share(t, o)
  BY <1>0 DEF IInv, TypeOK, PcInv, Share, RefsOf, If, Ref
<1>. QED  BY <1>1, <1>2, <1>3, <1>4, <1>5, SilentKeepsIInv

LEMMA InsertKeepsIInv ==
    ASSUME IInv, NEW t \in Thread, Insert(t)
    PROVE  IInv'
<1>. USE DEF Insert, Goto, rvars, fvars, lvars, Pc
<1>0. /\ Null \notin Object /\ MAX_FAST_REFS \in Nat \ {0}
      /\ fastRef \in Ref /\ fastRef.obj \in Object /\ fastRef.cnt \in 0 .. MAX_FAST_REFS
  BY FastReferenceAssumption, ReaperAssumption DEF IInv, TypeOK, Ref, NoRef, PcInv, MayInsert, MayReturn
<1>1. TypeOK'
  BY <1>0 DEF IInv, TypeOK, ReaperTypeOK, Ref
<1>2. PcInv'
  BY <1>0 DEF IInv, TypeOK, PcInv, Deleting, NoRef, MayInsert, MayReturn
<1>3. GraceInv'
  BY <1>0 DEF IInv, TypeOK, GraceInv, PcInv, Ref
<1>4. Quiet(t) /\ UNCHANGED <<state, pointerCount>>
  BY DEF IInv, TypeOK, Quiet, Deleting
<1>5. \A o \in Object : Share(t, o)' = Share(t, o)
  BY <1>0 DEF IInv, TypeOK, PcInv, Share, RefsOf, If, Ref
<1>. QED  BY <1>1, <1>2, <1>3, <1>4, <1>5, SilentKeepsIInv

\* The references a thread has taken for the field go into it.
LEMMA PutKeepsIInv ==
    ASSUME IInv, NEW t \in Thread, Put(t)
    PROVE  IInv'
<1>. USE DEF Put, Goto, rvars, fvars, lvars, Pc
<1>0. /\ Null \notin Object /\ MAX_FAST_REFS \in Nat \ {0}
      /\ fastRef \in Ref /\ fastRef.obj \in Object /\ fastRef.cnt \in 0 .. MAX_FAST_REFS
      /\ old[t] \in Ref /\ old[t].cnt = 0 /\ old[t].obj = object[t] /\ object[t] \in Object
  BY FastReferenceAssumption, ReaperAssumption DEF IInv, TypeOK, Ref, NoRef, PcInv, MayInsert, MayReturn
<1>1. TypeOK'
  BY <1>0 DEF IInv, TypeOK, ReaperTypeOK, Ref
<1>2. PcInv'
  BY <1>0 DEF IInv, TypeOK, PcInv, Deleting, NoRef, MayInsert, MayReturn
<1>3. GraceInv'
  BY <1>0 DEF IInv, TypeOK, GraceInv, PcInv, Ref
<1>4. Quiet(t) /\ UNCHANGED <<state, pointerCount>>
  BY DEF IInv, TypeOK, Quiet, Deleting
<1>5. \A o \in Object : Share(t, o)' = Share(t, o)
  BY <1>0 DEF IInv, TypeOK, PcInv, Share, RefsOf, If, Ref
<1>. QED  BY <1>1, <1>2, <1>3, <1>4, <1>5, SilentKeepsIInv

LEMMA ReleaseKeepsIInv ==
    ASSUME IInv, NEW t \in Thread, Release(t)
    PROVE  IInv'
<1>. USE DEF Release, Goto, rvars, fvars, lvars, Pc
<1>0. /\ Null \notin Object /\ MAX_FAST_REFS \in Nat \ {0}
      /\ fastRef \in Ref /\ fastRef.obj \in Object /\ fastRef.cnt \in 0 .. MAX_FAST_REFS
  BY FastReferenceAssumption, ReaperAssumption DEF IInv, TypeOK, Ref, NoRef, PcInv, MayInsert, MayReturn
<1>1. TypeOK'
  BY <1>0 DEF IInv, TypeOK, ReaperTypeOK, Ref
<1>2. PcInv'
  BY <1>0 DEF IInv, TypeOK, PcInv, Deleting, NoRef, MayInsert, MayReturn
<1>3. GraceInv'
  BY <1>0 DEF IInv, TypeOK, GraceInv, PcInv, Ref
<1>4. Quiet(t) /\ UNCHANGED <<state, pointerCount>>
  BY DEF IInv, TypeOK, Quiet, Deleting
<1>5. \A o \in Object : Share(t, o)' = Share(t, o)
  BY <1>0 DEF IInv, TypeOK, PcInv, Share, RefsOf, If, Ref
<1>. QED  BY <1>1, <1>2, <1>3, <1>4, <1>5, SilentKeepsIInv

\* A thread's own reference becomes a stored one.
LEMMA GiveBackKeepsIInv ==
    ASSUME IInv, NEW t \in Thread, GiveBack(t)
    PROVE  IInv'
<1>. USE DEF GiveBack, Goto, rvars, fvars, lvars, Pc
<1>0. /\ Null \notin Object /\ MAX_FAST_REFS \in Nat \ {0}
      /\ fastRef \in Ref /\ fastRef.obj \in Object /\ fastRef.cnt \in 0 .. MAX_FAST_REFS
      /\ old[t] \in Ref /\ old[t].cnt \in 0 .. (MAX_FAST_REFS - 1)
      /\ old[t].obj = object[t] /\ object[t] \in Object
  BY FastReferenceAssumption, ReaperAssumption DEF IInv, TypeOK, Ref, NoRef, PcInv, MayInsert, MayReturn
<1>1. TypeOK'
  BY <1>0 DEF IInv, TypeOK, ReaperTypeOK, Ref
<1>2. PcInv'
  BY <1>0 DEF IInv, TypeOK, PcInv, Deleting, NoRef, MayInsert, MayReturn
<1>3. GraceInv'
  BY <1>0 DEF IInv, TypeOK, GraceInv, PcInv, Ref
<1>4. Quiet(t) /\ UNCHANGED <<state, pointerCount>>
  BY DEF IInv, TypeOK, Quiet, Deleting
<1>5. \A o \in Object : Share(t, o)' = Share(t, o)
  BY <1>0 DEF IInv, TypeOK, PcInv, Share, RefsOf, If, Ref
<1>. QED  BY <1>1, <1>2, <1>3, <1>4, <1>5, SilentKeepsIInv

\* The new object's references go into the field, the old one's out of it.
LEMMA SwapKeepsIInv ==
    ASSUME IInv, NEW t \in Thread, Swap(t)
    PROVE  IInv'
<1>. USE DEF Swap, Goto, rvars, fvars, lvars, Pc
<1>0. /\ Null \notin Object /\ MAX_FAST_REFS \in Nat \ {0}
      /\ fastRef \in Ref /\ fastRef.obj \in Object /\ fastRef.cnt \in 0 .. MAX_FAST_REFS
      /\ new[t] \in Object
  BY FastReferenceAssumption, ReaperAssumption DEF IInv, TypeOK, Ref, NoRef, PcInv, MayInsert, MayReturn
<1>1. TypeOK'
  BY <1>0 DEF IInv, TypeOK, ReaperTypeOK, Ref
<1>2. PcInv'
  BY <1>0 DEF IInv, TypeOK, PcInv, Deleting, NoRef, MayInsert, MayReturn
<1>3. GraceInv'
  BY <1>0 DEF IInv, TypeOK, GraceInv, PcInv, Ref
<1>4. Quiet(t) /\ UNCHANGED <<state, pointerCount>>
  BY DEF IInv, TypeOK, Quiet, Deleting
<1>5. \A o \in Object : Share(t, o)' = Share(t, o)
  BY <1>0 DEF IInv, TypeOK, PcInv, Share, RefsOf, If, Ref
<1>. QED  BY <1>1, <1>2, <1>3, <1>4, <1>5, SilentKeepsIInv

-----------------------------------------------------------------------------
(* References counted and given up *)

\* A reader that has not counted itself has a live object all the same.
LEMMA ReaderIsProtected ==
    ASSUME IInv, NEW t \in Thread, pc[t] = "count"
    PROVE  object[t] \in Object /\ state[object[t]] = "live"
<1>0. /\ MAX_FAST_REFS \in Nat \ {0} /\ object[t] \in Object
      /\ fastRef \in Ref /\ fastRef.obj \in Object /\ fastRef.cnt \in 0 .. MAX_FAST_REFS
  BY FastReferenceAssumption, ReaperAssumption DEF IInv, TypeOK, Ref, NoRef, PcInv
<1>1. CASE fastRef.obj = object[t]
  <2>1. RefsOf(t, object[t]) \in Nat
    BY <1>0, RefsOfType DEF IInv
  <2>2. Share(t, object[t]) # 0
    BY <1>0, <1>1, <2>1 DEF Share, If
  <2>. QED  BY <1>0, <2>2, CountedIsLive DEF IInv
<1>2. CASE \E u \in Thread : pc[u] \in {"unstock", "grace"} /\ old[u].obj = object[t]
  <2>1. PICK u \in Thread : pc[u] \in {"unstock", "grace"} /\ old[u].obj = object[t]
    BY <1>2
  <2>2. old[u].cnt \in 0 .. MAX_FAST_REFS
    BY <2>1 DEF IInv, PcInv, TypeOK, Ref, NoRef
  <2>3. Share(u, object[t]) # 0
    BY <1>0, <2>1, <2>2 DEF Share, RefsOf, If
  <2>. QED  BY <1>0, <2>3, CountedIsLive DEF IInv
<1>. QED  BY <1>1, <1>2 DEF IInv, GraceInv

LEMMA CountKeepsIInv ==
    ASSUME IInv, NEW t \in Thread, Count(t)
    PROVE  IInv'
<1>. USE DEF Count, Reference, Goto, rvars, fvars, lvars, Pc
<1>0. /\ Null \notin Object /\ MAX_FAST_REFS \in Nat \ {0}
      /\ object[t] \in Object /\ state[object[t]] = "live"
      /\ pointerCount \in [Object -> Nat]
  BY FastReferenceAssumption, ReaperAssumption, ReaderIsProtected
     DEF IInv, TypeOK, ReaperTypeOK
<1>1. TypeOK'
  BY <1>0 DEF IInv, TypeOK, ReaperTypeOK
<1>2. PcInv'
  BY <1>0 DEF IInv, TypeOK, PcInv, Deleting
<1>3. GraceInv' /\ LifeInv'
  BY <1>0 DEF IInv, TypeOK, GraceInv, LifeInv
<1>4. Quiet(t) /\ UNCHANGED state
  BY DEF IInv, TypeOK, Quiet, Deleting
<1>5. \A o \in Object : /\ Share(t, o)' = Share(t, o) + If(o = object[t], 1)
                        /\ pointerCount'[o] = pointerCount[o] + If(o = object[t], 1)
  <2>1. fastRef.obj \in Object /\ fastRef.cnt \in Nat
    BY DEF IInv, TypeOK, Ref
  <2>. QED  BY <1>0, <2>1 DEF IInv, TypeOK, PcInv, Share, RefsOf, If
<1>6. \A o \in Object : pointerCount'[o] = pointerCount[o] - Share(t, o) + Share(t, o)'
  BY <1>0, <1>5, ShareType DEF IInv, If
<1>. QED  BY <1>1, <1>2, <1>3, <1>4, <1>6, QuietKeepsIInv

\* References for the field, on behalf of the thread's own.
LEMMA RefillKeepsIInv ==
    ASSUME IInv, NEW t \in Thread, Refill(t)
    PROVE  IInv'
<1>. USE DEF Refill, Reference, Goto, rvars, fvars, lvars, Pc
<1>0. /\ Null \notin Object /\ MAX_FAST_REFS \in Nat \ {0}
      /\ object[t] \in Object /\ pointerCount \in [Object -> Nat]
      /\ fastRef.obj \in Object /\ fastRef.cnt \in Nat
  BY FastReferenceAssumption, ReaperAssumption
     DEF IInv, TypeOK, ReaperTypeOK, PcInv, Ref
<1>a. state[object[t]] = "live"
  <2>1. Share(t, object[t]) # 0
    BY <1>0 DEF IInv, TypeOK, PcInv, Share, RefsOf, If
  <2>. QED  BY <1>0, <2>1, CountedIsLive DEF IInv
<1>1. TypeOK'
  BY <1>0 DEF IInv, TypeOK, ReaperTypeOK
<1>2. PcInv'
  BY <1>0 DEF IInv, TypeOK, PcInv, Deleting
<1>3. GraceInv' /\ LifeInv'
  BY <1>0, <1>a DEF IInv, TypeOK, GraceInv, LifeInv
<1>4. Quiet(t) /\ UNCHANGED state
  BY DEF IInv, TypeOK, Quiet, Deleting
<1>5. \A o \in Object :
         /\ Share(t, o)' = Share(t, o) + If(o = object[t], MAX_FAST_REFS)
         /\ pointerCount'[o] = pointerCount[o] + If(o = object[t], MAX_FAST_REFS)
  BY <1>0 DEF IInv, TypeOK, PcInv, Share, RefsOf, If
<1>6. \A o \in Object : pointerCount'[o] = pointerCount[o] - Share(t, o) + Share(t, o)'
  BY <1>0, <1>5, ShareType DEF IInv, If
<1>. QED  BY <1>1, <1>2, <1>3, <1>4, <1>6, QuietKeepsIInv

\* A new object comes with its references.
LEMMA CallAssignKeepsIInv ==
    ASSUME IInv, NEW t \in Thread, CallAssign(t)
    PROVE  IInv'
<1>. USE DEF Goto, rvars, fvars, lvars, Pc
<1>0. /\ Null \notin Object /\ MAX_FAST_REFS \in Nat \ {0}
      /\ pointerCount \in [Object -> Nat] /\ state \in [Object -> {"free", "live", "dead"}]
      /\ fastRef.obj \in Object /\ fastRef.cnt \in Nat
      /\ pc[t] = "idle" /\ new[t] = Null
  BY FastReferenceAssumption, ReaperAssumption
     DEF IInv, TypeOK, ReaperTypeOK, PcInv, Ref, CallAssign, Deleting
<1>a. PICK n \in Object : /\ state[n] = "free"
                          /\ state' = [state EXCEPT ![n] = "live"]
                          /\ pointerCount' = [pointerCount EXCEPT ![n] = 2 + MAX_FAST_REFS]
                          /\ new' = [new EXCEPT ![t] = n]
  BY DEF CallAssign
<1>b. pointerCount[n] = 0 /\ Share(t, n) = 0
  <2>1. Share(t, n) \in Nat /\ pointerCount[n] >= Share(t, n)
    BY ShareType, RefsCounted DEF IInv
  <2>. QED  BY <1>0, <1>a, <2>1 DEF IInv, LifeInv
<1>1. TypeOK'
  BY <1>0, <1>a DEF CallAssign, IInv, TypeOK, ReaperTypeOK
<1>2. PcInv'
  BY <1>0, <1>a DEF CallAssign, IInv, TypeOK, PcInv, Deleting
<1>3. GraceInv' /\ LifeInv'
  BY <1>0, <1>a DEF CallAssign, IInv, TypeOK, GraceInv, LifeInv
<1>4. Quiet(t) /\ \A o \in Object : state[o] = "dead" <=> state'[o] = "dead"
  BY <1>0, <1>a DEF CallAssign, IInv, TypeOK, Quiet, Deleting
<1>5. \A o \in Object :
         /\ Share(t, o)' = Share(t, o) + If(o = n, 2 + MAX_FAST_REFS)
         /\ pointerCount'[o] = pointerCount[o] + If(o = n, 2 + MAX_FAST_REFS)
  BY <1>0, <1>a, <1>b DEF CallAssign, IInv, TypeOK, PcInv, Share, RefsOf, If
<1>6. \A o \in Object : pointerCount'[o] = pointerCount[o] - Share(t, o) + Share(t, o)'
  BY <1>0, <1>5, ShareType DEF IInv, If
<1>. QED  BY <1>1, <1>2, <1>3, <1>4, <1>6, QuietKeepsIInv

\* The decrement, whether it reaches zero or not.
LEMMA DereferenceKeepsIInv ==
    ASSUME IInv, NEW t \in Thread, NEW o \in Object, NEW n \in Nat \ {0},
           NEW at \in {"zero", "defer"}, NEW to \in Pc \ Deleting,
           pc[t] \notin Deleting, Dereference(t, o, n, at, to),
           \A u \in Thread \ {t} : /\ object'[u] = object[u] /\ new'[u] = new[u]
                                   /\ old'[u] = old[u],
           TypeOK', PcInv', GraceInv',
           Share(t, o) >= n,
           \A x \in Object : Share(t, x)' = Share(t, x) - If(x = o, n)
    PROVE  IInv'
<1>0. /\ state \in [Object -> {"free", "live", "dead"}] /\ pc \in [Thread -> Pc]
      /\ victim \in [Thread -> Object \cup {Null}] /\ Null \notin Object
      /\ pointerCount \in [Object -> Nat]
      /\ pointerCount' = [pointerCount EXCEPT ![o] = @ - n]
      /\ UNCHANGED <<nextToFree, reaperList, queued, entry, wpc, reap>>
  BY ReaperAssumption DEF IInv, TypeOK, ReaperTypeOK, Dereference
<1>1. pointerCount[o] >= n /\ state[o] = "live"
  <2>1. Share(t, o) \in Nat /\ pointerCount[o] >= Share(t, o)
    BY ShareType, RefsCounted DEF IInv
  <2>2. state[o] = "live"
    BY <2>1, CountedIsLive DEF IInv
  <2>. QED  BY <1>0, <2>1, <2>2
<1>2. \A x \in Object : pointerCount'[x] = pointerCount[x] - Share(t, x) + Share(t, x)'
  BY <1>0, ShareType DEF IInv, If
<1>3. CASE pointerCount[o] # n
  <2>1. pc' = [pc EXCEPT ![t] = to] /\ UNCHANGED <<state, victim>>
    BY <1>3 DEF Dereference, Goto
  <2>2. Quiet(t)
    BY <1>0, <2>1 DEF Quiet
  <2>3. LifeInv'
    BY <1>0, <1>1, <1>3, <2>1 DEF IInv, LifeInv
  <2>. QED  BY <1>2, <2>1, <2>2, <2>3, QuietKeepsIInv
<1>4. CASE pointerCount[o] = n
  <2>1. /\ pc' = [pc EXCEPT ![t] = at]
        /\ state' = [state EXCEPT ![o] = "dead"]
        /\ victim' = [victim EXCEPT ![t] = o]
    BY <1>4 DEF Dereference, Goto
  <2>2. LifeInv'
    BY <1>0, <1>1, <1>4, <2>1 DEF IInv, LifeInv
  <2>3. VictimInv'
    BY <1>0, <1>1, <2>1 DEF IInv, VictimInv
  <2>4. victim[t] = Null
    BY <1>0 DEF IInv, PcInv, Deleting
  <2>5. Pushed' = Pushed
    BY <1>0, <1>1, <2>1, <2>4 DEF Pushed
  <2>6. \A u \in Thread : /\ pc'[u] = "queue" <=> pc[u] = "queue"
                          /\ pc'[u] = "push" => u # t /\ pc[u] = "push"
    BY <1>0, <2>1 DEF Deleting
  <2>7. Queuing' = Queuing /\ Busy' = Busy
    BY <1>0, <2>6 DEF Queuing, Busy, QueuesItem
  <2>8. OneReaper'
    BY <1>0, <2>7 DEF IInv, ReaperInv, OneReaper, Queuing, Busy
  <2>9. StartInv'
    BY <1>0, <2>7 DEF IInv, ReaperInv, StartInv
  <2>10. ChainInv'
    BY <1>0, <2>1, <2>5, <2>6 DEF IInv, ReaperInv, ChainInv
  <2>11. PointerCountExact'
    <3>1. \A u \in Thread \ {t} : /\ pc'[u] = pc[u] /\ object'[u] = object[u]
                                  /\ new'[u] = new[u] /\ old'[u] = old[u]
      BY <1>0, <2>1
    <3>. QED  BY <1>2, <3>1, CountStep DEF IInv
  <2>. QED  BY <2>2, <2>3, <2>8, <2>9, <2>10, <2>11 DEF IInv, ReaperInv
<1>. QED  BY <1>3, <1>4

\* The references meant for the field go back; the thread still has its own.
LEMMA UndoKeepsIInv ==
    ASSUME IInv, NEW t \in Thread, Undo(t)
    PROVE  IInv'
<1>. USE DEF Undo, DereferenceEx, DereferenceOne, Goto, rvars, fvars, lvars, Pc
<1>0. /\ Null \notin Object /\ MAX_FAST_REFS \in Nat \ {0}
      /\ object[t] \in Object /\ pointerCount \in [Object -> Nat]
      /\ fastRef.obj \in Object /\ fastRef.cnt \in Nat
  BY FastReferenceAssumption, ReaperAssumption
     DEF IInv, TypeOK, ReaperTypeOK, PcInv, Ref, NoRef
<1>1. Dereference(t, object[t], MAX_FAST_REFS, "defer", "holding") /\ pc[t] \notin Deleting
  BY DEF Deleting
<1>2. Share(t, object[t]) >= MAX_FAST_REFS + 1 /\ pointerCount[object[t]] >= Share(t, object[t])
  <2>1. Share(t, object[t]) >= MAX_FAST_REFS + 1
    BY <1>0 DEF IInv, TypeOK, PcInv, Share, RefsOf, If
  <2>. QED  BY <1>0, <2>1, RefsCounted DEF IInv
<1>3. TypeOK'
  BY <1>0, <1>2, ShareType DEF Dereference, IInv, TypeOK, ReaperTypeOK
<1>4. pc' = [pc EXCEPT ![t] = "holding"] /\ UNCHANGED <<state, victim, ret>>
  BY <1>0, <1>1, <1>2, ShareType DEF Dereference, IInv
<1>5. PcInv'
  BY <1>0, <1>4 DEF IInv, TypeOK, PcInv, Deleting
<1>6. GraceInv'
  BY <1>0, <1>4 DEF IInv, TypeOK, GraceInv
<1>7. \A x \in Object : Share(t, x)' = Share(t, x) - If(x = object[t], MAX_FAST_REFS)
  BY <1>0, <1>4 DEF IInv, TypeOK, PcInv, Share, RefsOf, If
<1>8. /\ \A u \in Thread \ {t} : /\ object'[u] = object[u] /\ new'[u] = new[u]
                                 /\ old'[u] = old[u]
      /\ "holding" \in Pc \ Deleting /\ Share(t, object[t]) >= MAX_FAST_REFS
  BY <1>0, <1>2, ShareType DEF IInv, Deleting
<1>. QED  BY <1>0, <1>1, <1>3, <1>5, <1>6, <1>7, <1>8, DereferenceKeepsIInv

\* What was stored goes; the reference that came with the pointer stays.
LEMMA UnstockSomeKeepsIInv ==
    ASSUME IInv, NEW t \in Thread, Unstock(t), old[t].cnt # 0
    PROVE  IInv'
<1>. USE DEF Unstock, DereferenceEx, DereferenceOne, Goto, rvars, fvars, lvars, Pc
<1>0. /\ Null \notin Object /\ MAX_FAST_REFS \in Nat \ {0}
      /\ old[t].obj \in Object /\ pointerCount \in [Object -> Nat]
      /\ fastRef.obj \in Object /\ fastRef.cnt \in Nat
      /\ old[t].cnt \in Nat \ {0}
  BY FastReferenceAssumption, ReaperAssumption
     DEF IInv, TypeOK, ReaperTypeOK, PcInv, Ref, NoRef
<1>1. Dereference(t, old[t].obj, old[t].cnt, "defer", "grace") /\ pc[t] \notin Deleting
  BY DEF Deleting
<1>2. Share(t, old[t].obj) >= old[t].cnt + 1 /\ pointerCount[old[t].obj] >= Share(t, old[t].obj)
  <2>1. Share(t, old[t].obj) >= old[t].cnt + 1
    BY <1>0 DEF IInv, TypeOK, PcInv, Share, RefsOf, If
  <2>. QED  BY <1>0, <2>1, RefsCounted DEF IInv
<1>3. pc' = [pc EXCEPT ![t] = "grace"] /\ UNCHANGED <<state, victim, ret>>
  BY <1>0, <1>1, <1>2, ShareType DEF Dereference, IInv
<1>4. TypeOK'
  <2>1. pointerCount' \in [Object -> Nat] /\ UNCHANGED <<nextToFree, reaperList, queued, entry, wpc, reap>>
    BY <1>0, <1>1, <1>2, ShareType DEF Dereference, IInv
  <2>. QED  BY <1>0, <1>3, <2>1 DEF IInv, TypeOK, ReaperTypeOK
<1>5. PcInv'
  BY <1>0, <1>3 DEF IInv, TypeOK, PcInv, Deleting
<1>6. GraceInv'
  BY <1>0, <1>3 DEF IInv, TypeOK, GraceInv
<1>7. \A x \in Object : Share(t, x)' = Share(t, x) - If(x = old[t].obj, old[t].cnt)
  BY <1>0, <1>3 DEF IInv, TypeOK, PcInv, Share, RefsOf, If
<1>8. /\ \A u \in Thread \ {t} : /\ object'[u] = object[u] /\ new'[u] = new[u]
                                 /\ old'[u] = old[u]
      /\ "grace" \in Pc \ Deleting /\ Share(t, old[t].obj) >= old[t].cnt
  BY <1>0, <1>2, ShareType DEF IInv, Deleting
<1>. QED  BY <1>0, <1>1, <1>4, <1>5, <1>6, <1>7, <1>8, DereferenceKeepsIInv

LEMMA UnstockKeepsIInv ==
    ASSUME IInv, NEW t \in Thread, Unstock(t)
    PROVE  IInv'
<1>1. CASE old[t].cnt = 0
  <2>. USE <1>1 DEF Unstock, Goto, rvars, fvars, lvars, Pc
  <2>0. fastRef.cnt \in Nat /\ pc[t] = "unstock"
    BY DEF IInv, TypeOK, Ref
  <2>1. TypeOK'
    BY DEF IInv, TypeOK, ReaperTypeOK
  <2>2. PcInv'
    BY DEF IInv, TypeOK, PcInv, Deleting
  <2>3. GraceInv'
    BY DEF IInv, TypeOK, GraceInv
  <2>4. Quiet(t) /\ UNCHANGED <<state, pointerCount>>
    BY DEF IInv, TypeOK, Quiet, Deleting
  <2>5. \A o \in Object : Share(t, o)' = Share(t, o)
    BY <2>0 DEF IInv, TypeOK, Share, RefsOf, If
  <2>. QED  BY <2>1, <2>2, <2>3, <2>4, <2>5, SilentKeepsIInv
<1>. QED  BY <1>1, UnstockSomeKeepsIInv

\* The thread gives up its own reference, ...
LEMMA DropKeepsIInv ==
    ASSUME IInv, NEW t \in Thread, Drop(t)
    PROVE  IInv'
<1>. USE DEF Drop, DereferenceOne, Goto, rvars, fvars, lvars, Pc
<1>0. /\ Null \notin Object /\ MAX_FAST_REFS \in Nat \ {0}
      /\ object[t] \in Object /\ pointerCount \in [Object -> Nat]
      /\ fastRef.obj \in Object /\ fastRef.cnt \in Nat
  BY FastReferenceAssumption, ReaperAssumption
     DEF IInv, TypeOK, ReaperTypeOK, PcInv, Ref, NoRef
<1>1. Dereference(t, object[t], 1, "zero", "idle") /\ pc[t] \notin Deleting
  BY DEF Deleting
<1>2. Share(t, object[t]) >= 1 /\ pointerCount[object[t]] >= 1
  <2>1. Share(t, object[t]) >= 1
    BY <1>0 DEF IInv, TypeOK, PcInv, Share, RefsOf, If
  <2>. QED  BY <1>0, <2>1, RefsCounted, ShareType DEF IInv
<1>3. \/ pc' = [pc EXCEPT ![t] = "idle"] /\ UNCHANGED <<state, victim, ret>>
      \/ /\ pc' = [pc EXCEPT ![t] = "zero"]
         /\ state' = [state EXCEPT ![object[t]] = "dead"]
         /\ victim' = [victim EXCEPT ![t] = object[t]]
         /\ ret' = [ret EXCEPT ![t] = "idle"]
  BY <1>1 DEF Dereference
<1>4. TypeOK'
  <2>1. pointerCount' \in [Object -> Nat] /\ UNCHANGED <<nextToFree, reaperList, queued, entry, wpc, reap>>
    BY <1>0, <1>1, <1>2 DEF Dereference
  <2>. QED  BY <1>0, <1>3, <2>1 DEF IInv, TypeOK, ReaperTypeOK
<1>5. PcInv'
  BY <1>0, <1>3 DEF IInv, TypeOK, PcInv, Deleting
<1>6. GraceInv'
  BY <1>0, <1>3 DEF IInv, TypeOK, GraceInv
<1>7. \A x \in Object : Share(t, x)' = Share(t, x) - If(x = object[t], 1)
  BY <1>0, <1>3 DEF IInv, TypeOK, PcInv, Share, RefsOf, If
<1>8. /\ \A u \in Thread \ {t} : /\ object'[u] = object[u] /\ new'[u] = new[u]
                                 /\ old'[u] = old[u]
      /\ "idle" \in Pc \ Deleting
  BY <1>0 DEF IInv, TypeOK, Deleting
<1>. QED  BY <1>0, <1>1, <1>2, <1>4, <1>5, <1>6, <1>7, <1>8, DereferenceKeepsIInv

\* ... that of the pointer that was in the field, ...
LEMMA DropOldKeepsIInv ==
    ASSUME IInv, NEW t \in Thread, DropOld(t)
    PROVE  IInv'
<1>. USE DEF DropOld, DereferenceOne, Goto, rvars, fvars, lvars, Pc
<1>0. /\ Null \notin Object /\ MAX_FAST_REFS \in Nat \ {0}
      /\ old[t].obj \in Object /\ pointerCount \in [Object -> Nat]
      /\ fastRef.obj \in Object /\ fastRef.cnt \in Nat
  BY FastReferenceAssumption, ReaperAssumption
     DEF IInv, TypeOK, ReaperTypeOK, PcInv, Ref, NoRef
<1>1. Dereference(t, old[t].obj, 1, "zero", "dropNew") /\ pc[t] \notin Deleting
  BY DEF Deleting
<1>2. Share(t, old[t].obj) >= 1 /\ pointerCount[old[t].obj] >= 1
  <2>1. Share(t, old[t].obj) >= 1
    BY <1>0 DEF IInv, TypeOK, PcInv, Share, RefsOf, If
  <2>. QED  BY <1>0, <2>1, RefsCounted, ShareType DEF IInv
<1>3. \/ pc' = [pc EXCEPT ![t] = "dropNew"] /\ UNCHANGED <<state, victim, ret>>
      \/ /\ pc' = [pc EXCEPT ![t] = "zero"]
         /\ state' = [state EXCEPT ![old[t].obj] = "dead"]
         /\ victim' = [victim EXCEPT ![t] = old[t].obj]
         /\ ret' = [ret EXCEPT ![t] = "dropNew"]
  BY <1>1 DEF Dereference
<1>4. TypeOK'
  <2>1. pointerCount' \in [Object -> Nat] /\ UNCHANGED <<nextToFree, reaperList, queued, entry, wpc, reap>>
    BY <1>0, <1>1, <1>2 DEF Dereference
  <2>. QED  BY <1>0, <1>3, <2>1 DEF IInv, TypeOK, ReaperTypeOK
<1>5. PcInv'
  BY <1>0, <1>3 DEF IInv, TypeOK, PcInv, Deleting
<1>6. GraceInv'
  BY <1>0, <1>3 DEF IInv, TypeOK, GraceInv
<1>7. \A x \in Object : Share(t, x)' = Share(t, x) - If(x = old[t].obj, 1)
  <2>1. /\ pc[t] = "dropOld" /\ object'[t] = object[t] /\ new'[t] = new[t]
        /\ pc'[t] \notin {"unstock", "grace", "dropOld", "count", "insert", "put", "undo", "swap"}
        /\ fastRef' = fastRef
    BY <1>3 DEF IInv, TypeOK
  <2>. QED  BY <1>0, <2>1 DEF Share, RefsOf, If
<1>8. /\ \A u \in Thread \ {t} : /\ object'[u] = object[u] /\ new'[u] = new[u]
                                 /\ old'[u] = old[u]
      /\ "dropNew" \in Pc \ Deleting
  BY <1>0 DEF IInv, TypeOK, Deleting
<1>. QED  BY <1>0, <1>1, <1>2, <1>4, <1>5, <1>6, <1>7, <1>8, DereferenceKeepsIInv

\* ... or the one it had for the new object.
LEMMA DropNewKeepsIInv ==
    ASSUME IInv, NEW t \in Thread, DropNew(t)
    PROVE  IInv'
<1>. USE DEF DropNew, DereferenceOne, Goto, rvars, fvars, lvars, Pc
<1>0. /\ Null \notin Object /\ MAX_FAST_REFS \in Nat \ {0}
      /\ new[t] \in Object /\ pointerCount \in [Object -> Nat]
      /\ fastRef.obj \in Object /\ fastRef.cnt \in Nat
  BY FastReferenceAssumption, ReaperAssumption
     DEF IInv, TypeOK, ReaperTypeOK, PcInv, Ref, NoRef
<1>1. Dereference(t, new[t], 1, "zero", "idle") /\ pc[t] \notin Deleting
  BY DEF Deleting
<1>2. Share(t, new[t]) >= 1 /\ pointerCount[new[t]] >= 1
  <2>1. Share(t, new[t]) >= 1
    BY <1>0 DEF IInv, TypeOK, PcInv, Share, RefsOf, If
  <2>. QED  BY <1>0, <2>1, RefsCounted, ShareType DEF IInv
<1>3. \/ pc' = [pc EXCEPT ![t] = "idle"] /\ UNCHANGED <<state, victim, ret>>
      \/ /\ pc' = [pc EXCEPT ![t] = "zero"]
         /\ state' = [state EXCEPT ![new[t]] = "dead"]
         /\ victim' = [victim EXCEPT ![t] = new[t]]
         /\ ret' = [ret EXCEPT ![t] = "idle"]
  BY <1>1 DEF Dereference
<1>4. TypeOK'
  <2>1. pointerCount' \in [Object -> Nat] /\ UNCHANGED <<nextToFree, reaperList, queued, entry, wpc, reap>>
    BY <1>0, <1>1, <1>2 DEF Dereference
  <2>. QED  BY <1>0, <1>3, <2>1 DEF IInv, TypeOK, ReaperTypeOK
<1>5. PcInv'
  BY <1>0, <1>3 DEF IInv, TypeOK, PcInv, Deleting
<1>6. GraceInv'
  BY <1>0, <1>3 DEF IInv, TypeOK, GraceInv
<1>7. \A x \in Object : Share(t, x)' = Share(t, x) - If(x = new[t], 1)
  <2>1. /\ pc[t] = "dropNew" /\ object'[t] = object[t] /\ new'[t] = Null
        /\ pc'[t] \notin {"unstock", "grace", "dropOld", "count", "insert", "put", "undo", "swap"}
        /\ fastRef' = fastRef
    BY <1>3 DEF IInv, TypeOK
  <2>. QED  BY <1>0, <2>1 DEF Share, RefsOf, If
<1>8. /\ \A u \in Thread \ {t} : /\ object'[u] = object[u] /\ new'[u] = new[u]
                                 /\ old'[u] = old[u]
      /\ "idle" \in Pc \ Deleting
  BY <1>0 DEF IInv, TypeOK, Deleting
<1>. QED  BY <1>0, <1>1, <1>2, <1>4, <1>5, <1>6, <1>7, <1>8, DereferenceKeepsIInv

-----------------------------------------------------------------------------
(* Deferred deletion and the reaper *)

\* The threads about to queue the item and the busy workers can be counted.
LEMMA ReaperCount ==
    ASSUME IInv
    PROVE  /\ IsFiniteSet(Queuing) /\ Cardinality(Queuing) \in Nat
           /\ IsFiniteSet(Busy) /\ Cardinality(Busy) \in Nat
           /\ queued \in Nat
           /\ Cardinality(Queuing) + queued + Cardinality(Busy) = If(reaperList # Null, 1)
<1>1. Queuing \in SUBSET Thread /\ Busy \in SUBSET Worker
  BY DEF Queuing, Busy
<1>2. IsFiniteSet(Queuing) /\ IsFiniteSet(Busy)
  BY <1>1, ReaperAssumption, FS_Subset
<1>3. Cardinality(Queuing) + queued + Cardinality(Busy) = If(reaperList # Null, 1)
  BY DEF IInv, ReaperInv, OneReaper, Queuing, Busy
<1>. QED  BY <1>2, <1>3, FS_CardinalityType DEF IInv, TypeOK, ReaperTypeOK

\* A busy worker is the only one, and nothing else is on its way.
LEMMA BusyAlone ==
    ASSUME IInv, NEW w \in Worker, wpc[w] # "idle"
    PROVE  /\ Busy = {w} /\ Cardinality(Busy) = 1
           /\ queued = 0 /\ Queuing = {} /\ Cardinality(Queuing) = 0 /\ reaperList # Null
<1>1. w \in Busy
  BY DEF Busy
<1>2. /\ Cardinality(Busy \ {w}) = Cardinality(Busy) - 1
      /\ IsFiniteSet(Busy \ {w})
  BY <1>1, ReaperCount, FS_RemoveElement
<1>3. Cardinality(Busy \ {w}) \in Nat
  BY <1>2, FS_CardinalityType
<1>4. /\ Cardinality(Busy \ {w}) = 0 /\ Cardinality(Busy) = 1
      /\ queued = 0 /\ Cardinality(Queuing) = 0 /\ reaperList # Null
  BY <1>2, <1>3, ReaperCount DEF If
<1>5. Busy \ {w} = {} /\ Queuing = {}
  BY <1>2, <1>4, ReaperCount, FS_EmptySet
<1>. QED  BY <1>1, <1>4, <1>5

\* A thread that deletes has nothing that is counted.
LEMMA DeletingCounts ==
    ASSUME IInv, TypeOK', NEW t \in Thread, NEW p \in {"idle", "dropNew"} \cup Deleting,
           pc[t] \in Deleting, pc' = [pc EXCEPT ![t] = p],
           UNCHANGED <<fastRef, object, old, new, pointerCount>>
    PROVE  GraceInv' /\ PointerCountExact'
<1>1. GraceInv'
  BY DEF IInv, TypeOK, GraceInv, Deleting
<1>2. \A o \in Object : Share(t, o)' = Share(t, o)
  BY DEF IInv, TypeOK, Share, RefsOf, If, Deleting
<1>3. \A o \in Object : pointerCount'[o] = pointerCount[o] - Share(t, o) + Share(t, o)'
  BY <1>2, ShareType DEF IInv, TypeOK, ReaperTypeOK
<1>4. \A u \in Thread \ {t} : /\ pc'[u] = pc[u] /\ object'[u] = object[u]
                              /\ new'[u] = new[u] /\ old'[u] = old[u]
  BY DEF IInv, TypeOK
<1>5. PointerCountExact'
  BY <1>3, <1>4, CountStep DEF IInv
<1>. QED  BY <1>1, <1>5

\* The object is deleted on the spot, or it has to be deferred.
LEMMA ZeroKeepsIInv ==
    ASSUME IInv, NEW t \in Thread, Zero(t)
    PROVE  IInv'
<1> DEFINE v == victim[t]
<1>0. /\ Null \notin Object /\ v \in Object /\ state[v] = "dead" /\ pointerCount[v] = 0
      /\ pc \in [Thread -> Pc] /\ pc[t] = "zero" /\ v \notin Pushed
      /\ state \in [Object -> {"free", "live", "dead"}]
      /\ nextToFree \in [Object -> Link] /\ victim \in [Thread -> Object \cup {Null}]
      /\ ret[t] \in {"idle", "dropNew"}
      /\ UNCHANGED <<fvars, object, old, new, pointerCount, reaperList, queued, entry, wpc, reap>>
  BY ReaperAssumption DEF IInv, TypeOK, ReaperTypeOK, PcInv, VictimInv, LifeInv,
                          Zero, Pushed, Deleting, rvars
<1>1. \E p \in {ret[t], "defer"} : pc' = [pc EXCEPT ![t] = p]
  BY DEF Zero, Return, Goto
<1>2. TypeOK'
  BY <1>0 DEF IInv, TypeOK, ReaperTypeOK, Zero, Return, Delete, Goto, rvars, fvars, Pc, Link
<1>3. PcInv'
  BY <1>0 DEF IInv, TypeOK, PcInv, Zero, Return, Goto, fvars, rvars, Deleting
<1>4. GraceInv' /\ PointerCountExact'
  BY <1>0, <1>1, <1>2, DeletingCounts DEF fvars, Deleting
<1>5. \A u \in Thread \ {t} : victim[u] # v /\ victim'[u] = victim[u]
  BY <1>0 DEF IInv, VictimInv, Zero, Return
<1>6. LifeInv' /\ VictimInv'
  BY <1>0, <1>5 DEF IInv, LifeInv, VictimInv, Zero, Return, Delete, rvars
<1>7. Pushed' = Pushed
  BY <1>0, <1>5 DEF Pushed, Zero, Return, Delete, rvars
<1>8. \A u \in Thread : /\ pc'[u] = "queue" <=> pc[u] = "queue"
                        /\ pc'[u] = "push" => u # t /\ pc[u] = "push"
  BY <1>0, <1>1
<1>9. Queuing' = Queuing /\ Busy' = Busy
  BY <1>0, <1>8 DEF Queuing, Busy, QueuesItem
<1>10. OneReaper' /\ StartInv'
  BY <1>0, <1>9 DEF IInv, ReaperInv, OneReaper, StartInv, Queuing, Busy
<1>11. ChainInv'
  <2>1. \A o \in Object : o # v => nextToFree'[o] = nextToFree[o]
    BY <1>0 DEF Zero, Delete, rvars
  <2>2. \A u \in Thread : pc'[u] = "push" => nextToFree'[victim'[u]] = entry'[u]
    BY <1>0, <1>5, <1>8, <2>1 DEF IInv, ReaperInv, ChainInv, PcInv
  <2>3. \A o \in Pushed : nextToFree'[o] = nextToFree[o]
    BY <1>0, <2>1 DEF Pushed
  <2>. QED  BY <1>0, <1>7, <2>2, <2>3 DEF IInv, ReaperInv, ChainInv
<1>. QED  BY <1>2, <1>3, <1>4, <1>6, <1>10, <1>11 DEF IInv, ReaperInv

\* The object is linked to the list as it is read.
LEMMA DeferKeepsIInv ==
    ASSUME IInv, NEW t \in Thread, Defer(t)
    PROVE  IInv'
<1> DEFINE v == victim[t]
<1>0. /\ Null \notin Object /\ v \in Object /\ v \notin Pushed
      /\ pc \in [Thread -> Pc] /\ pc[t] = "defer" /\ reaperList \in Link
      /\ nextToFree \in [Object -> Link] /\ entry \in [Thread -> Link]
      /\ pc' = [pc EXCEPT ![t] = "push"]
      /\ entry' = [entry EXCEPT ![t] = reaperList]
      /\ nextToFree' = [nextToFree EXCEPT ![v] = reaperList]
      /\ UNCHANGED <<fvars, lvars, state, pointerCount, reaperList, queued, wpc, reap>>
  BY ReaperAssumption DEF IInv, TypeOK, ReaperTypeOK, PcInv, VictimInv,
                          Defer, DeferRead, Pushed, Deleting, Goto
<1>2. TypeOK'
  BY <1>0 DEF IInv, TypeOK, ReaperTypeOK, fvars, lvars, Pc
<1>3. PcInv'
  BY <1>0 DEF IInv, TypeOK, PcInv, fvars, lvars, Deleting
<1>4. GraceInv' /\ PointerCountExact'
  BY <1>0, <1>2, DeletingCounts DEF fvars, lvars, Deleting
<1>6. LifeInv' /\ VictimInv' /\ Pushed' = Pushed
  BY <1>0 DEF IInv, LifeInv, VictimInv, Pushed, lvars
<1>9. Queuing' = Queuing /\ Busy' = Busy
  BY <1>0 DEF Queuing, Busy, QueuesItem
<1>10. OneReaper' /\ StartInv'
  BY <1>0, <1>9 DEF IInv, ReaperInv, OneReaper, StartInv, Queuing, Busy
<1>11. ChainInv'
  <2>1. \A u \in Thread \ {t} : pc[u] = "push" => victim[u] \in Object /\ victim[u] # v
    BY <1>0 DEF IInv, PcInv, VictimInv, TypeOK
  <2>2. \A u \in Thread : pc'[u] = "push" => nextToFree'[victim'[u]] = entry'[u]
    BY <1>0, <2>1 DEF IInv, ReaperInv, ChainInv, lvars
  <2>3. \A o \in Pushed : nextToFree'[o] = nextToFree[o]
    BY <1>0 DEF Pushed
  <2>. QED  BY <1>0, <1>6, <2>2, <2>3 DEF IInv, ReaperInv, ChainInv
<1>. QED  BY <1>2, <1>3, <1>4, <1>6, <1>10, <1>11 DEF IInv, ReaperInv

\* The list has not changed since: the object becomes its head.
LEMMA PushedKeepsIInv ==
    ASSUME IInv, NEW t \in Thread, Push(t), reaperList = entry[t]
    PROVE  IInv'
<1> DEFINE v == victim[t]
<1>0. /\ Null \notin Object /\ One \notin Object /\ v \in Object /\ v \notin Pushed /\ state[v] = "dead"
      /\ pc \in [Thread -> Pc] /\ pc[t] = "push" /\ reaperList \in Link
      /\ nextToFree \in [Object -> Link] /\ entry \in [Thread -> Link]
      /\ victim \in [Thread -> Object \cup {Null}]
      /\ pc' = [pc EXCEPT ![t] = "queue"]
      /\ reaperList' = v
      /\ victim' = [victim EXCEPT ![t] = Null]
      /\ nextToFree[v] = reaperList
      /\ UNCHANGED <<fvars, object, old, new, ret, state, pointerCount, nextToFree, queued, entry, wpc, reap>>
  BY ReaperAssumption DEF IInv, TypeOK, ReaperTypeOK, PcInv, VictimInv, ReaperInv,
                          ChainInv, Push, DeferPush, Pushed, Deleting, Goto
<1>1. \A u \in Thread \ {t} : victim[u] # v
  BY <1>0 DEF IInv, VictimInv
<1>2. TypeOK'
  BY <1>0 DEF IInv, TypeOK, ReaperTypeOK, fvars, Pc, Link
<1>3. PcInv'
  BY <1>0 DEF IInv, TypeOK, PcInv, fvars, Deleting
<1>4. GraceInv' /\ PointerCountExact'
  BY <1>0, <1>2, DeletingCounts DEF fvars, Deleting
<1>5. LifeInv' /\ VictimInv'
  BY <1>0 DEF IInv, LifeInv, VictimInv
<1>6. Pushed' = Pushed \cup {v}
  BY <1>0, <1>1 DEF Pushed
<1>7. Busy' = Busy /\ t \notin Queuing
      /\ Queuing' = IF reaperList = Null THEN Queuing \cup {t} ELSE Queuing
  BY <1>0 DEF Queuing, Busy, QueuesItem
<1>8. OneReaper'
  <2>1. CASE reaperList = Null
    <3>1. Cardinality(Queuing') = Cardinality(Queuing) + 1
      BY <1>7, <2>1, ReaperCount, FS_AddElement
    <3>2. Cardinality(Queuing') + queued' + Cardinality(Busy') = 1
      BY <1>0, <1>7, <2>1, <3>1, ReaperCount DEF If
    <3>. QED  BY <1>0, <3>2 DEF OneReaper, Queuing, Busy, If
  <2>2. CASE reaperList # Null
    <3>1. Cardinality(Queuing') + queued' + Cardinality(Busy') = 1
      BY <1>0, <1>7, <2>2, ReaperCount DEF If
    <3>. QED  BY <1>0, <3>1 DEF OneReaper, Queuing, Busy, If
  <2>. QED  BY <2>1, <2>2
<1>9. StartInv'
  BY <1>0 DEF StartInv
<1>10. ChainInv'
  <2>0. \A o \in Pushed : nextToFree[o] # v
    BY <1>0 DEF IInv, ReaperInv, ChainInv, Pushed
  <2>1. \A o \in Pushed' : nextToFree'[o] \in Pushed' \cup {Null, One}
    BY <1>0, <1>6 DEF IInv, ReaperInv, ChainInv
  <2>2. \A o, p \in Pushed' : nextToFree'[o] = nextToFree'[p] /\ nextToFree'[o] \in Object => o = p
    BY <1>0, <1>6 DEF IInv, ReaperInv, ChainInv
  <2>3. \A o \in Pushed' : nextToFree'[o] # v
    BY <1>0, <1>6, <2>0 DEF IInv, ReaperInv, ChainInv
  <2>4. ASSUME NEW w \in Worker, wpc'[w] = "reap"
        PROVE  /\ reap'[w] \in Pushed' /\ reap'[w] # v
               /\ \A o \in Pushed' : nextToFree'[o] # reap'[w]
    BY <1>0, <1>6, <2>4 DEF IInv, ReaperInv, ChainInv
  <2>5. \A u \in Thread : pc'[u] = "push" => nextToFree'[victim'[u]] = entry'[u]
    BY <1>0 DEF IInv, ReaperInv, ChainInv
  <2>. QED  BY <1>0, <1>6, <2>1, <2>2, <2>3, <2>4, <2>5 DEF ChainInv
<1>. QED  BY <1>2, <1>3, <1>4, <1>5, <1>8, <1>9, <1>10 DEF IInv, ReaperInv

LEMMA PushKeepsIInv ==
    ASSUME IInv, NEW t \in Thread, Push(t)
    PROVE  IInv'
<1>1. CASE reaperList # entry[t]
  <2>0. /\ pc \in [Thread -> Pc] /\ pc[t] = "push"
        /\ pc' = [pc EXCEPT ![t] = "defer"]
        /\ UNCHANGED <<rvars, fvars, lvars>>
    BY <1>1 DEF IInv, TypeOK, Push, DeferPush, Goto, lvars
  <2>2. TypeOK'
    BY <2>0 DEF IInv, TypeOK, ReaperTypeOK, rvars, fvars, lvars, Pc
  <2>3. PcInv'
    BY <2>0 DEF IInv, TypeOK, PcInv, fvars, lvars, Deleting
  <2>4. GraceInv' /\ PointerCountExact'
    BY <2>0, <2>2, DeletingCounts DEF rvars, fvars, lvars, Deleting
  <2>5. LifeInv' /\ VictimInv' /\ Pushed' = Pushed
    BY <2>0 DEF IInv, LifeInv, VictimInv, Pushed, rvars, lvars
  <2>6. Queuing' = Queuing /\ Busy' = Busy
    BY <2>0 DEF Queuing, Busy, QueuesItem, rvars
  <2>7. OneReaper' /\ StartInv'
    BY <2>0, <2>6 DEF IInv, ReaperInv, OneReaper, StartInv, Queuing, Busy, rvars
  <2>8. ChainInv'
    BY <2>0, <2>5 DEF IInv, ReaperInv, ChainInv, rvars, lvars
  <2>. QED  BY <2>2, <2>3, <2>4, <2>5, <2>7, <2>8 DEF IInv, ReaperInv
<1>. QED  BY <1>1, PushedKeepsIInv

\* The work item is queued by the one who found the list empty.
LEMMA QueueKeepsIInv ==
    ASSUME IInv, NEW t \in Thread, Queue(t)
    PROVE  IInv'
<1>0. /\ Null \notin Object /\ pc \in [Thread -> Pc] /\ pc[t] = "queue"
      /\ ret[t] \in {"idle", "dropNew"} /\ victim[t] = Null /\ queued \in Nat
      /\ pc' = [pc EXCEPT ![t] = ret[t]]
      /\ queued' = IF entry[t] = Null THEN queued + 1 ELSE queued
      /\ entry' = [entry EXCEPT ![t] = Null] /\ entry \in [Thread -> Link]
      /\ victim' = victim
      /\ ret' = [ret EXCEPT ![t] = "idle"]
      /\ UNCHANGED <<fvars, object, old, new, state, pointerCount, nextToFree, reaperList, wpc, reap>>
  BY ReaperAssumption DEF IInv, TypeOK, ReaperTypeOK, PcInv, Queue, DeferQueue,
                          Return, Deleting, Goto, QueuesItem
<1>2. TypeOK'
  BY <1>0 DEF IInv, TypeOK, ReaperTypeOK, fvars, Pc, Link
<1>3. PcInv'
  BY <1>0 DEF IInv, TypeOK, PcInv, fvars, Deleting
<1>4. GraceInv' /\ PointerCountExact'
  BY <1>0, <1>2, DeletingCounts DEF fvars, Deleting
<1>5. LifeInv' /\ VictimInv' /\ Pushed' = Pushed
  BY <1>0 DEF IInv, LifeInv, VictimInv, Pushed
<1>6. /\ Busy' = Busy /\ Queuing' = Queuing \ {t}
      /\ t \in Queuing <=> entry[t] = Null
  BY <1>0 DEF Queuing, Busy, QueuesItem
<1>7. Cardinality(Queuing') + queued' + Cardinality(Busy') = If(reaperList # Null, 1)
  <2>1. CASE entry[t] = Null
    <3>1. Cardinality(Queuing') = Cardinality(Queuing) - 1
      BY <1>6, <2>1, ReaperCount, FS_RemoveElement
    <3>. QED  BY <1>0, <1>6, <2>1, <3>1, ReaperCount DEF If
  <2>2. CASE entry[t] # Null
    <3>1. Queuing' = Queuing
      BY <1>6, <2>2
    <3>. QED  BY <1>0, <1>6, <2>2, <3>1, ReaperCount
  <2>. QED  BY <2>1, <2>2
<1>8. OneReaper'
  BY <1>0, <1>7 DEF OneReaper, Queuing, Busy, If
<1>9. StartInv'
  BY <1>0, <1>6 DEF IInv, ReaperInv, StartInv
<1>10. ChainInv'
  BY <1>0, <1>5 DEF IInv, ReaperInv, ChainInv
<1>. QED  BY <1>2, <1>3, <1>4, <1>5, <1>8, <1>9, <1>10 DEF IInv, ReaperInv

\* Nothing of the threads is touched by the workers.
LEMMA WorkerFrame ==
    ASSUME IInv, NEW w \in Worker, InWorker(w), TypeOK'
    PROVE  PcInv' /\ GraceInv' /\ PointerCountExact'
<1>0. UNCHANGED <<fvars, pc, lvars, pointerCount>>
  BY DEF InWorker, WorkerStep, Remove, Exchange, Reap, Look, Stop
<1>1. PcInv' /\ GraceInv'
  BY <1>0 DEF IInv, PcInv, GraceInv, fvars, lvars
<1>2. \A o \in Object : Refs(o)' = Refs(o)
  BY <1>0 DEF Refs, RefsOf, lvars
<1>3. PointerCountExact'
  BY <1>0, <1>2 DEF IInv, PointerCountExact, fvars
<1>. QED  BY <1>1, <1>3

LEMMA RemoveKeepsIInv ==
    ASSUME IInv, NEW w \in Worker, InWorker(w), Remove(w)
    PROVE  IInv'
<1>0. /\ wpc[w] = "idle" /\ queued > 0 /\ queued \in Nat
      /\ wpc \in [Worker -> {"idle", "exchange", "reap", "look", "stop"}]
      /\ queued' = queued - 1 /\ wpc' = [wpc EXCEPT ![w] = "exchange"]
      /\ UNCHANGED <<state, pointerCount, nextToFree, reaperList, entry, reap, fvars, pc, lvars>>
  BY DEF IInv, TypeOK, ReaperTypeOK, Remove, InWorker, WGoto
<1>1. TypeOK'
  BY <1>0 DEF IInv, TypeOK, ReaperTypeOK, fvars, lvars
<1>2. LifeInv' /\ VictimInv' /\ Pushed' = Pushed
  BY <1>0 DEF IInv, LifeInv, VictimInv, Pushed, lvars
<1>3. Busy' = Busy \cup {w} /\ w \notin Busy /\ Queuing' = Queuing
  BY <1>0 DEF Busy, Queuing, QueuesItem
<1>4. Cardinality(Busy') = Cardinality(Busy) + 1
  BY <1>3, ReaperCount, FS_AddElement
<1>5. Cardinality(Queuing') + queued' + Cardinality(Busy') = If(reaperList # Null, 1)
  BY <1>0, <1>3, <1>4, ReaperCount DEF If
<1>6. OneReaper'
  BY <1>0, <1>5 DEF OneReaper, Queuing, Busy, If
<1>7. StartInv'
  BY <1>0, <1>3 DEF IInv, ReaperInv, StartInv
<1>8. ChainInv'
  BY <1>0, <1>2 DEF IInv, ReaperInv, ChainInv, lvars
<1>. QED  BY <1>1, <1>2, <1>6, <1>7, <1>8, WorkerFrame DEF IInv, ReaperInv

\* The worker takes the list: it is not empty.
LEMMA ExchangeKeepsIInv ==
    ASSUME IInv, NEW w \in Worker, InWorker(w), Exchange(w)
    PROVE  IInv'
<1>0. /\ wpc[w] = "exchange" /\ reap \in [Worker -> Link]
      /\ wpc \in [Worker -> {"idle", "exchange", "reap", "look", "stop"}]
      /\ reap' = [reap EXCEPT ![w] = reaperList]
      /\ reaperList' = One /\ wpc' = [wpc EXCEPT ![w] = "reap"]
      /\ reaperList \in Object /\ One \notin Object /\ One # Null
      /\ UNCHANGED <<state, pointerCount, nextToFree, queued, entry, fvars, pc, lvars>>
  BY ReaperAssumption DEF IInv, TypeOK, ReaperTypeOK, Exchange, InWorker, WGoto,
                          ReaperInv, StartInv, One, Null
<1>a. /\ Busy = {w} /\ Cardinality(Busy) = 1 /\ queued = 0
      /\ Queuing = {} /\ Cardinality(Queuing) = 0
  BY <1>0, BusyAlone
<1>1. TypeOK'
  BY <1>0 DEF IInv, TypeOK, ReaperTypeOK, fvars, lvars, Link
<1>2. LifeInv' /\ VictimInv' /\ Pushed' = Pushed
  BY <1>0 DEF IInv, LifeInv, VictimInv, Pushed, lvars
<1>3. Busy' = Busy /\ Queuing' = Queuing
  BY <1>0 DEF Busy, Queuing, QueuesItem
<1>4. OneReaper'
  BY <1>0, <1>a, <1>3 DEF OneReaper, Queuing, Busy, If
<1>5. \A x \in Worker : x # w => wpc'[x] = "idle"
  BY <1>0, <1>a DEF Busy
<1>6. StartInv'
  BY <1>0, <1>a, <1>3, <1>5 DEF StartInv
<1>7. ChainInv'
  <2>1. /\ reaperList \in Pushed /\ reaperList # One
        /\ \A o \in Pushed : nextToFree[o] # reaperList
    BY <1>0, ReaperAssumption DEF IInv, ReaperInv, ChainInv
  <2>2. ASSUME NEW x \in Worker, wpc'[x] = "reap" PROVE reap'[x] = reaperList
    BY <1>0, <1>5, <2>2
  <2>. QED  BY <1>0, <1>2, <2>1, <2>2 DEF IInv, ReaperInv, ChainInv, lvars
<1>. QED  BY <1>1, <1>2, <1>4, <1>6, <1>7, WorkerFrame DEF IInv, ReaperInv

\* The worker deletes one object and goes on to the next.
LEMMA ReapKeepsIInv ==
    ASSUME IInv, NEW w \in Worker, InWorker(w), Reap(w)
    PROVE  IInv'
<1> DEFINE v == reap[w]
           n == nextToFree[reap[w]]
<1>0. /\ wpc[w] = "reap" /\ reap \in [Worker -> Link]
      /\ wpc \in [Worker -> {"idle", "exchange", "reap", "look", "stop"}]
      /\ nextToFree \in [Object -> Link] /\ state \in [Object -> {"free", "live", "dead"}]
      /\ reap' = [reap EXCEPT ![w] = n]
      /\ wpc' = [wpc EXCEPT ![w] = IF EndOfList(n) THEN "look" ELSE "reap"]
      /\ state' = [state EXCEPT ![v] = "free"]
      /\ nextToFree' = [nextToFree EXCEPT ![v] = Null]
      /\ UNCHANGED <<pointerCount, reaperList, queued, entry, fvars, pc, lvars>>
  BY DEF IInv, TypeOK, ReaperTypeOK, Reap, Delete, InWorker, WGoto
<1>1. /\ v \in Pushed /\ v # reaperList /\ \A o \in Pushed : nextToFree[o] # v
      /\ n \in Pushed \cup {Null, One} /\ {Null, One} \cap Object = {}
  BY <1>0, ReaperAssumption DEF IInv, ReaperInv, ChainInv
<1>2. v \in Object /\ state[v] = "dead" /\ \A t \in Thread : victim[t] # v
  BY <1>1 DEF Pushed
<1>a. /\ Busy = {w} /\ Cardinality(Busy) = 1 /\ queued = 0
      /\ Queuing = {} /\ Cardinality(Queuing) = 0 /\ reaperList # Null
  BY <1>0, BusyAlone
<1>3. TypeOK'
  BY <1>0, <1>2 DEF IInv, TypeOK, ReaperTypeOK, fvars, lvars, Link
<1>4. LifeInv' /\ VictimInv'
  BY <1>0, <1>2 DEF IInv, LifeInv, VictimInv, lvars
<1>5. Pushed' = Pushed \ {v}
  BY <1>0, <1>2 DEF Pushed, lvars
<1>6. Busy' = Busy /\ Queuing' = Queuing
  BY <1>0 DEF Busy, Queuing, QueuesItem
<1>7. OneReaper'
  BY <1>0, <1>a, <1>6 DEF OneReaper, Queuing, Busy, If
<1>8. \A x \in Worker : x # w => wpc'[x] = "idle"
  BY <1>0, <1>a DEF Busy
<1>9. StartInv'
  BY <1>0, <1>a, <1>6, <1>8 DEF StartInv
<1>10. ChainInv'
  <2>1. \A o \in Pushed' : o \in Pushed /\ o # v /\ o \in Object /\ nextToFree'[o] = nextToFree[o]
    BY <1>0, <1>5 DEF Pushed
  <2>2. \A o \in Pushed' : nextToFree'[o] \in Pushed' \cup {Null, One}
    BY <1>1, <1>5, <2>1 DEF IInv, ReaperInv, ChainInv
  <2>3. \A o, p \in Pushed' : nextToFree'[o] = nextToFree'[p] /\ nextToFree'[o] \in Object => o = p
    BY <2>1 DEF IInv, ReaperInv, ChainInv
  <2>4. /\ reaperList' \in Pushed' \cup {Null, One}
        /\ \A o \in Pushed' : reaperList' \in Object => nextToFree'[o] # reaperList'
    BY <1>0, <1>1, <1>5, <2>1 DEF IInv, ReaperInv, ChainInv
  <2>5. ASSUME NEW x \in Worker, wpc'[x] = "reap"
        PROVE  /\ reap'[x] \in Pushed' /\ reap'[x] # reaperList'
               /\ \A o \in Pushed' : nextToFree'[o] # reap'[x]
    <3>1. x = w /\ reap'[x] = n /\ n \in Pushed /\ n # v /\ n \in Object
      BY <1>0, <1>1, <1>8, <2>5 DEF EndOfList, Pushed
    <3>. QED  BY <1>0, <1>1, <1>5, <2>1, <3>1 DEF IInv, ReaperInv, ChainInv
  <2>6. \A t \in Thread : pc'[t] = "push" => nextToFree'[victim'[t]] = entry'[t]
    <3>1. \A t \in Thread : pc[t] = "push" => victim[t] \in Object
      BY DEF IInv, PcInv, TypeOK
    <3>. QED  BY <1>0, <1>2, <3>1 DEF IInv, ReaperInv, ChainInv, lvars
  <2>. QED  BY <2>2, <2>3, <2>4, <2>5, <2>6 DEF ChainInv
<1>. QED  BY <1>3, <1>4, <1>7, <1>9, <1>10, WorkerFrame DEF IInv, ReaperInv

\* The worker looks whether there is more, and stops only when there is not.
LEMMA LookStopKeepsIInv ==
    ASSUME IInv, NEW w \in Worker, InWorker(w), Look(w) \/ Stop(w)
    PROVE  IInv'
<1>0. /\ wpc[w] # "idle" /\ reap \in [Worker -> Link]
      /\ wpc \in [Worker -> {"idle", "exchange", "reap", "look", "stop"}]
      /\ {Null, One} \cap Object = {} /\ One # Null
      /\ UNCHANGED <<state, pointerCount, nextToFree, queued, entry, fvars, pc, lvars>>
  BY ReaperAssumption DEF IInv, TypeOK, ReaperTypeOK, Look, Stop, InWorker, One, Null
<1>a. /\ Busy = {w} /\ Cardinality(Busy) = 1 /\ queued = 0
      /\ Queuing = {} /\ Cardinality(Queuing) = 0 /\ reaperList # Null
  BY <1>0, BusyAlone
<1>1. TypeOK'
  BY <1>0 DEF IInv, TypeOK, ReaperTypeOK, fvars, lvars, Link, Look, Stop, WGoto
<1>2. LifeInv' /\ VictimInv' /\ Pushed' = Pushed /\ Queuing' = Queuing
  BY <1>0 DEF IInv, LifeInv, VictimInv, Pushed, lvars, Queuing, QueuesItem
<1>3. \A x \in Worker : x # w => wpc'[x] = "idle"
  BY <1>0, <1>a DEF Busy, Look, Stop, WGoto
<1>4. reaperList \in Object \cup {One}
  BY <1>a DEF IInv, ReaperInv, ChainInv, Pushed
<1>5. CASE wpc'[w] # "idle"
  <2>1. /\ reaperList' = reaperList /\ wpc'[w] \in {"exchange", "stop"}
        /\ wpc'[w] = "exchange" => reaperList \in Object
    BY <1>0, <1>4, <1>5 DEF Look, Stop, WGoto
  <2>2. Busy' = {w}
    BY <1>3, <1>5 DEF Busy
  <2>3. OneReaper'
    BY <1>0, <1>a, <1>2, <2>1, <2>2 DEF OneReaper, Queuing, Busy, If
  <2>4. StartInv'
    BY <1>0, <1>a, <1>2, <1>3, <2>1 DEF StartInv
  <2>5. ChainInv'
    BY <1>0, <1>2, <1>3, <2>1 DEF IInv, ReaperInv, ChainInv, lvars
  <2>. QED  BY <1>1, <1>2, <2>3, <2>4, <2>5, WorkerFrame DEF IInv, ReaperInv
<1>6. CASE wpc'[w] = "idle"
  <2>1. reaperList = One /\ reaperList' = Null
    BY <1>0, <1>6 DEF Look, Stop, WGoto
  <2>2. Busy' = {} /\ Cardinality(Busy') = 0
    <3>1. Busy' = {}
      BY <1>3, <1>6 DEF Busy
    <3>. QED  BY <3>1, FS_EmptySet
  <2>3. OneReaper'
    BY <1>0, <1>a, <1>2, <2>1, <2>2 DEF OneReaper, Queuing, Busy, If
  <2>4. StartInv'
    BY <1>0, <1>a, <1>2, <1>3, <1>6 DEF StartInv
  <2>5. ChainInv'
    BY <1>0, <1>2, <1>3, <1>6, <2>1 DEF IInv, ReaperInv, ChainInv, lvars
  <2>. QED  BY <1>1, <1>2, <2>3, <2>4, <2>5, WorkerFrame DEF IInv, ReaperInv
<1>. QED  BY <1>5, <1>6

-----------------------------------------------------------------------------
(* The theorems *)

LEMMA InitIInv == Init => IInv
<1>. SUFFICES ASSUME Init PROVE IInv
  OBVIOUS
<1>. USE DEF Init
<1>0. /\ {Null, One} \cap Object = {} /\ MAX_FAST_REFS \in Nat \ {0}
      /\ IsFiniteSet(Thread) /\ IsFiniteSet(Worker)
  BY ReaperAssumption, FastReferenceAssumption
<1>1. PICK o \in Object :
          /\ fastRef = [obj |-> o, cnt |-> MAX_FAST_REFS]
          /\ state = [x \in Object |-> IF x = o THEN "live" ELSE "free"]
          /\ pointerCount = [x \in Object |-> IF x = o THEN 1 + MAX_FAST_REFS ELSE 0]
  OBVIOUS
<1>2. TypeOK
  BY <1>0, <1>1 DEF TypeOK, ReaperTypeOK, Link, Ref, NoRef, Pc
<1>3. PcInv
  BY <1>0 DEF PcInv, Deleting
<1>4. LifeInv
  BY <1>0, <1>1 DEF LifeInv
<1>5. VictimInv /\ GraceInv
  BY DEF VictimInv, GraceInv
<1>6. Pushed = {} /\ Queuing = {} /\ Busy = {}
  BY <1>1 DEF Pushed, Queuing, Busy
<1>7. OneReaper
  <2>1. /\ Cardinality({t \in Thread : pc[t] = "queue" /\ QueuesItem(entry[t])}) = 0
        /\ Cardinality({w \in Worker : wpc[w] # "idle"}) = 0
    BY <1>6, FS_EmptySet, Zenon DEF Queuing, Busy
  <2>2. queued = 0 /\ reaperList = Null
    OBVIOUS
  <2>. QED  BY <2>1, <2>2 DEF OneReaper, If
<1>8. StartInv /\ ChainInv
  BY <1>0, <1>6 DEF StartInv, ChainInv
<1>9. PointerCountExact
  <2>1. ASSUME NEW x \in Object PROVE Refs(x) = {}
    <3>1. \A t \in Thread : RefsOf(t, x) = 0
      BY <1>0 DEF RefsOf, If
    <3>. QED  BY <3>1 DEF Refs
  <2>2. \A x \in Object : Cardinality(Refs(x)) = 0
    BY <2>1, FS_EmptySet
  <2>. QED  BY <1>0, <1>1, <2>2 DEF PointerCountExact, If
<1>. QED  BY <1>2, <1>3, <1>4, <1>5, <1>7, <1>8, <1>9 DEF IInv, ReaperInv

LEMMA NextIInv == IInv /\ [Next]_vars => IInv'
<1>. SUFFICES ASSUME IInv, [Next]_vars PROVE IInv'
  OBVIOUS
<1>1. CASE UNCHANGED vars
  <2>. USE <1>1 DEF vars, rvars, fvars, lvars
  <2>1. TypeOK' /\ PcInv' /\ LifeInv' /\ VictimInv' /\ GraceInv'
    BY DEF IInv, TypeOK, ReaperTypeOK, PcInv, LifeInv, VictimInv, GraceInv
  <2>2. Pushed' = Pushed /\ Queuing' = Queuing
    BY DEF Pushed, Queuing
  <2>3. ReaperInv'
    BY <2>2 DEF IInv, ReaperInv, OneReaper, StartInv, ChainInv, QueuesItem
  <2>4. PointerCountExact'
    BY DEF IInv, PointerCountExact, Refs, RefsOf
  <2>. QED  BY <2>1, <2>3, <2>4 DEF IInv
<1>2. ASSUME NEW t \in Thread, CallReference(t) \/ CallRelease(t) \/ CallAssign(t) \/ ClientStep(t)
      PROVE  IInv'
  BY <1>2, CallReferenceKeepsIInv, CallReleaseKeepsIInv, CallAssignKeepsIInv,
     AcquireKeepsIInv, TakeKeepsIInv, RefillKeepsIInv, InsertKeepsIInv, PutKeepsIInv,
     UndoKeepsIInv, LockSharedKeepsIInv, PeekKeepsIInv, CountKeepsIInv,
     UnlockSharedKeepsIInv, ReleaseKeepsIInv, GiveBackKeepsIInv, DropKeepsIInv
     DEF ClientStep
<1>3. ASSUME NEW t \in Thread, ReplacerStep(t) \/ DeleteStep(t)
      PROVE  IInv'
  BY <1>3, SwapKeepsIInv, UnstockKeepsIInv, GraceKeepsIInv, DropOldKeepsIInv,
     DropNewKeepsIInv, ZeroKeepsIInv, DeferKeepsIInv, PushKeepsIInv, QueueKeepsIInv
     DEF ReplacerStep, DeleteStep
<1>4. ASSUME NEW w \in Worker, InWorker(w)
      PROVE  IInv'
  BY <1>4, RemoveKeepsIInv, ExchangeKeepsIInv, ReapKeepsIInv, LookStopKeepsIInv
     DEF InWorker, WorkerStep
<1>. QED  BY <1>1, <1>2, <1>3, <1>4 DEF Next

\* The invariant holds in every behaviour of the routines and the workers.
THEOREM Invariance == Spec => []IInv
<1>1. Init => IInv  BY InitIInv
<1>2. IInv /\ [Next]_vars => IInv'  BY NextIInv
<1>. QED  BY <1>1, <1>2, PTL DEF Spec

\* Type correctness of the reference and deletion routines: counts never go
\* below zero, and what a thread or worker has is of the right kind.
THEOREM TypeCorrect == Spec => []TypeOK
<1>1. IInv => TypeOK  BY DEF IInv
<1>. QED  BY <1>1, Invariance, PTL

\* The references taken through the field, under the lock, by refills and by
\* replacements (ObFastReferenceObject, ObFastDereferenceObject and the rest)
\* always add up to PointerCount.
THEOREM ReferencesCounted == Spec => []PointerCountExact
<1>1. IInv => PointerCountExact  BY DEF IInv
<1>. QED  BY <1>1, Invariance, PTL

\* ObpDeferObjectDeletion and ObpReapObject keep exactly one reaper on its way
\* while there is anything to reap, and none otherwise.
THEOREM SingleReaper == Spec => []OneReaper
<1>1. IInv => OneReaper  BY DEF IInv, ReaperInv
<1>. QED  BY <1>1, Invariance, PTL

LEMMA IInvNoUseAfterFree == IInv => NoUseAfterFree
<1>. SUFFICES ASSUME IInv PROVE NoUseAfterFree
  OBVIOUS
<1>0. /\ Null \notin Object /\ MAX_FAST_REFS \in Nat \ {0}
      /\ fastRef.obj \in Object /\ fastRef.cnt \in Nat
  BY FastReferenceAssumption, ReaperAssumption DEF IInv, TypeOK, Ref
<1>1. ASSUME NEW t \in Thread, object[t] # Null PROVE state[object[t]] = "live"
  <2>0. object[t] \in Object
    BY <1>1 DEF IInv, TypeOK
  <2>1. CASE pc[t] = "count"
    BY <2>1, ReaderIsProtected
  <2>2. CASE pc[t] # "count"
    <3>1. /\ pc[t] \notin {"unstock", "grace", "dropOld", "swap"}
      BY <1>1 DEF IInv, PcInv
    <3>2. Share(t, object[t]) # 0
      BY <1>0, <2>0, <2>2, <3>1 DEF Share, RefsOf, If
    <3>. QED  BY <2>0, <3>2, CountedIsLive DEF IInv
  <2>. QED  BY <2>1, <2>2
<1>2. ASSUME NEW t \in Thread, new[t] # Null PROVE state[new[t]] = "live"
  <2>0. new[t] \in Object
    BY <1>2 DEF IInv, TypeOK
  <2>1. pc[t] \in {"unstock", "grace", "dropOld"} => old[t].cnt \in Nat
    BY DEF IInv, TypeOK, PcInv, Ref, NoRef
  <2>2. Share(t, new[t]) # 0
    BY <1>0, <2>0, <2>1 DEF Share, RefsOf, If
  <2>. QED  BY <2>0, <2>2, CountedIsLive DEF IInv
<1>3. ASSUME NEW t \in Thread, pc[t] \in {"unstock", "grace", "dropOld"}
      PROVE  state[old[t].obj] = "live"
  <2>0. old[t].obj \in Object /\ old[t].cnt \in Nat
    BY <1>3 DEF IInv, TypeOK, PcInv, Ref, NoRef
  <2>1. Share(t, old[t].obj) # 0
    BY <1>0, <1>3, <2>0 DEF Share, RefsOf, If
  <2>. QED  BY <2>0, <2>1, CountedIsLive DEF IInv
<1>4. state[fastRef.obj] = "live"
  <2>1. pointerCount[fastRef.obj] = Cardinality(Refs(fastRef.obj)) + (1 + fastRef.cnt)
    BY <1>0 DEF IInv, PointerCountExact, If
  <2>2. ASSUME Thread = {} PROVE state[fastRef.obj] = "live"
    <3>1. Refs(fastRef.obj) = {}
      BY <2>2 DEF Refs
    <3>2. Cardinality(Refs(fastRef.obj)) = 0
      BY <3>1, FS_EmptySet
    <3>. QED  BY <1>0, <2>1, <3>2 DEF IInv, LifeInv
  <2>3. ASSUME NEW t \in Thread PROVE state[fastRef.obj] = "live"
    <3>1. RefsOf(t, fastRef.obj) \in Nat
      BY <1>0, RefsOfType DEF IInv
    <3>2. Share(t, fastRef.obj) # 0
      BY <1>0, <3>1 DEF Share, If
    <3>. QED  BY <1>0, <3>2, CountedIsLive DEF IInv
  <2>. QED  BY <2>2, <2>3
<1>5. \A t \in Thread : pc[t] \in {"zero", "defer", "push"} => state[victim[t]] = "dead"
  BY DEF IInv, PcInv, VictimInv
<1>6. \A w \in Worker : wpc[w] = "reap" => reap[w] \in Object /\ state[reap[w]] = "dead"
  BY DEF IInv, ReaperInv, ChainInv, Pushed
<1>. QED  BY <1>1, <1>2, <1>3, <1>4, <1>5, <1>6 DEF NoUseAfterFree

\* No token that somebody may still touch is deleted: neither the field's, nor
\* one a thread has, nor the one a reader of ObFastReferenceObjectLocked has not
\* counted yet when SeExchangePrimaryToken and its caller drop the old token.
THEOREM TokensAlive == Spec => []NoUseAfterFree
<1>1. IInv => NoUseAfterFree  BY IInvNoUseAfterFree
<1>. QED  BY <1>1, Invariance, PTL
=============================================================================
