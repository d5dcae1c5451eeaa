--------------------------- MODULE PushLockProofs ---------------------------
(***************************************************************************)
(* Push locks are reader/writer locks, and their wait blocks are safe to   *)
(* use, for any finite set of threads and any mix of the routines.         *)
(*                                                                         *)
(* The list of waiters is described by what the code does not keep: the    *)
(* order in which they came (pos), which list each of them is in (list),   *)
(* the block that knows the tail (anchor), and the tail.                   *)
(***************************************************************************)
EXTENDS PushLock, FiniteSetTheorems, TLAPS

OwnerPc  == {"release", "find", "count", "drop", "unlock", "generic"}
WakingPc == {"link", "linked", "stop", "walk", "detach", "clear"}

Wakers   == {t \in Thread : pc[t] \in WakingPc}
AtUnlock == {t \in Thread : pc[t] = "unlock" /\ hold[t] = "shared"}

\* What the place of a thread says about its call, about how it owns the lock
\* and about the value it has read.
CallInv(t) ==
    /\ pc[t] = "idle" <=> call[t] = "none"
    /\ pc[t] \in {"acquire"} \cup WaitPc => call[t] \in AcquireCalls
    /\ pc[t] \in OwnerPc \cup {"tryread", "trycas"} => call[t] \in ReleaseCalls
    /\ pc[t] \in {"find", "count", "drop", "unlock", "generic"} => call[t] # "ReleaseExclusive"
    /\ call[t] \in AcquireCalls => hold[t] = "none"
    /\ pc[t] \in OwnerPc \/ (pc[t] = "read" /\ call[t] \in ReleaseCalls) =>
          /\ hold[t] # "none"
          /\ call[t] = "ReleaseExclusive" => hold[t] = "exclusive"
          /\ call[t] = "ReleaseShared" => hold[t] = "shared"
    /\ pc[t] \in WakerPc \cup {"tryread", "trycas"} => hold[t] = "none"
    /\ pc[t] \in OwnerPc => "L" \in old[t].bits
    /\ pc[t] = "release" /\ call[t] # "ReleaseExclusive" => "W" \notin old[t].bits
    /\ pc[t] \in {"find", "count", "drop", "unlock"} => "W" \in old[t].bits
    /\ pc[t] = "trycas" => /\ "W" \in old[t].bits
                           /\ "L" \notin old[t].bits /\ "K" \notin old[t].bits

\* Who owns the lock, and what the word says about them.  While an owner looks
\* for the count of the owners there are waiters; the last one is alone.
OwnerInv ==
    /\ "L" \in word.bits <=> Shared \cup Exclusive # {}
    /\ Exclusive # {} => Shared = {} /\ "M" \notin word.bits
    /\ \A t, u \in Exclusive : t = u
    /\ "W" \notin word.bits => word.shared = Cardinality(Shared)
    /\ "W" \in word.bits /\ "M" \notin word.bits => \A t, u \in Shared : t = u
    /\ \A t \in Thread : pc[t] \in {"find", "count", "drop"}
                            => hold[t] = "shared" /\ "M" \in word.bits
    /\ \A t \in Thread : pc[t] = "unlock" => /\ "W" \in word.bits
                                             /\ "M" \in word.bits => Shared = {t}

\* Waking has one owner; what its value of the lock says remains true.
WakerInv ==
    /\ "K" \in word.bits <=> Wakers # {}
    /\ \A t, u \in Wakers : t = u
    /\ \A t \in Wakers :
          /\ {"W", "K"} \subseteq val[t].bits
          /\ pc[t] \in {"link", "linked"} => "L" \in val[t].bits
          /\ pc[t] \in {"walk", "detach"} => "L" \notin val[t].bits
          /\ pc[t] \in {"stop", "walk", "detach"} => "M" \notin val[t].bits
          /\ pc[t] \in {"stop", "walk", "detach", "clear"} => "M" \notin word.bits

\* A waiter at its gate.
WaitInv(t) ==
    /\ pc[t] = "test" => block[t].gate = "clear"
    /\ pc[t] = "asleep" => /\ ~block[t].wait
                           /\ block[t].gate \in {"clear", "signalled"}
                           /\ block[t].gate = "signalled" => block[t].signaled

\* The waiters in the queue of the lock; those that t has taken off it and is
\* going to wake are the ones with list[x] = t.
Queue(list) == {x \in Thread : list[x] = Null}

\* A listed waiter waits, and was not signalled, unless its waker is at its gate.
ListedInv(list) ==
    \A x \in Thread : list[x] # Garbage =>
        /\ InList(x)
        /\ block[x].wait \/ pc[x] = "asleep"
        /\ block[x].gate # "signalled"
        /\ block[x].signaled <=> list[x] \in Thread /\ pc[list[x]] = "gate" /\ cur[list[x]] = x
        /\ block[x].signaled => pc[x] = "asleep"

\* The waiters lead by Next from the newest to the tail, in the order in which
\* they came.  The first block from the newest that knows a tail, the anchor,
\* knows the right one; from there on the blocks are linked backwards.
QueueInv(pos, list, anchor, tail) ==
    /\ "W" \in word.bits <=> Queue(list) # {}
    /\ "W" \in word.bits => /\ {word.ptr, anchor, tail} \subseteq Queue(list)
                            /\ block[anchor].last = tail
    /\ \A x \in Queue(list) :
          /\ pos[tail] <= pos[x] /\ pos[x] <= pos[word.ptr]
          /\ x # tail => block[x].next \in Queue(list) /\ pos[block[x].next] = pos[x] - 1
          /\ pos[x] > pos[anchor] => block[x].last = Null
          /\ block[x].prev # Null => /\ block[x].prev \in Queue(list)
                                     /\ pos[block[x].prev] = pos[x] + 1
          /\ pos[x] < pos[anchor] => block[x].prev # Null
    /\ \A x, y \in Queue(list) : pos[x] = pos[y] => x = y

\* Only the tail counts owners, and only under MultipleShared; nobody has left
\* the queue then.
ShareInv(list, tail) ==
    /\ \A x \in Thread : InList(x) /\ block[x].share # 0 => "M" \in word.bits /\ x = tail
    /\ "M" \in word.bits =>
          /\ block[tail].excl /\ block[tail].last = tail
          /\ block[tail].share = IF AtUnlock = {} THEN Cardinality(Shared) ELSE 0
          /\ \A x \in Queue(list) : block[x].last \in {Null, tail}
    /\ \A t \in Thread : pc[t] = "find" => cur[t] \in Queue(list)
    /\ \A t \in Thread : pc[t] \in {"count", "drop"} => cur[t] = tail

\* The owner of Waking: where it is in the queue, and what it has linked.
WalkInv(pos, list, anchor, tail) ==
    \A t \in Wakers :
        /\ val[t].ptr \in Queue(list)
        /\ pc[t] # "clear" => \A x \in Queue(list) :
              block[x].prev # Null => pos[x] < pos[val[t].ptr]
        /\ pc[t] \in {"link", "walk"} =>
              /\ cur[t] \in Queue(list)
              /\ pos[anchor] <= pos[cur[t]] /\ pos[cur[t]] <= pos[val[t].ptr]
              /\ \A x \in Queue(list) : pos[cur[t]] <= pos[x] /\ pos[x] < pos[val[t].ptr]
                                           => block[x].prev # Null
        /\ pc[t] = "detach" =>
              /\ cur[t] = tail
              /\ \A x \in Queue(list) : pos[x] < pos[val[t].ptr] => block[x].prev # Null

\* A waker has its own list, linked backwards from the block it is at.
WakeInv(pos, list) ==
    \A t \in Thread :
        /\ pc[t] \in {"clear", "signal", "gate"} => list[cur[t]] = t /\ cur[t] \in Thread
        /\ pc[t] = "clear" => block[cur[t]].prev = Null
        /\ \A x \in Thread : list[x] = t =>
              /\ pc[t] \in {"clear", "signal", "gate"}
              /\ pos[cur[t]] <= pos[x]
              /\ block[x].prev # Null => /\ block[x].prev \in Thread
                                         /\ list[block[x].prev] = t
                                         /\ pos[block[x].prev] = pos[x] + 1
        /\ \A x, y \in Thread : list[x] = t /\ list[y] = t /\ pos[x] = pos[y] => x = y

ListInv(pos, list, anchor, tail) ==
    /\ ListedInv(list)
    /\ QueueInv(pos, list, anchor, tail)
    /\ ShareInv(list, tail)
    /\ WalkInv(pos, list, anchor, tail)
    /\ WakeInv(pos, list)

IInv == /\ TypeOK
        /\ \A t \in Thread : CallInv(t) /\ WaitInv(t)
        /\ ValueIsPlausible
        /\ OwnerInv
        /\ WakerInv
        /\ \E pos \in [Thread -> Int], list \in [Thread -> Pointer],
              anchor \in Thread \cup {Null}, tail \in Thread \cup {Null} :
                 ListInv(pos, list, anchor, tail)

-----------------------------------------------------------------------------
(* Frames *)

\* The thread is not where it may be found in a list, or wake others.
Outside(t) == pc[t] \notin WakerPc \cup WaitPc

\* A step of t leaves the other threads where they are.
Others(t) == \A u \in Thread \ {t} :
    /\ pc'[u] = pc[u] /\ call'[u] = call[u] /\ hold'[u] = hold[u]
    /\ old'[u] = old[u] /\ val'[u] = val[u] /\ cur'[u] = cur[u]

LEMMA CallKept ==
    ASSUME NEW t \in Thread, \A u \in Thread : CallInv(u), Others(t), CallInv(t)'
    PROVE  \A u \in Thread : CallInv(u)'
<1>. SUFFICES ASSUME NEW u \in Thread, u # t PROVE CallInv(u)'
  OBVIOUS
<1>1. /\ pc'[u] = pc[u] /\ call'[u] = call[u] /\ hold'[u] = hold[u] /\ old'[u] = old[u]
      /\ CallInv(u)
  BY DEF Others
<1>. QED  BY <1>1 DEF CallInv

LEMMA WaitKept ==
    ASSUME NEW t \in Thread, \A u \in Thread : WaitInv(u), Others(t), WaitInv(t)',
           \A u \in Thread \ {t} : /\ block'[u].wait = block[u].wait
                                   /\ block'[u].gate = block[u].gate
                                   /\ block'[u].signaled = block[u].signaled
    PROVE  \A u \in Thread : WaitInv(u)'
<1>. SUFFICES ASSUME NEW u \in Thread, u # t PROVE WaitInv(u)'
  OBVIOUS
<1>. QED  BY DEF Others, WaitInv

\* The owners stay the same, and so does what the word says of them.
LEMMA OwnerKept ==
    ASSUME NEW t \in Thread, OwnerInv, Others(t), hold' = hold,
           \A b \in {"L", "W", "M"} : b \in word'.bits <=> b \in word.bits,
           word'.shared = word.shared,
           pc'[t] \in {"find", "count", "drop"} => hold[t] = "shared" /\ "M" \in word.bits,
           pc'[t] = "unlock" => "W" \in word.bits /\ ("M" \in word.bits => Shared = {t})
    PROVE  OwnerInv'
<1>1. Shared' = Shared /\ Exclusive' = Exclusive
  BY DEF Shared, Exclusive
<1>2. /\ ("L" \in word'.bits <=> "L" \in word.bits) /\ ("W" \in word'.bits <=> "W" \in word.bits)
      /\ ("M" \in word'.bits <=> "M" \in word.bits)
  OBVIOUS
<1>3. \A u \in Thread : pc'[u] \in {"find", "count", "drop"}
                           => hold'[u] = "shared" /\ "M" \in word'.bits
  BY <1>2 DEF OwnerInv, Others
<1>4. \A u \in Thread : pc'[u] = "unlock" => /\ "W" \in word'.bits
                                             /\ "M" \in word'.bits => Shared' = {u}
  BY <1>1, <1>2 DEF OwnerInv, Others
<1>. QED  BY <1>1, <1>2, <1>3, <1>4 DEF OwnerInv

\* The listed waiters stay where they are, and so does the waker at a gate.
LEMMA ListedKept ==
    ASSUME NEW list, ListedInv(list), NEW t \in Thread, Others(t),
           pc[t] # "gate", pc'[t] # "gate",
           \A x \in Thread : list[x] # Garbage =>
              /\ x # t /\ InList(x)'
              /\ block'[x].wait = block[x].wait /\ block'[x].gate = block[x].gate
              /\ block'[x].signaled = block[x].signaled
    PROVE  ListedInv(list)'
<1>. SUFFICES ASSUME NEW x \in Thread, list[x] # Garbage
     PROVE  /\ block'[x].wait \/ pc'[x] = "asleep"
            /\ block'[x].gate # "signalled"
            /\ block'[x].signaled <=>
                  list[x] \in Thread /\ pc'[list[x]] = "gate" /\ cur'[list[x]] = x
            /\ block'[x].signaled => pc'[x] = "asleep"
  BY DEF ListedInv
<1>1. x # t /\ (block[x].wait \/ pc[x] = "asleep") /\ block[x].gate # "signalled"
  BY DEF ListedInv
<1>2. pc'[x] = pc[x]
  BY <1>1 DEF Others
<1>3. /\ block[x].signaled <=> list[x] \in Thread /\ pc[list[x]] = "gate" /\ cur[list[x]] = x
      /\ block[x].signaled => pc[x] = "asleep"
  BY DEF ListedInv
<1>4. list[x] \in Thread =>
         (pc'[list[x]] = "gate" /\ cur'[list[x]] = x <=> pc[list[x]] = "gate" /\ cur[list[x]] = x)
  BY DEF Others
<1>. QED  BY <1>1, <1>2, <1>3, <1>4

\* Steps of t that leave the lists of the wakers alone, and their blocks.
LEMMA WakeKept ==
    ASSUME NEW pos, NEW list, WakeInv(pos, list), NEW pos2, NEW list2,
           NEW t \in Thread, Others(t),
           pc[t] \notin {"clear", "signal", "gate"}, pc'[t] \notin {"clear", "signal", "gate"},
           \A x \in Thread : list2[x] \in Thread \/ list[x] \in Thread =>
              /\ list2[x] = list[x] /\ pos2[x] = pos[x] /\ block'[x].prev = block[x].prev
    PROVE  WakeInv(pos2, list2)'
<1>1. \A x \in Thread : list[x] # t /\ list2[x] # t
  BY DEF WakeInv
<1>. SUFFICES ASSUME NEW u \in Thread PROVE
        /\ pc'[u] \in {"clear", "signal", "gate"} => list2[cur'[u]] = u /\ cur'[u] \in Thread
        /\ pc'[u] = "clear" => block'[cur'[u]].prev = Null
        /\ \A x \in Thread : list2[x] = u =>
              /\ pc'[u] \in {"clear", "signal", "gate"}
              /\ pos2[cur'[u]] <= pos2[x]
              /\ block'[x].prev # Null => /\ block'[x].prev \in Thread
                                          /\ list2[block'[x].prev] = u
                                          /\ pos2[block'[x].prev] = pos2[x] + 1
        /\ \A x, y \in Thread : list2[x] = u /\ list2[y] = u /\ pos2[x] = pos2[y] => x = y
  BY DEF WakeInv
<1>2. CASE u = t
  BY <1>1, <1>2
<1>3. CASE u # t
  <2>1. pc'[u] = pc[u] /\ cur'[u] = cur[u]
    BY <1>3 DEF Others
  <2>2. pc'[u] \in {"clear", "signal", "gate"} =>
           /\ list[cur[u]] = u /\ cur[u] \in Thread /\ list2[cur[u]] = u
           /\ pos2[cur[u]] = pos[cur[u]] /\ block'[cur[u]].prev = block[cur[u]].prev
    BY <2>1 DEF WakeInv
  <2>3. \A x \in Thread : list2[x] = u =>
           /\ list[x] = u /\ pos2[x] = pos[x] /\ block'[x].prev = block[x].prev
    OBVIOUS
  <2>4. \A x \in Thread : list[x] = u => list2[x] = u /\ pos2[x] = pos[x]
    OBVIOUS
  <2>5. \A x \in Thread : list2[x] = u =>
              /\ pc'[u] \in {"clear", "signal", "gate"}
              /\ pos2[cur'[u]] <= pos2[x]
    BY <2>1, <2>2, <2>3 DEF WakeInv
  <2>6. ASSUME NEW x \in Thread, list2[x] = u, block'[x].prev # Null
        PROVE  /\ block'[x].prev \in Thread /\ list2[block'[x].prev] = u
               /\ pos2[block'[x].prev] = pos2[x] + 1
    <3>1. /\ block[x].prev \in Thread /\ list[block[x].prev] = u
          /\ pos[block[x].prev] = pos[x] + 1 /\ block'[x].prev = block[x].prev
      BY <2>3, <2>6 DEF WakeInv
    <3>. QED  BY <2>3, <2>4, <2>6, <3>1
  <2>7. \A x, y \in Thread : list2[x] = u /\ list2[y] = u /\ pos2[x] = pos2[y] => x = y
    BY <2>3, SMTT(30) DEF WakeInv
  <2>. QED  BY <2>1, <2>2, <2>5, <2>6, <2>7 DEF WakeInv
<1>. QED  BY <1>2, <1>3

\* The queue keeps its shape.
LEMMA QueueKept ==
    ASSUME NEW pos, NEW list, NEW anchor, NEW tail, QueueInv(pos, list, anchor, tail),
           "W" \in word'.bits <=> "W" \in word.bits, word'.ptr = word.ptr,
           \A x \in Queue(list) : /\ block'[x].last = block[x].last
                                  /\ block'[x].next = block[x].next
                                  /\ block'[x].prev = block[x].prev
    PROVE  QueueInv(pos, list, anchor, tail)'
<1>1. Queue(list)' = Queue(list)
  BY DEF Queue
<1>2. "W" \in word'.bits => /\ {word.ptr, anchor, tail} \subseteq Queue(list)
                            /\ block'[anchor].last = tail
  BY DEF QueueInv
<1>3. \A x \in Queue(list) :
          /\ pos[tail] <= pos[x] /\ pos[x] <= pos[word.ptr]
          /\ x # tail => block'[x].next \in Queue(list) /\ pos[block'[x].next] = pos[x] - 1
          /\ pos[x] > pos[anchor] => block'[x].last = Null
          /\ block'[x].prev # Null => /\ block'[x].prev \in Queue(list)
                                     /\ pos[block'[x].prev] = pos[x] + 1
          /\ pos[x] < pos[anchor] => block'[x].prev # Null
  BY DEF QueueInv
<1>. QED  BY <1>1, <1>2, <1>3 DEF QueueInv

\* So does what the owner of Waking knows of it.
LEMMA WalkKept ==
    ASSUME NEW pos, NEW list, NEW anchor, NEW tail, WalkInv(pos, list, anchor, tail),
           \A u \in Wakers' : /\ u \in Wakers
                              /\ pc'[u] = pc[u] /\ val'[u] = val[u] /\ cur'[u] = cur[u],
           \A x \in Queue(list) : block'[x].prev = block[x].prev
    PROVE  WalkInv(pos, list, anchor, tail)'
<1>1. Queue(list)' = Queue(list)
  BY DEF Queue
<1>. SUFFICES ASSUME NEW u \in Wakers' PROVE
        /\ val'[u].ptr \in Queue(list)
        /\ pc'[u] # "clear" => \A x \in Queue(list) :
              block'[x].prev # Null => pos[x] < pos[val'[u].ptr]
        /\ pc'[u] \in {"link", "walk"} =>
              /\ cur'[u] \in Queue(list)
              /\ pos[anchor] <= pos[cur'[u]] /\ pos[cur'[u]] <= pos[val'[u].ptr]
              /\ \A x \in Queue(list) : pos[cur'[u]] <= pos[x] /\ pos[x] < pos[val'[u].ptr]
                                           => block'[x].prev # Null
        /\ pc'[u] = "detach" =>
              /\ cur'[u] = tail
              /\ \A x \in Queue(list) : pos[x] < pos[val'[u].ptr] => block'[x].prev # Null
  BY <1>1 DEF WalkInv
<1>. QED  BY DEF WalkInv

\* A step outside of the lists.  MultipleShared may go when the last owner does.
LEMMA OutsideKeepsIInv ==
    ASSUME IInv, NEW t \in Thread, Outside(t), Outside(t)', Others(t), block' = block,
           TypeOK', CallInv(t)', ValueIsPlausible', OwnerInv',
           \A b \in {"W", "K"} : b \in word'.bits <=> b \in word.bits,
           word'.ptr = word.ptr,
           "M" \in word'.bits => /\ "M" \in word.bits
                                 /\ Shared' = Shared /\ AtUnlock' = AtUnlock,
           "M" \in word.bits /\ "M" \notin word'.bits => AtUnlock # {},
           pc'[t] = "find" => \/ cur'[t] = word.ptr
                              \/ /\ pc[t] = "find" /\ block[cur[t]].last = Null
                                 /\ cur'[t] = block[cur[t]].next,
           pc'[t] \in {"count", "drop"} =>
              \/ pc[t] = "find" /\ block[cur[t]].last # Null /\ cur'[t] = block[cur[t]].last
              \/ pc[t] = "count" /\ cur'[t] = cur[t]
    PROVE  IInv'
<1>. PICK pos \in [Thread -> Int], list \in [Thread -> Pointer],
          anchor \in Thread \cup {Null}, tail \in Thread \cup {Null} :
             ListInv(pos, list, anchor, tail)
  BY DEF IInv
<1>0. /\ \A u \in Thread : CallInv(u) /\ WaitInv(u)
      /\ OwnerInv /\ WakerInv /\ ListInv(pos, list, anchor, tail)
  BY DEF IInv
<1>a. /\ "W" \in word'.bits <=> "W" \in word.bits
      /\ "K" \in word'.bits <=> "K" \in word.bits
  OBVIOUS
<1>1. \A u \in Thread : CallInv(u)'
  BY <1>0, CallKept
<1>2. \A u \in Thread : WaitInv(u)'
  BY <1>0, WaitKept DEF WaitInv, Outside, WaitPc
<1>3. /\ Wakers' = Wakers /\ t \notin Wakers
      /\ \A u \in Wakers : pc'[u] = pc[u] /\ val'[u] = val[u] /\ cur'[u] = cur[u]
  BY DEF Outside, Others, Wakers, WakingPc, WakerPc
<1>4. WakerInv'
  BY <1>0, <1>3, <1>a DEF WakerInv
<1>5. /\ \A x \in Thread : InList(x)' <=> InList(x)
      /\ \A x \in Thread : InList(x) => x # t
  BY DEF InList, Outside, Others
<1>b. pc[t] \notin {"clear", "signal", "gate"} /\ pc'[t] \notin {"clear", "signal", "gate"}
  BY DEF Outside, WakerPc
<1>6. ListedInv(list)'
  BY <1>0, <1>5, <1>b, ListedKept DEF ListInv, ListedInv
<1>7. QueueInv(pos, list, anchor, tail)'
  BY <1>0, <1>a DEF ListInv, QueueInv, Queue
<1>8. ShareInv(list, tail)'
  <2>0. ShareInv(list, tail) /\ QueueInv(pos, list, anchor, tail)
    BY <1>0 DEF ListInv
  <2>1. \A x \in Thread : InList(x)' /\ block'[x].share # 0 => "M" \in word'.bits /\ x = tail
    BY <1>5, <2>0 DEF ShareInv
  <2>2. "M" \in word'.bits =>
          /\ block'[tail].excl /\ block'[tail].last = tail
          /\ block'[tail].share = IF AtUnlock' = {} THEN Cardinality(Shared') ELSE 0
          /\ \A x \in Queue(list) : block'[x].last \in {Null, tail}
    BY <2>0 DEF ShareInv
  <2>3. pc'[t] = "find" => cur'[t] \in Queue(list)
    <3>. SUFFICES ASSUME pc'[t] = "find" PROVE cur'[t] \in Queue(list)
      OBVIOUS
    <3>1. "M" \in word'.bits
      BY DEF OwnerInv
    <3>2. CASE cur'[t] = word.ptr
      BY <2>0, <3>1, <3>2, <1>a DEF QueueInv, ValueIsPlausible
    <3>3. CASE /\ pc[t] = "find" /\ block[cur[t]].last = Null
               /\ cur'[t] = block[cur[t]].next
      <4>1. cur[t] \in Queue(list)
        BY <2>0, <3>3 DEF ShareInv
      <4>2. tail \in Queue(list) /\ block[tail].last = tail
        BY <2>0, <3>1, <1>a DEF QueueInv, ShareInv, ValueIsPlausible
      <4>3. tail # Null
        BY <4>2, PointerAssumption DEF Queue
      <4>. QED  BY <2>0, <3>3, <4>1, <4>2, <4>3 DEF QueueInv
    <3>. QED  BY <3>2, <3>3
  <2>4. pc'[t] \in {"count", "drop"} => cur'[t] = tail
    <3>. SUFFICES ASSUME pc'[t] \in {"count", "drop"} PROVE cur'[t] = tail
      OBVIOUS
    <3>1. "M" \in word.bits
      BY DEF OwnerInv
    <3>. QED  BY <2>0, <3>1 DEF ShareInv
  <2>5. \A u \in Thread \ {t} : pc'[u] = pc[u] /\ cur'[u] = cur[u]
    BY DEF Others
  <2>6. /\ \A u \in Thread : pc'[u] = "find" => cur'[u] \in Queue(list)
        /\ \A u \in Thread : pc'[u] \in {"count", "drop"} => cur'[u] = tail
    BY <2>0, <2>3, <2>4, <2>5 DEF ShareInv
  <2>. QED  BY <2>1, <2>2, <2>6 DEF ShareInv, Queue
<1>9. WalkInv(pos, list, anchor, tail)'
  BY <1>0, <1>3 DEF ListInv, WalkInv, Queue
<1>10. WakeInv(pos, list)'
  BY <1>0, <1>b, WakeKept DEF ListInv
<1>11. ListInv(pos, list, anchor, tail)'
  BY <1>6, <1>7, <1>8, <1>9, <1>10 DEF ListInv
<1>. QED  BY <1>1, <1>2, <1>4, <1>11 DEF IInv

-----------------------------------------------------------------------------
(* Steps outside of the lists *)

\* What a step relies on about its thread.
LEMMA Typed ==
    ASSUME TypeOK, NEW t \in Thread
    PROVE  /\ pc \in [Thread -> Pc] /\ old \in [Thread -> Word] /\ val \in [Thread -> Word]
           /\ cur \in [Thread -> Pointer] /\ block \in [Thread -> Block]
           /\ call \in [Thread -> {"none"} \cup AcquireCalls \cup ReleaseCalls]
           /\ hold \in [Thread -> {"none", "shared", "exclusive"}]
           /\ word \in Word /\ Zero \in Word
           /\ word.bits \subseteq Bit /\ word.shared \in Nat /\ word.ptr \in Thread \cup {Null}
BY DEF TypeOK, Word, Zero

\* An owner sees the lock locked.
LEMMA OwnerLocked ==
    ASSUME IInv, NEW t \in Thread, hold[t] # "none"
    PROVE  "L" \in word.bits
BY DEF IInv, TypeOK, OwnerInv, Shared, Exclusive

\* A step outside of the lists that changes neither the lock nor its owners.
LEMMA QuietKeepsIInv ==
    ASSUME IInv, NEW t \in Thread, Outside(t), Outside(t)', Others(t),
           UNCHANGED <<word, block, hold>>,
           call'[t] \in {"none"} \cup AcquireCalls \cup ReleaseCalls,
           TypeOK', CallInv(t)',
           pc[t] # "unlock" /\ "M" \in word.bits => pc'[t] # "unlock",
           pc[t] = "unlock" => pc'[t] = "unlock",
           pc'[t] \in {"find", "count", "drop"} => hold[t] = "shared" /\ "M" \in word.bits,
           pc'[t] = "unlock" => "W" \in word.bits,
           pc'[t] = "find" => \/ cur'[t] = word.ptr
                              \/ /\ pc[t] = "find" /\ block[cur[t]].last = Null
                                 /\ cur'[t] = block[cur[t]].next,
           pc'[t] \in {"count", "drop"} =>
              \/ pc[t] = "find" /\ block[cur[t]].last # Null /\ cur'[t] = block[cur[t]].last
              \/ pc[t] = "count" /\ cur'[t] = cur[t]
    PROVE  IInv'
<1>1. OwnerInv /\ ValueIsPlausible
  BY DEF IInv
<1>2. OwnerInv'
  <2>1. pc'[t] = "unlock" => "W" \in word.bits /\ ("M" \in word.bits => Shared = {t})
    BY <1>1 DEF OwnerInv
  <2>. QED  BY <1>1, <2>1, OwnerKept
<1>3. ValueIsPlausible'
  BY <1>1 DEF ValueIsPlausible
<1>4. Shared' = Shared
  BY DEF Shared
<1>5. "M" \in word.bits => AtUnlock' = AtUnlock
  BY DEF AtUnlock, Others
<1>. QED  BY <1>2, <1>3, <1>4, <1>5, OutsideKeepsIInv

LEMMA EnterKeepsIInv ==
    ASSUME IInv, NEW t \in Thread, NEW c, Enter(t, c), pc[t] = "idle",
           \/ c \in AcquireCalls /\ hold[t] = "none"
           \/ c = "ReleaseExclusive" /\ hold[t] = "exclusive"
           \/ c = "ReleaseShared" /\ hold[t] = "shared"
           \/ c = "Release" /\ hold[t] # "none"
    PROVE  IInv'
<1>0. TypeOK /\ CallInv(t)
  BY DEF IInv
<1>1. /\ pc' = [pc EXCEPT ![t] = "read"] /\ call' = [call EXCEPT ![t] = c]
      /\ UNCHANGED <<word, block, hold, old, val, cur>>
      /\ c \in AcquireCalls \cup ReleaseCalls
  BY DEF Enter, Goto, ReleaseCalls
<1>2. pc'[t] = "read" /\ call'[t] = c /\ Others(t)
  BY <1>0, <1>1, Typed DEF Others
<1>3. TypeOK'
  BY <1>0, <1>1 DEF TypeOK, Pc
<1>4. CallInv(t)'
  BY <1>0, <1>1, <1>2 DEF CallInv, OwnerPc, WaitPc, WakerPc, AcquireCalls, ReleaseCalls
<1>5. Outside(t) /\ Outside(t)'
  BY <1>2 DEF Outside, WakerPc, WaitPc
<1>. QED  BY <1>1, <1>2, <1>3, <1>4, <1>5, QuietKeepsIInv

LEMMA ContinueKeepsIInv ==
    ASSUME IInv, NEW t \in Thread, pc[t] \in {"read", "release"},
           Continue(t, call[t], word), UNCHANGED <<word, block, hold>>
    PROVE  IInv'
<1>0. TypeOK /\ CallInv(t) /\ OwnerInv /\ ValueIsPlausible
  BY DEF IInv
<1>. DEFINE c == call[t]
<1>1. /\ c \in AcquireCalls \cup ReleaseCalls
      /\ c \in AcquireCalls => hold[t] = "none"
      /\ c \in ReleaseCalls => hold[t] # "none" /\ "L" \in word.bits
      /\ c = "ReleaseExclusive" => hold[t] = "exclusive"
      /\ c = "ReleaseShared" => hold[t] = "shared"
  <2>1. c \in AcquireCalls \cup ReleaseCalls
    BY <1>0, Typed DEF CallInv
  <2>2. c \in AcquireCalls => hold[t] = "none"
    BY <1>0 DEF CallInv
  <2>3. c \in ReleaseCalls => /\ hold[t] # "none"
                              /\ c = "ReleaseExclusive" => hold[t] = "exclusive"
                              /\ c = "ReleaseShared" => hold[t] = "shared"
    BY <1>0 DEF CallInv, OwnerPc
  <2>. QED  BY <2>1, <2>2, <2>3, OwnerLocked DEF ReleaseCalls
<1>2. /\ old' = [old EXCEPT ![t] = word] /\ UNCHANGED <<call, val>>
      /\ cur' = [cur EXCEPT ![t] = IF c \in {"ReleaseShared", "Release"} /\ "M" \in word.bits
                                   THEN word.ptr ELSE Null]
      /\ c \in AcquireCalls => pc' = [pc EXCEPT ![t] = "acquire"]
      /\ c = "ReleaseExclusive" => pc' = [pc EXCEPT ![t] = "release"]
      /\ c \in {"ReleaseShared", "Release"} =>
            pc' = [pc EXCEPT ![t] = IF "W" \notin word.bits THEN "release"
                                    ELSE IF "M" \in word.bits THEN "find" ELSE "unlock"]
  BY DEF Continue, Goto, AcquireCalls
<1>3. /\ c \in AcquireCalls => pc'[t] = "acquire"
      /\ c = "ReleaseExclusive" => pc'[t] = "release"
      /\ c \in {"ReleaseShared", "Release"} =>
            pc'[t] = IF "W" \notin word.bits THEN "release"
                     ELSE IF "M" \in word.bits THEN "find" ELSE "unlock"
      /\ old'[t] = word /\ call'[t] = c
      /\ pc'[t] \in {"acquire", "release", "find", "unlock"}
      /\ Others(t)
  BY <1>0, <1>1, <1>2, Typed DEF Others, ReleaseCalls
<1>4. TypeOK'
  <2>1. pc' \in [Thread -> Pc]
    BY <1>0, <1>1, <1>2, Typed DEF Pc, ReleaseCalls
  <2>2. old' \in [Thread -> Word] /\ cur' \in [Thread -> Pointer]
    BY <1>0, <1>2, Typed DEF Pointer
  <2>. QED  BY <1>0, <1>2, <2>1, <2>2 DEF TypeOK
<1>5. CallInv(t)'
  BY <1>1, <1>3 DEF CallInv, OwnerPc, WaitPc, WakerPc, AcquireCalls, ReleaseCalls
<1>6. Outside(t) /\ Outside(t)'
  BY <1>3 DEF Outside, WakerPc, WaitPc
<1>7. /\ pc'[t] = "find" => /\ cur'[t] = word.ptr /\ "M" \in word.bits
                            /\ c \in {"ReleaseShared", "Release"}
      /\ pc'[t] = "unlock" => "W" \in word.bits /\ "M" \notin word.bits
  BY <1>0, <1>1, <1>2, <1>3, Typed DEF AcquireCalls, ReleaseCalls
<1>8. pc'[t] = "find" => hold[t] = "shared"
  <2>1. "M" \in word.bits => Exclusive = {}
    BY <1>0 DEF OwnerInv
  <2>. QED  BY <1>0, <1>1, <1>7, <2>1, Typed DEF Exclusive, ReleaseCalls
<1>9. call'[t] \in {"none"} \cup AcquireCalls \cup ReleaseCalls
  BY <1>1, <1>3
<1>. QED  BY <1>3, <1>4, <1>5, <1>6, <1>7, <1>8, <1>9, QuietKeepsIInv

LEMMA ReadKeepsIInv == ASSUME IInv, NEW t \in Thread, Read(t) PROVE IInv'
BY ContinueKeepsIInv DEF Read

\* A routine that tries again reads the lock first.
LEMMA AgainKeepsIInv ==
    ASSUME IInv, NEW t \in Thread, pc[t] \in {"acquire", "generic"},
           Goto(t, "read"), UNCHANGED <<word, block, hold, locals>>
    PROVE  IInv'
<1>0. TypeOK /\ CallInv(t)
  BY DEF IInv
<1>1. pc' = [pc EXCEPT ![t] = "read"] /\ UNCHANGED <<word, block, hold, call, old, val, cur>>
  BY DEF Goto, locals
<1>2. pc'[t] = "read" /\ Others(t)
  BY <1>0, <1>1, Typed DEF Others
<1>3. TypeOK'
  BY <1>0, <1>1 DEF TypeOK, Pc
<1>4. CallInv(t)'
  BY <1>0, <1>1, <1>2 DEF CallInv, OwnerPc, WaitPc, WakerPc, AcquireCalls, ReleaseCalls
<1>5. Outside(t) /\ Outside(t)'
  BY <1>2 DEF Outside, WakerPc, WaitPc
<1>6. call'[t] \in {"none"} \cup AcquireCalls \cup ReleaseCalls
  BY <1>0, <1>1, Typed
<1>. QED  BY <1>1, <1>2, <1>3, <1>4, <1>5, <1>6, QuietKeepsIInv

LEMMA FindOldestKeepsIInv == ASSUME IInv, NEW t \in Thread, FindOldest(t) PROVE IInv'
<1>0. TypeOK /\ CallInv(t) /\ OwnerInv /\ pc[t] = "find"
  BY DEF IInv, FindOldest
<1>1. /\ UNCHANGED <<word, block, hold, call, old, val>>
      /\ \/ /\ block[cur[t]].last # Null /\ cur' = [cur EXCEPT ![t] = block[cur[t]].last]
            /\ pc' = [pc EXCEPT ![t] = IF call[t] = "Release" THEN "count" ELSE "drop"]
         \/ /\ block[cur[t]].last = Null /\ cur' = [cur EXCEPT ![t] = block[cur[t]].next]
            /\ pc' = pc
  BY DEF FindOldest, Goto
<1>2. /\ Others(t) /\ call'[t] = call[t] /\ old'[t] = old[t]
      /\ \/ /\ block[cur[t]].last # Null /\ cur'[t] = block[cur[t]].last
            /\ pc'[t] \in {"count", "drop"}
         \/ /\ block[cur[t]].last = Null /\ cur'[t] = block[cur[t]].next
            /\ pc'[t] = "find"
  BY <1>0, <1>1, Typed DEF Others
<1>a. cur[t] \in Thread
  <2>1. PICK pos, list, anchor, tail : ListInv(pos, list, anchor, tail)
    BY DEF IInv
  <2>. QED  BY <1>0, <2>1 DEF ListInv, ShareInv, Queue
<1>3. TypeOK'
  <2>1. block[cur[t]].last \in Pointer /\ block[cur[t]].next \in Pointer
    BY <1>0, <1>a, Typed DEF Block
  <2>. QED  BY <1>0, <1>1, <2>1 DEF TypeOK, Pc
<1>4. CallInv(t)'
  BY <1>0, <1>1, <1>2 DEF CallInv, OwnerPc, WaitPc, WakerPc, AcquireCalls, ReleaseCalls
<1>5. Outside(t) /\ Outside(t)'
  BY <1>0, <1>2 DEF Outside, WakerPc, WaitPc
<1>6. hold[t] = "shared" /\ "M" \in word.bits
  BY <1>0 DEF OwnerInv
<1>7. call'[t] \in {"none"} \cup AcquireCalls \cup ReleaseCalls
  BY <1>0, <1>1, Typed
<1>8. pc'[t] # "unlock" /\ pc[t] # "unlock"
  BY <1>0, <1>2
<1>. QED  BY <1>0, <1>1, <1>2, <1>3, <1>4, <1>5, <1>6, <1>7, <1>8, QuietKeepsIInv

\* The owner that looks at the count is in it.
LEMMA CountedOwner ==
    ASSUME IInv, NEW t \in Thread, pc[t] \in {"find", "count", "drop"}
    PROVE  /\ hold[t] = "shared" /\ "M" \in word.bits /\ AtUnlock = {}
           /\ Cardinality(Shared) \in Nat \ {0}
           /\ pc[t] \in {"count", "drop"} =>
                 /\ cur[t] \in Thread /\ block[cur[t]].excl
                 /\ block[cur[t]].share = Cardinality(Shared)
<1>0. TypeOK /\ OwnerInv /\ ValueIsPlausible
  BY DEF IInv
<1>1. hold[t] = "shared" /\ "M" \in word.bits /\ t \in Shared
  BY <1>0 DEF OwnerInv, Shared
<1>2. AtUnlock = {}
  BY <1>0, <1>1 DEF OwnerInv, AtUnlock, Shared
<1>3. IsFiniteSet(Shared)
  BY ThreadAssumption, FS_Subset DEF Shared
<1>4. Cardinality(Shared) \in Nat \ {0}
  BY <1>1, <1>3, FS_CardinalityType, FS_EmptySet
<1>5. PICK pos, list, anchor, tail : ListInv(pos, list, anchor, tail)
  BY DEF IInv
<1>6. ASSUME pc[t] \in {"count", "drop"}
      PROVE  /\ cur[t] \in Thread /\ block[cur[t]].excl
             /\ block[cur[t]].share = Cardinality(Shared)
  <2>1. cur[t] = tail
    BY <1>5, <1>6 DEF ListInv, ShareInv
  <2>2. tail \in Thread
    BY <1>0, <1>1, <1>5 DEF ListInv, QueueInv, ValueIsPlausible, Queue
  <2>. QED  BY <1>1, <1>2, <1>5, <2>1, <2>2 DEF ListInv, ShareInv
<1>. QED  BY <1>1, <1>2, <1>4, <1>6

LEMMA TestShareCountKeepsIInv == ASSUME IInv, NEW t \in Thread, TestShareCount(t) PROVE IInv'
<1>0. TypeOK /\ CallInv(t) /\ OwnerInv /\ pc[t] = "count"
  BY DEF IInv, TestShareCount
<1>1. block[cur[t]].share > 0 /\ hold[t] = "shared" /\ "M" \in word.bits
  BY <1>0, CountedOwner
<1>2. pc' = [pc EXCEPT ![t] = "drop"] /\ UNCHANGED <<word, block, hold, call, old, val, cur>>
  BY <1>1 DEF TestShareCount, Goto, locals
<1>3. pc'[t] = "drop" /\ Others(t)
  BY <1>0, <1>2, Typed DEF Others
<1>4. TypeOK'
  BY <1>0, <1>2 DEF TypeOK, Pc
<1>5. CallInv(t)'
  BY <1>0, <1>2, <1>3 DEF CallInv, OwnerPc, WaitPc, WakerPc, AcquireCalls, ReleaseCalls
<1>6. Outside(t) /\ Outside(t)'
  BY <1>0, <1>3 DEF Outside, WakerPc, WaitPc
<1>7. call'[t] \in {"none"} \cup AcquireCalls \cup ReleaseCalls
  BY <1>0, <1>2, Typed
<1>. QED  BY <1>0, <1>1, <1>2, <1>3, <1>4, <1>5, <1>6, <1>7, QuietKeepsIInv

-----------------------------------------------------------------------------
(* Owners come and go *)

LEMMA SharedFinite == IsFiniteSet(Shared) /\ Cardinality(Shared) \in Nat
<1>1. IsFiniteSet(Shared)
  BY ThreadAssumption, FS_Subset DEF Shared
<1>. QED  BY <1>1, FS_CardinalityType

\* The lock is free, or readers own it and nobody waits.
LEMMA MayLockMeans ==
    ASSUME IInv, NEW c \in AcquireCalls, MayLock(c, word)
    PROVE  /\ Exclusive = {} /\ "M" \notin word.bits
           /\ Shared = {} \/ (c = "AcquireShared" /\ "W" \notin word.bits)
           /\ \A u \in Thread : pc[u] \notin {"find", "count", "drop", "unlock"}
<1>0. TypeOK /\ OwnerInv /\ ValueIsPlausible
  BY DEF IInv
<1>1. CASE "L" \notin word.bits
  <2>1. Exclusive = {} /\ Shared = {} /\ "M" \notin word.bits
    BY <1>0, <1>1 DEF OwnerInv, ValueIsPlausible
  <2>2. \A u \in Thread : hold[u] = "none"
    BY <1>0, <2>1 DEF TypeOK, Exclusive, Shared
  <2>3. \A u \in Thread : pc[u] \notin {"find", "count", "drop", "unlock"}
    BY <2>2 DEF IInv, CallInv, OwnerPc
  <2>. QED  BY <2>1, <2>3
<1>2. CASE c = "AcquireShared" /\ word.shared > 0 /\ "W" \notin word.bits
  <2>1. Exclusive = {}
    <3>1. Cardinality(Shared) > 0
      BY <1>0, <1>2 DEF OwnerInv
    <3>. QED  BY <1>0, <3>1, FS_EmptySet DEF OwnerInv
  <2>2. "M" \notin word.bits
    BY <1>0, <1>2 DEF ValueIsPlausible
  <2>3. \A u \in Thread : pc[u] \notin {"find", "count", "drop", "unlock"}
    BY <1>0, <1>2, <2>2 DEF OwnerInv
  <2>. QED  BY <1>2, <2>1, <2>2, <2>3
<1>. QED  BY <1>1, <1>2 DEF MayLock

LEMMA TakeKeepsIInv ==
    ASSUME IInv, NEW t \in Thread, NEW c \in AcquireCalls, MayLock(c, word),
           word' = LockValue(c, word), hold[t] = "none",
           hold' = [hold EXCEPT ![t] = IF c = "AcquireShared" THEN "shared" ELSE "exclusive"],
           Outside(t), pc'[t] = "idle", Others(t), block' = block, TypeOK', CallInv(t)'
    PROVE  IInv'
<1>0. TypeOK /\ OwnerInv /\ ValueIsPlausible
  BY DEF IInv
<1>1. /\ Exclusive = {} /\ "M" \notin word.bits
      /\ Shared = {} \/ (c = "AcquireShared" /\ "W" \notin word.bits)
      /\ \A u \in Thread : pc[u] \notin {"find", "count", "drop", "unlock"}
  BY MayLockMeans
<1>2. /\ word'.bits = word.bits \cup {"L"} /\ word'.ptr = word.ptr
      /\ word'.shared = IF c = "AcquireShared" /\ "W" \notin word.bits
                        THEN word.shared + 1 ELSE word.shared
  BY <1>0, Typed DEF LockValue, Word
<1>3. \A u \in Thread : pc'[u] \notin {"find", "count", "drop", "unlock"}
  BY <1>1 DEF Others
<1>4. OwnerInv'
  <2>1. CASE c = "AcquireShared"
    <3>1. Shared' = Shared \cup {t} /\ t \notin Shared /\ Exclusive' = {}
      BY <1>0, <1>1, <2>1, Typed DEF Shared, Exclusive, Others
    <3>2. Cardinality(Shared') = Cardinality(Shared) + 1
      BY <3>1, SharedFinite, FS_AddElement
    <3>3. "W" \notin word'.bits => word'.shared = Cardinality(Shared')
      BY <1>0, <1>2, <2>1, <3>2 DEF OwnerInv
    <3>4. "W" \in word'.bits => \A u, v \in Shared' : u = v
      BY <1>1, <1>2, <3>1
    <3>. QED  BY <1>2, <1>3, <3>1, <3>3, <3>4 DEF OwnerInv
  <2>2. CASE c = "AcquireExclusive"
    <3>1. Shared' = {} /\ Shared = {} /\ Exclusive' = {t}
      BY <1>0, <1>1, <2>2, Typed DEF Shared, Exclusive, Others
    <3>2. "W" \notin word'.bits => word'.shared = Cardinality(Shared')
      BY <1>0, <1>2, <2>2, <3>1 DEF OwnerInv
    <3>. QED  BY <1>1, <1>2, <1>3, <3>1, <3>2 DEF OwnerInv
  <2>. QED  BY <2>1, <2>2 DEF AcquireCalls
<1>5. ValueIsPlausible'
  BY <1>0, <1>1, <1>2 DEF ValueIsPlausible
<1>6. Outside(t)'
  BY DEF Outside, WakerPc, WaitPc
<1>. QED  BY <1>1, <1>2, <1>4, <1>5, <1>6, OutsideKeepsIInv

\* An owner leaves: a writer, an owner that found nobody waiting, or the last
\* owner.  Waking may be set at the same time if there are waiters.
LEMMA LeaveOwner ==
    ASSUME IInv, NEW t \in Thread, hold[t] # "none", hold' = [hold EXCEPT ![t] = "none"],
           Others(t), pc'[t] \notin {"find", "count", "drop", "unlock"}, word' \in Word,
           \/ /\ hold[t] = "exclusive" /\ word'.bits \ {"K"} = word.bits \ {"L", "K"}
              /\ "K" \in word'.bits => "W" \in word.bits
              /\ word'.ptr = word.ptr /\ word'.shared = word.shared
           \/ "W" \notin word.bits /\ word' = OneLess(word)
           \/ pc[t] = "unlock" /\ word' = Unlocked(word)
    PROVE  /\ OwnerInv' /\ ValueIsPlausible'
           /\ "M" \in word.bits /\ "M" \notin word'.bits => AtUnlock # {}
           /\ "M" \notin word'.bits /\ word'.ptr = word.ptr
           /\ "W" \in word'.bits <=> "W" \in word.bits
<1>0. TypeOK /\ OwnerInv /\ ValueIsPlausible
  BY DEF IInv
<1>1. "L" \in word.bits
  BY OwnerLocked
<1>2. \A u \in Thread : pc[u] = "unlock" => hold[u] # "none"
  BY DEF IInv, CallInv, OwnerPc
<1>3. ASSUME Shared \cup Exclusive = {t}
      PROVE  /\ Shared' = {} /\ Exclusive' = {}
             /\ \A u \in Thread : pc'[u] \notin {"find", "count", "drop", "unlock"}
  <2>1. \A u \in Thread \ {t} : hold[u] = "none"
    BY <1>0, <1>3, Typed DEF Shared, Exclusive
  <2>2. \A u \in Thread : hold'[u] = "none"
    BY <1>0, <2>1, Typed
  <2>3. \A u \in Thread \ {t} : pc[u] \notin {"find", "count", "drop", "unlock"}
    BY <1>0, <1>2, <2>1 DEF OwnerInv
  <2>. QED  BY <2>2, <2>3 DEF Shared, Exclusive, Others
<1>4. CASE /\ hold[t] = "exclusive" /\ word'.bits \ {"K"} = word.bits \ {"L", "K"}
           /\ "K" \in word'.bits => "W" \in word.bits
           /\ word'.ptr = word.ptr /\ word'.shared = word.shared
  <2>1. Shared = {} /\ Exclusive = {t} /\ "M" \notin word.bits
    BY <1>0, <1>4 DEF OwnerInv, Exclusive
  <2>2. /\ "L" \notin word'.bits /\ "M" \notin word'.bits
        /\ "W" \in word'.bits <=> "W" \in word.bits
    BY <1>4, <2>1
  <2>3. /\ Shared' = {} /\ Exclusive' = {}
        /\ \A u \in Thread : pc'[u] \notin {"find", "count", "drop", "unlock"}
    BY <1>3, <2>1
  <2>4. "W" \notin word'.bits => word'.shared = Cardinality(Shared')
    BY <1>0, <1>4, <2>1, <2>2, <2>3 DEF OwnerInv
  <2>5. OwnerInv'
    BY <2>2, <2>3, <2>4 DEF OwnerInv
  <2>6. "W" \notin word'.bits => word' = Zero
    <3>. SUFFICES ASSUME "W" \notin word'.bits PROVE word' = Zero
      OBVIOUS
    <3>1. word'.bits = {}
      BY <1>0, <1>4, <2>2 DEF Word, Bit
    <3>2. word'.shared = 0 /\ word'.ptr = Null
      BY <1>0, <1>4, <2>1, <2>2, FS_EmptySet DEF OwnerInv, ValueIsPlausible
    <3>. QED  BY <3>1, <3>2 DEF Word, Zero
  <2>7. ValueIsPlausible'
    BY <1>0, <1>4, <2>2, <2>6 DEF ValueIsPlausible
  <2>. QED  BY <1>4, <2>1, <2>2, <2>5, <2>7
<1>5. CASE "W" \notin word.bits /\ word' = OneLess(word)
  <2>0. "M" \notin word.bits /\ "K" \notin word.bits /\ word.ptr = Null
    BY <1>0, <1>5, Typed DEF ValueIsPlausible
  <2>1. \A u \in Thread : pc'[u] \notin {"find", "count", "drop", "unlock"}
    BY <1>0, <1>5, <2>0 DEF OwnerInv, Others
  <2>2. word.shared = Cardinality(Shared)
    BY <1>0, <1>5 DEF OwnerInv
  <2>3. CASE word.shared > 1
    <3>1. word'.bits = word.bits /\ word'.shared = word.shared - 1 /\ word'.ptr = word.ptr
      BY <1>0, <1>5, <2>3, Typed DEF OneLess, Word
    <3>2. Shared # {} /\ Exclusive = {}
      BY <1>0, <2>2, <2>3, FS_EmptySet DEF OwnerInv
    <3>3. t \in Shared
      BY <1>0, <3>2, Typed DEF Shared, Exclusive
    <3>4. Shared' = Shared \ {t} /\ Exclusive' = {}
      BY <1>0, <3>2, Typed DEF Shared, Exclusive
    <3>5. Cardinality(Shared') = Cardinality(Shared) - 1
      BY <3>3, <3>4, SharedFinite, FS_RemoveElement
    <3>6. Shared' # {}
      <4>1. Cardinality(Shared') # 0 /\ Cardinality({}) = 0
        BY <2>2, <2>3, <3>5, SharedFinite, FS_EmptySet
      <4>. QED  BY <4>1
    <3>7. OwnerInv'
      BY <1>1, <1>5, <2>0, <2>1, <2>2, <3>1, <3>4, <3>5, <3>6 DEF OwnerInv
    <3>8. ValueIsPlausible'
      BY <1>0, <1>1, <1>5, <2>0, <3>1 DEF ValueIsPlausible
    <3>. QED  BY <2>0, <3>1, <3>7, <3>8
  <2>4. CASE ~(word.shared > 1)
    <3>1. word' = Zero
      BY <1>5, <2>4 DEF OneLess
    <3>2. Shared \cup Exclusive = {t}
      <4>1. CASE hold[t] = "exclusive"
        BY <1>0, <4>1 DEF OwnerInv, Exclusive
      <4>2. CASE hold[t] = "shared"
        <5>1. t \in Shared /\ Exclusive = {}
          BY <1>0, <4>2 DEF OwnerInv, Shared
        <5>2. Cardinality(Shared) = 1
          BY <2>2, <2>4, <5>1, SharedFinite, FS_EmptySet
        <5>3. \E x : Shared = {x}
          BY <5>2, SharedFinite, FS_Singleton
        <5>. QED  BY <5>1, <5>3
      <4>. QED  BY <1>0, <4>1, <4>2, Typed
    <3>3. Shared' = {} /\ Exclusive' = {}
      BY <1>3, <3>2
    <3>4. OwnerInv' /\ ValueIsPlausible'
      BY <2>1, <3>1, <3>3, FS_EmptySet DEF OwnerInv, ValueIsPlausible, Zero
    <3>. QED  BY <1>5, <2>0, <3>1, <3>4 DEF Zero
  <2>. QED  BY <2>3, <2>4
<1>6. CASE pc[t] = "unlock" /\ word' = Unlocked(word)
  <2>1. "W" \in word.bits /\ ("M" \in word.bits => Shared = {t})
    BY <1>0, <1>6 DEF OwnerInv
  <2>2. Shared \cup Exclusive = {t}
    BY <1>0, <2>1, Typed DEF OwnerInv, Shared, Exclusive
  <2>3. /\ Shared' = {} /\ Exclusive' = {}
        /\ \A u \in Thread : pc'[u] \notin {"find", "count", "drop", "unlock"}
    BY <1>3, <2>2
  <2>4. /\ word'.bits = (word.bits \ {"L", "M"}) \cup {"K"} /\ word'.shared = word.shared
        /\ word'.ptr = word.ptr
    BY <1>0, <1>6, Typed DEF Unlocked, With, Without, Word
  <2>5. OwnerInv'
    BY <2>1, <2>3, <2>4 DEF OwnerInv
  <2>6. ValueIsPlausible'
    BY <1>0, <2>1, <2>4 DEF ValueIsPlausible
  <2>7. "M" \in word.bits => AtUnlock # {}
    BY <1>6, <2>1 DEF AtUnlock, Shared
  <2>. QED  BY <2>4, <2>5, <2>6, <2>7
<1>. QED  BY <1>4, <1>5, <1>6

\* An owner leaves and wakes nobody.
LEMMA LeaveKeepsIInv ==
    ASSUME IInv, NEW t \in Thread, hold[t] # "none", hold' = [hold EXCEPT ![t] = "none"],
           Others(t), pc[t] \in OwnerPc \cup {"idle"}, pc'[t] \in {"idle", "tryread"},
           TypeOK', CallInv(t)', block' = block,
           \/ hold[t] = "exclusive" /\ word' = Without(word, {"L"})
           \/ "W" \notin word.bits /\ word' = OneLess(word)
           \/ pc[t] = "unlock" /\ "K" \in word.bits /\ word' = Unlocked(word)
    PROVE  IInv'
<1>0. TypeOK /\ OwnerInv /\ ValueIsPlausible /\ word' \in Word
  BY DEF IInv, TypeOK
<1>1. /\ Outside(t) /\ Outside(t)'
      /\ pc'[t] \notin {"find", "count", "drop", "unlock"}
  BY DEF Outside, WakerPc, WaitPc, OwnerPc
<1>2. \/ /\ hold[t] = "exclusive" /\ word' = Without(word, {"L"})
         /\ word'.bits = word.bits \ {"L"}
         /\ word'.ptr = word.ptr /\ word'.shared = word.shared
      \/ "W" \notin word.bits /\ word' = OneLess(word)
      \/ pc[t] = "unlock" /\ "K" \in word.bits /\ word' = Unlocked(word)
  BY <1>0, Typed DEF Without, Word
<1>3. \/ /\ hold[t] = "exclusive" /\ word'.bits \ {"K"} = word.bits \ {"L", "K"}
         /\ "K" \in word'.bits => "W" \in word.bits
         /\ word'.ptr = word.ptr /\ word'.shared = word.shared
      \/ "W" \notin word.bits /\ word' = OneLess(word)
      \/ pc[t] = "unlock" /\ word' = Unlocked(word)
  BY <1>0, <1>2 DEF ValueIsPlausible
<1>4. /\ OwnerInv' /\ ValueIsPlausible'
      /\ "M" \in word.bits /\ "M" \notin word'.bits => AtUnlock # {}
      /\ "M" \notin word'.bits /\ word'.ptr = word.ptr
      /\ "W" \in word'.bits <=> "W" \in word.bits
  BY <1>0, <1>1, <1>3, LeaveOwner
<1>5. "K" \in word'.bits <=> "K" \in word.bits
  <2>1. CASE "W" \notin word.bits
    BY <1>0, <1>4, <2>1 DEF ValueIsPlausible
  <2>2. CASE hold[t] = "exclusive" /\ word'.bits = word.bits \ {"L"}
    BY <2>2
  <2>3. CASE pc[t] = "unlock" /\ "K" \in word.bits /\ word' = Unlocked(word)
    BY <1>0, <2>3, Typed DEF Unlocked, With, Without, Word
  <2>. QED  BY <1>2, <2>1, <2>2, <2>3
<1>. QED  BY <1>1, <1>4, <1>5, OutsideKeepsIInv

\* A thread that leaves the lock, or left it, takes Waking and starts the walk.
LEMMA StartWakingKeepsIInv ==
    ASSUME IInv, NEW t \in Thread, Outside(t), Others(t), block' = block,
           pc'[t] = "walk", val'[t] = word', cur'[t] = word.ptr,
           call'[t] = call[t], call[t] \in ReleaseCalls,
           TypeOK', CallInv(t)', ValueIsPlausible', OwnerInv',
           "W" \in word.bits, "K" \notin word.bits, "K" \in word'.bits,
           "W" \in word'.bits, "L" \notin word'.bits, "M" \notin word'.bits,
           word'.ptr = word.ptr,
           "M" \in word.bits => AtUnlock # {}
    PROVE  IInv'
<1>. PICK pos \in [Thread -> Int], list \in [Thread -> Pointer],
          anchor \in Thread \cup {Null}, tail \in Thread \cup {Null} :
             ListInv(pos, list, anchor, tail)
  BY DEF IInv
<1>0. /\ \A u \in Thread : CallInv(u) /\ WaitInv(u)
      /\ OwnerInv /\ WakerInv /\ ListInv(pos, list, anchor, tail)
  BY DEF IInv
<1>1. \A u \in Thread : CallInv(u)'
  BY <1>0, CallKept
<1>2. \A u \in Thread : WaitInv(u)'
  BY <1>0, WaitKept DEF WaitInv
<1>3. Wakers = {} /\ Wakers' = {t}
  <2>1. Wakers = {}
    BY <1>0 DEF WakerInv
  <2>. QED  BY <2>1 DEF Wakers, WakingPc, Others
<1>4. WakerInv'
  BY <1>3 DEF WakerInv
<1>5. /\ \A x \in Thread : InList(x)' <=> InList(x)
      /\ \A x \in Thread : InList(x) => x # t
  BY DEF InList, Outside, Others, AcquireCalls, ReleaseCalls
<1>b. pc[t] \notin {"clear", "signal", "gate"} /\ pc'[t] \notin {"clear", "signal", "gate"}
  BY DEF Outside, WakerPc
<1>6. ListedInv(list)'
  BY <1>0, <1>5, <1>b, ListedKept DEF ListInv, ListedInv
<1>7. QueueInv(pos, list, anchor, tail)'
  BY <1>0 DEF ListInv, QueueInv, Queue
<1>8. ShareInv(list, tail)'
  <2>0. ShareInv(list, tail)
    BY <1>0 DEF ListInv
  <2>1. \A x \in Thread : InList(x)' => block'[x].share = 0
    BY <1>5, <2>0 DEF ShareInv
  <2>2. \A u \in Thread : pc'[u] \notin {"find", "count", "drop"}
    BY DEF OwnerInv
  <2>. QED  BY <2>1, <2>2 DEF ShareInv
<1>9. WalkInv(pos, list, anchor, tail)'
  <2>0. QueueInv(pos, list, anchor, tail)
    BY <1>0 DEF ListInv
  <2>1. word.ptr \in Queue(list) /\ anchor \in Queue(list) /\ Queue(list) \subseteq Thread
    BY <2>0 DEF QueueInv, Queue
  <2>2. \A x \in Queue(list) : block'[x].prev # Null => pos[x] < pos[word.ptr]
    BY <2>0, <2>1 DEF QueueInv
  <2>3. pos[anchor] <= pos[word.ptr]
    BY <2>0, <2>1 DEF QueueInv
  <2>4. \A x \in Queue(list) : ~(pos[word.ptr] <= pos[x] /\ pos[x] < pos[word.ptr])
    BY <2>1
  <2>5. pos[word.ptr] <= pos[word.ptr]
    BY <2>1
  <2>. QED  BY <1>3, <2>1, <2>2, <2>3, <2>4, <2>5 DEF WalkInv, Queue
<1>10. WakeInv(pos, list)'
  BY <1>0, <1>b, WakeKept DEF ListInv
<1>11. ListInv(pos, list, anchor, tail)'
  BY <1>6, <1>7, <1>8, <1>9, <1>10 DEF ListInv
<1>. QED  BY <1>1, <1>2, <1>4, <1>11 DEF IInv

-----------------------------------------------------------------------------
(* The acquire and release routines, as far as they stay outside of the lists *)

\* A routine that returns, having left the lock, taken it or done nothing.
LEMMA ReturnMeans ==
    ASSUME TypeOK, NEW t \in Thread, Return(t),
           hold' = hold \/ \E h \in {"none", "shared", "exclusive"} : hold' = [hold EXCEPT ![t] = h],
           word' \in Word, block' = block
    PROVE  TypeOK' /\ CallInv(t)' /\ Others(t) /\ pc'[t] = "idle" /\ Outside(t)'
<1>1. /\ pc' = [pc EXCEPT ![t] = "idle"] /\ call' = [call EXCEPT ![t] = "none"]
      /\ old' = [old EXCEPT ![t] = Zero] /\ val' = [val EXCEPT ![t] = Zero]
      /\ cur' = [cur EXCEPT ![t] = Null]
  BY DEF Return, Goto
<1>2. TypeOK'
  <2>1. pc' \in [Thread -> Pc] /\ call' \in [Thread -> {"none"} \cup AcquireCalls \cup ReleaseCalls]
    BY <1>1, Typed DEF Pc
  <2>2. old' \in [Thread -> Word] /\ val' \in [Thread -> Word] /\ cur' \in [Thread -> Pointer]
    BY <1>1, Typed DEF Pointer
  <2>3. hold' \in [Thread -> {"none", "shared", "exclusive"}]
    BY Typed
  <2>. QED  BY <2>1, <2>2, <2>3, Typed DEF TypeOK
<1>3. pc'[t] = "idle" /\ call'[t] = "none" /\ Others(t)
  BY <1>1, Typed DEF Others
<1>4. CallInv(t)'
  BY <1>3 DEF CallInv, OwnerPc, WaitPc, WakerPc, AcquireCalls
<1>. QED  BY <1>2, <1>3, <1>4 DEF Outside, WakerPc, WaitPc

\* The inlines change the lock and its owner alone.
LEMMA InlineMeans ==
    ASSUME IInv, NEW t \in Thread, pc[t] = "idle", NEW h \in {"none", "shared", "exclusive"},
           hold' = [hold EXCEPT ![t] = h],
           word' \in Word, UNCHANGED <<block, pc, locals>>
    PROVE  TypeOK' /\ CallInv(t)' /\ Others(t) /\ pc'[t] = "idle" /\ Outside(t) /\ Outside(t)'
<1>0. TypeOK /\ CallInv(t) /\ UNCHANGED <<block, pc, call, old, val, cur>>
  BY DEF IInv, locals
<1>1. TypeOK'
  BY <1>0 DEF TypeOK
<1>2. Others(t) /\ hold'[t] = h
  BY <1>0, Typed DEF Others
<1>3. CallInv(t)'
  BY <1>0, <1>2 DEF CallInv, OwnerPc, WaitPc, WakerPc, AcquireCalls, ReleaseCalls
<1>. QED  BY <1>0, <1>1, <1>2, <1>3 DEF Outside, WakerPc, WaitPc

LEMMA LockValueIs ==
    ASSUME NEW v \in Word, NEW c
    PROVE  LockValue(c, v) = [bits |-> v.bits \cup {"L"}, ptr |-> v.ptr,
                              shared |-> IF c = "AcquireShared" /\ "W" \notin v.bits
                                         THEN v.shared + 1 ELSE v.shared]
<1>1. CASE c = "AcquireShared" /\ "W" \notin v.bits
  <2>1. LockValue(c, v) = [v EXCEPT !.bits = v.bits \cup {"L"}, !.shared = v.shared + 1]
    BY <1>1 DEF LockValue
  <2>. QED  BY <1>1, <2>1 DEF Word
<1>2. CASE ~(c = "AcquireShared" /\ "W" \notin v.bits)
  <2>1. LockValue(c, v) = [v EXCEPT !.bits = v.bits \cup {"L"}, !.shared = v.shared]
    BY <1>2 DEF LockValue
  <2>. QED  BY <1>2, <2>1 DEF Word
<1>. QED  BY <1>1, <1>2

\* The words the routines write.
LEMMA WordsTyped ==
    ASSUME NEW v \in Word, NEW c
    PROVE  /\ \A bs \in SUBSET Bit : With(v, bs) \in Word /\ Without(v, bs) \in Word
           /\ LockValue(c, v) \in Word /\ OneLess(v) \in Word /\ Unlocked(v) \in Word
<1>1. v.bits \subseteq Bit /\ v.shared \in Nat /\ v.ptr \in Thread \cup {Null}
  BY DEF Word
<1>2. \A bs \in SUBSET Bit : With(v, bs) \in Word /\ Without(v, bs) \in Word
  BY <1>1 DEF With, Without, Word
<1>3. LockValue(c, v) \in Word
  <2>. DEFINE n == IF c = "AcquireShared" /\ "W" \notin v.bits THEN v.shared + 1 ELSE v.shared
  <2>1. n \in Nat /\ v.bits \cup {"L"} \subseteq Bit
    BY <1>1 DEF Bit
  <2>2. LockValue(c, v) = [bits |-> v.bits \cup {"L"}, shared |-> n, ptr |-> v.ptr]
    BY LockValueIs
  <2>. QED  BY <1>1, <2>1, <2>2 DEF Word
<1>4. OneLess(v) \in Word
  BY <1>1 DEF OneLess, Word, Zero
<1>5. Unlocked(v) \in Word
  <2>1. {"L", "M"} \in SUBSET Bit /\ {"K"} \in SUBSET Bit
    BY DEF Bit
  <2>2. Without(v, {"L", "M"}) \in Word
    BY <1>2, <2>1
  <2>. QED  BY <1>1, <2>1, <2>2 DEF Unlocked, With, Word
<1>. QED  BY <1>2, <1>3, <1>4, <1>5

LEMMA AcquireExclusiveKeepsIInv ==
    ASSUME IInv, NEW t \in Thread, ExAcquirePushLockExclusive(t) PROVE IInv'
<1>0. TypeOK /\ pc[t] = "idle" /\ hold[t] = "none" /\ CallInv(t)
  BY DEF IInv, ExAcquirePushLockExclusive
<1>1. CASE Enter(t, "AcquireExclusive")
  BY <1>0, <1>1, EnterKeepsIInv DEF AcquireCalls
<1>2. CASE /\ "L" \notin word.bits /\ word' = With(word, {"L"})
           /\ Own(t, "exclusive") /\ UNCHANGED <<block, pc, locals>>
  <2>1. hold' = [hold EXCEPT ![t] = "exclusive"] /\ UNCHANGED <<block, pc, locals>>
    BY <1>2 DEF Own
  <2>2. word' = LockValue("AcquireExclusive", word)
    BY <1>0, <1>2, Typed DEF With, LockValue, Word
  <2>3. word' \in Word
    BY <1>0, <2>2, Typed, WordsTyped
  <2>. QED  BY <1>0, <1>2, <2>1, <2>2, <2>3, InlineMeans, TakeKeepsIInv DEF AcquireCalls, MayLock
<1>. QED  BY <1>1, <1>2 DEF ExAcquirePushLockExclusive

LEMMA AcquireSharedKeepsIInv ==
    ASSUME IInv, NEW t \in Thread, ExAcquirePushLockShared(t) PROVE IInv'
<1>0. TypeOK /\ pc[t] = "idle" /\ hold[t] = "none"
  BY DEF IInv, ExAcquirePushLockShared
<1>1. CASE Enter(t, "AcquireShared")
  BY <1>0, <1>1, EnterKeepsIInv DEF AcquireCalls
<1>2. CASE /\ word = Zero /\ word' = [bits |-> {"L"}, shared |-> 1, ptr |-> Null]
           /\ Own(t, "shared") /\ UNCHANGED <<block, pc, locals>>
  <2>1. hold' = [hold EXCEPT ![t] = "shared"] /\ UNCHANGED <<block, pc, locals>>
    BY <1>2 DEF Own
  <2>2. word' = LockValue("AcquireShared", word)
    <3>1. word.bits = {} /\ word.shared = 0 /\ word.ptr = Null
      BY <1>2 DEF Zero
    <3>2. LockValue("AcquireShared", word)
             = [bits |-> word.bits \cup {"L"}, shared |-> word.shared + 1, ptr |-> word.ptr]
      BY <1>0, <3>1, Typed, LockValueIs
    <3>. QED  BY <1>2, <3>1, <3>2
  <2>3. word' \in Word
    BY <1>0, <2>2, Typed, WordsTyped
  <2>4. MayLock("AcquireShared", word)
    BY <1>2 DEF MayLock, Zero
  <2>. QED  BY <1>0, <2>1, <2>2, <2>3, <2>4, InlineMeans, TakeKeepsIInv DEF AcquireCalls
<1>. QED  BY <1>1, <1>2 DEF ExAcquirePushLockShared

\* The only shared owner becomes the exclusive one.
LEMMA ConvertKeepsIInv ==
    ASSUME IInv, NEW t \in Thread, ExConvertPushLockSharedToExclusive(t) PROVE IInv'
<1>0. TypeOK /\ OwnerInv /\ ValueIsPlausible
  BY DEF IInv
<1>1. /\ pc[t] = "idle" /\ hold[t] = "shared" /\ hold' = [hold EXCEPT ![t] = "exclusive"]
      /\ word = [bits |-> {"L"}, shared |-> 1, ptr |-> Null]
      /\ word' = [bits |-> {"L"}, shared |-> 0, ptr |-> Null]
      /\ UNCHANGED <<block, pc, locals>>
  BY DEF ExConvertPushLockSharedToExclusive, Own
<1>2. /\ word.bits = {"L"} /\ word.shared = 1 /\ word.ptr = Null
      /\ word'.bits = {"L"} /\ word'.shared = 0 /\ word'.ptr = Null
  BY <1>1
<1>3. word' \in Word
  BY <1>1 DEF Word, Bit
<1>4. TypeOK' /\ CallInv(t)' /\ Others(t) /\ pc'[t] = "idle" /\ Outside(t) /\ Outside(t)'
  BY <1>1, <1>3, InlineMeans
<1>5. Shared = {t}
  <2>1. Cardinality(Shared) = 1 /\ t \in Shared
    BY <1>0, <1>1, <1>2 DEF OwnerInv, Shared
  <2>2. \E x : Shared = {x}
    BY <2>1, SharedFinite, FS_Singleton
  <2>. QED  BY <2>1, <2>2
<1>6. Shared' = {} /\ Exclusive' = {t}
  <2>1. Exclusive = {}
    BY <1>0, <1>5 DEF OwnerInv
  <2>. QED  BY <1>0, <1>1, <1>5, <2>1, Typed DEF Shared, Exclusive
<1>7. \A u \in Thread : pc'[u] \notin {"find", "count", "drop", "unlock"}
  BY <1>0, <1>2, <1>4 DEF OwnerInv, Others
<1>8. OwnerInv'
  BY <1>2, <1>6, <1>7, FS_EmptySet DEF OwnerInv
<1>9. ValueIsPlausible'
  BY <1>2 DEF ValueIsPlausible
<1>. QED  BY <1>1, <1>2, <1>4, <1>8, <1>9, OutsideKeepsIInv

LEMMA AcquireLockKeepsIInv == ASSUME IInv, NEW t \in Thread, AcquireLock(t) PROVE IInv'
<1>0. TypeOK /\ CallInv(t) /\ pc[t] = "acquire" /\ block' = block /\ MayLock(call[t], old[t])
  BY DEF IInv, AcquireLock
<1>1. call[t] \in AcquireCalls /\ hold[t] = "none" /\ Outside(t)
  BY <1>0 DEF CallInv, Outside, WakerPc, WaitPc
<1>2. CASE /\ word = old[t] /\ word' = LockValue(call[t], old[t])
           /\ Own(t, IF call[t] = "AcquireShared" THEN "shared" ELSE "exclusive")
           /\ Return(t)
  <2>1. hold' = [hold EXCEPT ![t] = IF call[t] = "AcquireShared" THEN "shared" ELSE "exclusive"]
    BY <1>2 DEF Own
  <2>2. word' \in Word
    BY <1>0, <1>2, Typed, WordsTyped
  <2>3. \E h \in {"none", "shared", "exclusive"} : hold' = [hold EXCEPT ![t] = h]
    BY <2>1
  <2>4. TypeOK' /\ CallInv(t)' /\ Others(t) /\ pc'[t] = "idle"
    BY <1>0, <1>2, <2>2, <2>3, ReturnMeans
  <2>. QED  BY <1>0, <1>1, <1>2, <2>1, <2>4, TakeKeepsIInv
<1>3. CASE Goto(t, "read") /\ UNCHANGED <<word, hold, locals>>
  BY <1>0, <1>3, AgainKeepsIInv
<1>. QED  BY <1>2, <1>3 DEF AcquireLock

LEMMA ReleaseSharedInlineKeepsIInv ==
    ASSUME IInv, NEW t \in Thread, ExReleasePushLockShared(t) PROVE IInv'
<1>0. TypeOK /\ pc[t] = "idle" /\ hold[t] = "shared"
  BY DEF IInv, ExReleasePushLockShared
<1>1. CASE Enter(t, "ReleaseShared")
  BY <1>0, <1>1, EnterKeepsIInv
<1>2. CASE /\ word = [bits |-> {"L"}, shared |-> 1, ptr |-> Null] /\ word' = Zero
           /\ Own(t, "none") /\ UNCHANGED <<block, pc, locals>>
  <2>1. hold' = [hold EXCEPT ![t] = "none"] /\ UNCHANGED <<block, pc, locals>>
    BY <1>2 DEF Own
  <2>2. word' = OneLess(word) /\ "W" \notin word.bits
    BY <1>2 DEF OneLess
  <2>3. TypeOK' /\ CallInv(t)' /\ Others(t) /\ pc'[t] = "idle"
    BY <1>0, <1>2, <2>1, Typed, InlineMeans
  <2>. QED  BY <1>0, <2>1, <2>2, <2>3, LeaveKeepsIInv
<1>. QED  BY <1>1, <1>2 DEF ExReleasePushLockShared

LEMMA ReleaseExclusiveInlineKeepsIInv ==
    ASSUME IInv, NEW t \in Thread, ExReleasePushLockExclusive(t) PROVE IInv'
<1>0. TypeOK /\ CallInv(t) /\ pc[t] = "idle" /\ hold[t] = "exclusive"
  BY DEF IInv, ExReleasePushLockExclusive
<1>1. CASE Enter(t, "ReleaseExclusive")
  BY <1>0, <1>1, EnterKeepsIInv
<1>2. CASE ~Enter(t, "ReleaseExclusive")
  <2>1. /\ word' = Without(word, {"L"}) /\ hold' = [hold EXCEPT ![t] = "none"]
        /\ \/ /\ call' = [call EXCEPT ![t] = "ReleaseExclusive"]
              /\ pc' = [pc EXCEPT ![t] = "tryread"]
           \/ UNCHANGED <<call, pc>>
        /\ UNCHANGED <<block, old, val, cur>>
    BY <1>2 DEF ExReleasePushLockExclusive, Own, Goto
  <2>2. word' \in Word
    BY <1>0, <2>1, Typed, WordsTyped DEF Bit
  <2>3. CASE UNCHANGED <<call, pc>>
    <3>1. TypeOK' /\ CallInv(t)' /\ Others(t) /\ pc'[t] = "idle"
      BY <1>0, <2>1, <2>2, <2>3, InlineMeans DEF locals
    <3>. QED  BY <1>0, <2>1, <3>1, LeaveKeepsIInv
  <2>4. CASE /\ call' = [call EXCEPT ![t] = "ReleaseExclusive"]
             /\ pc' = [pc EXCEPT ![t] = "tryread"]
    <3>1. /\ Others(t) /\ pc'[t] = "tryread" /\ call'[t] = "ReleaseExclusive"
          /\ hold'[t] = "none"
      BY <1>0, <2>1, <2>4, Typed DEF Others
    <3>2. TypeOK'
      BY <1>0, <2>1, <2>2, <2>4 DEF TypeOK, Pc, ReleaseCalls
    <3>3. CallInv(t)'
      BY <3>1 DEF CallInv, OwnerPc, WaitPc, WakerPc, AcquireCalls, ReleaseCalls
    <3>. QED  BY <1>0, <2>1, <3>1, <3>2, <3>3, LeaveKeepsIInv
  <2>. QED  BY <2>1, <2>3, <2>4
<1>. QED  BY <1>1, <1>2

LEMMA ReleaseInlineKeepsIInv == ASSUME IInv, NEW t \in Thread, ExReleasePushLock(t) PROVE IInv'
<1>0. TypeOK /\ CallInv(t) /\ pc[t] = "idle" /\ hold[t] # "none" /\ "L" \in word.bits
  BY OwnerLocked DEF IInv, ExReleasePushLock
<1>1. CASE Enter(t, "Release")
  BY <1>0, <1>1, EnterKeepsIInv
<1>2. CASE /\ call' = [call EXCEPT ![t] = "Release"] /\ old' = [old EXCEPT ![t] = word]
           /\ Goto(t, "generic") /\ UNCHANGED <<word, block, hold, val, cur>>
  <2>0. pc' = [pc EXCEPT ![t] = "generic"]
    BY <1>2 DEF Goto
  <2>1. Others(t) /\ pc'[t] = "generic" /\ call'[t] = "Release" /\ old'[t] = word
    BY <1>0, <1>2, <2>0, Typed DEF Others
  <2>2. TypeOK'
    BY <1>0, <1>2, <2>0, Typed DEF TypeOK, Pc, ReleaseCalls
  <2>3. CallInv(t)'
    BY <1>0, <1>2, <2>1 DEF CallInv, OwnerPc, WaitPc, WakerPc, AcquireCalls, ReleaseCalls
  <2>4. Outside(t) /\ Outside(t)'
    BY <1>0, <2>1 DEF Outside, WakerPc, WaitPc
  <2>. QED  BY <1>0, <1>2, <2>1, <2>2, <2>3, <2>4, QuietKeepsIInv DEF ReleaseCalls
<1>. QED  BY <1>1, <1>2 DEF ExReleasePushLock

LEMMA GenericReleaseKeepsIInv == ASSUME IInv, NEW t \in Thread, GenericRelease(t) PROVE IInv'
<1>0. TypeOK /\ CallInv(t) /\ pc[t] = "generic" /\ block' = block
  BY DEF IInv, GenericRelease
<1>1. hold[t] # "none"
  BY <1>0 DEF CallInv, OwnerPc
<1>2. CASE /\ "W" \notin old[t].bits /\ word = old[t] /\ word' = OneLess(old[t])
           /\ Own(t, "none") /\ Return(t)
  <2>1. hold' = [hold EXCEPT ![t] = "none"] /\ word' \in Word
    BY <1>0, <1>2, Typed, WordsTyped DEF Own
  <2>2. TypeOK' /\ CallInv(t)' /\ Others(t) /\ pc'[t] = "idle"
    BY <1>0, <1>2, <2>1, ReturnMeans
  <2>. QED  BY <1>0, <1>1, <1>2, <2>1, <2>2, LeaveKeepsIInv DEF OwnerPc
<1>3. CASE Goto(t, "read") /\ UNCHANGED <<word, hold, locals>>
  BY <1>0, <1>3, AgainKeepsIInv
<1>. QED  BY <1>2, <1>3 DEF GenericRelease

LEMMA ReleaseSharedKeepsIInv == ASSUME IInv, NEW t \in Thread, ReleaseShared(t) PROVE IInv'
<1>0. TypeOK /\ CallInv(t) /\ pc[t] = "release" /\ call[t] # "ReleaseExclusive" /\ block' = block
  BY DEF IInv, ReleaseShared
<1>1. hold[t] # "none" /\ "W" \notin old[t].bits
  BY <1>0 DEF CallInv, OwnerPc
<1>2. CASE word = old[t] /\ word' = OneLess(old[t]) /\ Own(t, "none") /\ Return(t)
  <2>1. hold' = [hold EXCEPT ![t] = "none"] /\ word' \in Word
    BY <1>0, <1>2, Typed, WordsTyped DEF Own
  <2>2. TypeOK' /\ CallInv(t)' /\ Others(t) /\ pc'[t] = "idle"
    BY <1>0, <1>2, <2>1, ReturnMeans
  <2>. QED  BY <1>0, <1>1, <1>2, <2>1, <2>2, LeaveKeepsIInv DEF OwnerPc
<1>3. CASE Continue(t, call[t], word) /\ UNCHANGED <<word, hold>>
  BY <1>0, <1>3, ContinueKeepsIInv
<1>. QED  BY <1>2, <1>3 DEF ReleaseShared

-----------------------------------------------------------------------------
(* Releasing with waiters *)

\* A thread without the lock goes on, or starts, with ExfWakePushLock.
LEMMA WakeWithMeans ==
    ASSUME TypeOK, NEW t \in Thread, NEW v \in Word, WakeWith(t, v),
           hold' = hold \/ hold' = [hold EXCEPT ![t] = "none"], hold'[t] = "none",
           word' \in Word, block' = block, call[t] # "none"
    PROVE  /\ TypeOK' /\ CallInv(t)' /\ Others(t) /\ val'[t] = v /\ cur'[t] = v.ptr
           /\ pc'[t] = IF "L" \in v.bits THEN "stop" ELSE "walk"
           /\ call' = call /\ old' = old
<1>1. /\ val' = [val EXCEPT ![t] = v] /\ cur' = [cur EXCEPT ![t] = v.ptr]
      /\ pc' = [pc EXCEPT ![t] = IF "L" \in v.bits THEN "stop" ELSE "walk"]
      /\ UNCHANGED <<call, old>> /\ v.ptr \in Thread \cup {Null}
  BY DEF WakeWith, Goto, Word
<1>2. TypeOK'
  <2>1. pc' \in [Thread -> Pc]
    BY <1>1, Typed DEF Pc, WakerPc
  <2>2. val' \in [Thread -> Word] /\ cur' \in [Thread -> Pointer]
    BY <1>1, Typed DEF Pointer
  <2>3. hold' \in [Thread -> {"none", "shared", "exclusive"}]
    BY Typed
  <2>. QED  BY <1>1, <2>1, <2>2, <2>3, Typed DEF TypeOK
<1>3. /\ pc'[t] = (IF "L" \in v.bits THEN "stop" ELSE "walk")
      /\ val'[t] = v /\ cur'[t] = v.ptr /\ Others(t)
  BY <1>1, Typed DEF Others
<1>4. pc'[t] \in {"stop", "walk"} /\ call'[t] # "none"
  BY <1>1, <1>3
<1>5. CallInv(t)'
  BY <1>4 DEF CallInv, OwnerPc, WaitPc, WakerPc
<1>. QED  BY <1>1, <1>2, <1>3, <1>5

LEMMA TryToWakeReadKeepsIInv == ASSUME IInv, NEW t \in Thread, TryToWakeRead(t) PROVE IInv'
<1>0. TypeOK /\ CallInv(t) /\ pc[t] = "tryread" /\ UNCHANGED <<word, block, hold>>
  BY DEF IInv, TryToWakeRead
<1>1. hold[t] = "none" /\ call[t] \in ReleaseCalls /\ Outside(t)
  BY <1>0 DEF CallInv, Outside, WakerPc, WaitPc
<1>2. CASE Return(t)
  <2>1. TypeOK' /\ CallInv(t)' /\ Others(t) /\ pc'[t] = "idle" /\ Outside(t)'
    BY <1>0, <1>2, Typed, ReturnMeans
  <2>2. call'[t] \in {"none"} \cup AcquireCalls \cup ReleaseCalls
    BY <2>1 DEF TypeOK
  <2>. QED  BY <1>0, <1>1, <2>1, <2>2, QuietKeepsIInv
<1>3. CASE /\ word.bits \cap {"L", "W", "K"} = {"W"}
           /\ old' = [old EXCEPT ![t] = word] /\ Goto(t, "trycas") /\ UNCHANGED <<call, val, cur>>
  <2>0. pc' = [pc EXCEPT ![t] = "trycas"]
    BY <1>3 DEF Goto
  <2>1. Others(t) /\ pc'[t] = "trycas" /\ old'[t] = word
    BY <1>0, <1>3, <2>0, Typed DEF Others
  <2>a. "W" \in word.bits /\ "L" \notin word.bits /\ "K" \notin word.bits
    BY <1>3
  <2>2. TypeOK'
    BY <1>0, <1>3, <2>0, Typed DEF TypeOK, Pc
  <2>3. CallInv(t)'
    BY <1>0, <1>1, <1>3, <2>1, <2>a
    DEF CallInv, OwnerPc, WaitPc, WakerPc, AcquireCalls, ReleaseCalls
  <2>4. Outside(t)'
    BY <2>1 DEF Outside, WakerPc, WaitPc
  <2>5. call'[t] \in {"none"} \cup AcquireCalls \cup ReleaseCalls
    BY <2>2 DEF TypeOK
  <2>. QED  BY <1>0, <1>1, <1>3, <2>1, <2>2, <2>3, <2>4, <2>5, QuietKeepsIInv
<1>. QED  BY <1>2, <1>3 DEF TryToWakeRead

LEMMA TryToWakeKeepsIInv == ASSUME IInv, NEW t \in Thread, TryToWake(t) PROVE IInv'
<1>0. /\ TypeOK /\ CallInv(t) /\ OwnerInv /\ ValueIsPlausible
      /\ pc[t] = "trycas" /\ UNCHANGED <<block, hold>>
  BY DEF IInv, TryToWake
<1>1. hold[t] = "none" /\ call[t] \in ReleaseCalls /\ Outside(t)
  BY <1>0 DEF CallInv, Outside, WakerPc, WaitPc
<1>2. CASE Return(t) /\ UNCHANGED word
  <2>1. TypeOK' /\ CallInv(t)' /\ Others(t) /\ pc'[t] = "idle" /\ Outside(t)'
    BY <1>0, <1>2, Typed, ReturnMeans
  <2>2. call'[t] \in {"none"} \cup AcquireCalls \cup ReleaseCalls
    BY <2>1 DEF TypeOK
  <2>. QED  BY <1>0, <1>1, <1>2, <2>1, <2>2, QuietKeepsIInv
<1>3. CASE word = old[t] /\ word' = With(word, {"K"}) /\ WakeWith(t, word')
  <2>1. "W" \in word.bits /\ "K" \notin word.bits /\ "L" \notin word.bits
    BY <1>0, <1>3 DEF CallInv
  <2>2. word' \in Word
    BY <1>0, <1>3, Typed, WordsTyped DEF Bit
  <2>3. word'.bits = word.bits \cup {"K"} /\ word'.ptr = word.ptr /\ word'.shared = word.shared
    BY <1>0, <1>3, Typed DEF With, Word
  <2>4. /\ TypeOK' /\ CallInv(t)' /\ Others(t) /\ val'[t] = word' /\ cur'[t] = word'.ptr
        /\ pc'[t] = "walk" /\ call' = call
    BY <1>0, <1>1, <1>3, <2>1, <2>2, <2>3, WakeWithMeans DEF ReleaseCalls
  <2>5. OwnerInv'
    BY <1>0, <2>3, <2>4, OwnerKept
  <2>6. ValueIsPlausible'
    BY <1>0, <2>1, <2>3 DEF ValueIsPlausible
  <2>7. "M" \notin word.bits
    BY <1>0, <2>1 DEF ValueIsPlausible
  <2>. QED  BY <1>0, <1>1, <1>3, <2>1, <2>3, <2>4, <2>5, <2>6, <2>7, StartWakingKeepsIInv
<1>. QED  BY <1>2, <1>3 DEF TryToWake

LEMMA ReleaseExclusiveKeepsIInv == ASSUME IInv, NEW t \in Thread, ReleaseExclusive(t) PROVE IInv'
<1>0. /\ TypeOK /\ CallInv(t) /\ pc[t] = "release" /\ call[t] = "ReleaseExclusive"
      /\ block' = block
  BY DEF IInv, ReleaseExclusive
<1>1. hold[t] = "exclusive" /\ Outside(t)
  BY <1>0 DEF CallInv, OwnerPc, Outside, WakerPc, WaitPc
<1>2. CASE Continue(t, call[t], word) /\ UNCHANGED <<word, hold>>
  BY <1>0, <1>2, ContinueKeepsIInv
<1>3. CASE /\ word = old[t] /\ Own(t, "none") /\ ~NeedWake(old[t])
           /\ word' = Without(old[t], {"L"}) /\ Return(t)
  <2>1. hold' = [hold EXCEPT ![t] = "none"] /\ word' \in Word
    BY <1>0, <1>3, Typed, WordsTyped DEF Own, Bit
  <2>2. TypeOK' /\ CallInv(t)' /\ Others(t) /\ pc'[t] = "idle"
    BY <1>0, <1>3, <2>1, ReturnMeans
  <2>. QED  BY <1>0, <1>1, <1>3, <2>1, <2>2, LeaveKeepsIInv DEF OwnerPc
<1>4. CASE /\ word = old[t] /\ Own(t, "none") /\ NeedWake(old[t])
           /\ word' = With(Without(old[t], {"L"}), {"K"}) /\ WakeWith(t, word')
  <2>1. hold' = [hold EXCEPT ![t] = "none"] /\ "W" \in word.bits /\ "K" \notin word.bits
    BY <1>4 DEF Own, NeedWake
  <2>2. word' \in Word
    <3>1. Without(word, {"L"}) \in Word
      BY <1>0, Typed, WordsTyped DEF Bit
    <3>. QED  BY <1>4, <3>1, WordsTyped DEF Bit
  <2>3. /\ word'.bits = (word.bits \ {"L"}) \cup {"K"} /\ word'.ptr = word.ptr
        /\ word'.shared = word.shared
    BY <1>0, <1>4, Typed DEF With, Without, Word
  <2>4. /\ TypeOK' /\ CallInv(t)' /\ Others(t) /\ val'[t] = word' /\ cur'[t] = word'.ptr
        /\ pc'[t] = "walk" /\ call' = call
    <3>1. hold'[t] = "none"
      BY <1>0, <2>1, Typed
    <3>. QED  BY <1>0, <1>1, <1>4, <2>1, <2>2, <2>3, <3>1, WakeWithMeans
  <2>5. /\ OwnerInv' /\ ValueIsPlausible' /\ "M" \notin word'.bits
        /\ "M" \in word.bits => AtUnlock # {}
    BY <1>1, <2>1, <2>2, <2>3, <2>4, LeaveOwner
  <2>6. "L" \notin word'.bits
    BY <2>3
  <2>. QED  BY <1>0, <1>1, <2>1, <2>3, <2>4, <2>5, <2>6, StartWakingKeepsIInv DEF ReleaseCalls
<1>. QED  BY <1>2, <1>3, <1>4 DEF ReleaseExclusive

LEMMA UnlockKeepsIInv == ASSUME IInv, NEW t \in Thread, Unlock(t) PROVE IInv'
<1>0. TypeOK /\ CallInv(t) /\ OwnerInv /\ pc[t] = "unlock" /\ block' = block
  BY DEF IInv, Unlock
<1>1. /\ hold[t] # "none" /\ Outside(t) /\ call[t] \in ReleaseCalls /\ "W" \in old[t].bits
      /\ "W" \in word.bits /\ "L" \in word.bits
  BY <1>0, OwnerLocked DEF CallInv, OwnerPc, Outside, WakerPc, WaitPc, OwnerInv
<1>2. CASE old' = [old EXCEPT ![t] = word] /\ UNCHANGED <<word, hold, pc, call, val, cur>>
  <2>1. Others(t) /\ old'[t] = word /\ pc'[t] = "unlock"
    BY <1>0, <1>2, Typed DEF Others
  <2>2. TypeOK'
    BY <1>0, <1>2, Typed DEF TypeOK
  <2>3. CallInv(t)'
    BY <1>0, <1>1, <1>2, <2>1 DEF CallInv, OwnerPc, WaitPc, WakerPc, AcquireCalls, ReleaseCalls
  <2>4. Outside(t)'
    BY <2>1 DEF Outside, WakerPc, WaitPc
  <2>. QED  BY <1>0, <1>1, <1>2, <2>1, <2>2, <2>3, <2>4, QuietKeepsIInv
<1>3. CASE /\ word = old[t] /\ word' = Unlocked(old[t]) /\ Own(t, "none")
           /\ ~NeedWake(old[t]) /\ Return(t)
  <2>1. hold' = [hold EXCEPT ![t] = "none"] /\ word' \in Word /\ "K" \in word.bits
    BY <1>0, <1>1, <1>3, Typed, WordsTyped DEF Own, NeedWake
  <2>2. TypeOK' /\ CallInv(t)' /\ Others(t) /\ pc'[t] = "idle"
    BY <1>0, <1>3, <2>1, ReturnMeans
  <2>. QED  BY <1>0, <1>1, <1>3, <2>1, <2>2, LeaveKeepsIInv DEF OwnerPc
<1>4. CASE /\ word = old[t] /\ word' = Unlocked(old[t]) /\ Own(t, "none")
           /\ NeedWake(old[t]) /\ WakeWith(t, word')
  <2>1. hold' = [hold EXCEPT ![t] = "none"] /\ word' \in Word /\ "K" \notin word.bits
    BY <1>0, <1>4, Typed, WordsTyped DEF Own, NeedWake
  <2>2. /\ word'.bits = (word.bits \ {"L", "M"}) \cup {"K"} /\ word'.ptr = word.ptr
    BY <1>0, <1>4, Typed DEF Unlocked, With, Without, Word
  <2>3. /\ TypeOK' /\ CallInv(t)' /\ Others(t) /\ val'[t] = word' /\ cur'[t] = word'.ptr
        /\ pc'[t] = "walk" /\ call' = call
    <3>1. hold'[t] = "none" /\ call[t] # "none"
      BY <1>0, <1>1, <2>1, Typed DEF ReleaseCalls
    <3>. QED  BY <1>0, <1>1, <1>4, <2>1, <2>2, <3>1, WakeWithMeans
  <2>4. /\ OwnerInv' /\ ValueIsPlausible' /\ "M" \notin word'.bits
        /\ "M" \in word.bits => AtUnlock # {}
    BY <1>0, <1>1, <1>4, <2>1, <2>3, LeaveOwner
  <2>5. "L" \notin word'.bits /\ "K" \in word'.bits /\ "W" \in word'.bits
    BY <1>1, <2>2
  <2>. QED  BY <1>0, <1>1, <2>1, <2>2, <2>3, <2>4, <2>5, StartWakingKeepsIInv
<1>. QED  BY <1>2, <1>3, <1>4 DEF Unlock

LEMMA DropShareKeepsIInv == ASSUME IInv, NEW t \in Thread, DropShare(t) PROVE IInv'
<1>. PICK pos \in [Thread -> Int], list \in [Thread -> Pointer],
          anchor \in Thread \cup {Null}, tail \in Thread \cup {Null} :
             ListInv(pos, list, anchor, tail)
  BY DEF IInv
<1>0. /\ TypeOK /\ \A u \in Thread : CallInv(u) /\ WaitInv(u)
      /\ ValueIsPlausible /\ OwnerInv /\ WakerInv /\ ListInv(pos, list, anchor, tail)
      /\ pc[t] = "drop" /\ UNCHANGED word
  BY DEF IInv, DropShare
<1>. DEFINE n == Cardinality(Shared)
<1>1. /\ cur[t] = tail /\ tail \in Thread /\ block[tail].excl /\ block[tail].share = n
      /\ hold[t] = "shared" /\ "M" \in word.bits /\ AtUnlock = {} /\ n \in Nat \ {0}
  BY <1>0, CountedOwner DEF ListInv, ShareInv
<1>2. /\ block' = [block EXCEPT ![tail].share = n - 1]
      /\ IF n - 1 <= 0
         THEN /\ pc' = [pc EXCEPT ![t] = "unlock"] /\ cur' = [cur EXCEPT ![t] = Null]
              /\ UNCHANGED <<hold, call, old, val>>
         ELSE hold' = [hold EXCEPT ![t] = "none"] /\ Return(t)
  BY <1>1 DEF DropShare, LastOwner, Own, Goto
<1>3. /\ block' \in [Thread -> Block] /\ block'[tail].share = n - 1
      /\ \A x \in Thread :
            /\ block'[x].excl = block[x].excl /\ block'[x].wait = block[x].wait
            /\ block'[x].last = block[x].last /\ block'[x].next = block[x].next
            /\ block'[x].prev = block[x].prev /\ block'[x].signaled = block[x].signaled
            /\ block'[x].gate = block[x].gate
            /\ x # tail => block'[x].share = block[x].share
  <2>1. block'[tail] = [block[tail] EXCEPT !.share = n - 1] /\ n - 1 \in Int
    BY <1>0, <1>1, <1>2, Typed
  <2>2. \A x \in Thread \ {tail} : block'[x] = block[x]
    BY <1>0, <1>1, <1>2, Typed
  <2>3. block[tail] \in Block
    BY <1>0, <1>1, Typed
  <2>4. block'[tail] \in Block
    BY <2>1, <2>3 DEF Block
  <2>5. block' \in [Thread -> Block]
    BY <1>0, <1>1, <1>2, <2>1, <2>4, Typed
  <2>. QED  BY <2>1, <2>2, <2>3, <2>5 DEF Block
<1>4. /\ Others(t) /\ pc'[t] \in {"idle", "unlock"}
      /\ pc'[t] = "idle" => n - 1 > 0 /\ hold' = [hold EXCEPT ![t] = "none"] /\ call'[t] = "none"
      /\ pc'[t] = "unlock" => n - 1 = 0 /\ UNCHANGED <<hold, call, old>>
      /\ TypeOK'
  <2>1. CASE n - 1 <= 0
    <3>1. /\ pc' = [pc EXCEPT ![t] = "unlock"] /\ cur' = [cur EXCEPT ![t] = Null]
          /\ UNCHANGED <<hold, call, old, val>> /\ n - 1 = 0
      BY <1>1, <1>2, <2>1
    <3>2. Others(t) /\ pc'[t] = "unlock"
      BY <1>0, <3>1, Typed DEF Others
    <3>3. TypeOK'
      BY <1>0, <1>3, <3>1, Typed DEF TypeOK, Pc, Pointer
    <3>. QED  BY <3>1, <3>2, <3>3
  <2>2. CASE ~(n - 1 <= 0)
    <3>1. /\ hold' = [hold EXCEPT ![t] = "none"] /\ n - 1 > 0
          /\ pc' = [pc EXCEPT ![t] = "idle"] /\ call' = [call EXCEPT ![t] = "none"]
          /\ old' = [old EXCEPT ![t] = Zero] /\ val' = [val EXCEPT ![t] = Zero]
          /\ cur' = [cur EXCEPT ![t] = Null]
      BY <1>1, <1>2, <2>2 DEF Return, Goto
    <3>2. Others(t) /\ pc'[t] = "idle" /\ call'[t] = "none"
      BY <1>0, <3>1, Typed DEF Others
    <3>3. TypeOK'
      BY <1>0, <1>3, <3>1, Typed DEF TypeOK, Pc, Pointer
    <3>. QED  BY <3>1, <3>2, <3>3
  <2>. QED  BY <2>1, <2>2
<1>5. \A u \in Thread : CallInv(u)'
  <2>1. CallInv(t) /\ CallInv(t)'
    <3>1. CallInv(t)
      BY <1>0
    <3>2. CASE pc'[t] = "idle"
      <4>1. call'[t] = "none"
        BY <1>4, <3>2
      <4>. QED  BY <3>1, <3>2, <4>1 DEF CallInv, OwnerPc, WaitPc, WakerPc, AcquireCalls
    <3>3. CASE pc'[t] = "unlock"
      BY <1>0, <1>4, <3>1, <3>3 DEF CallInv, OwnerPc, WaitPc, WakerPc, AcquireCalls, ReleaseCalls
    <3>. QED  BY <1>4, <3>1, <3>2, <3>3
  <2>. QED  BY <1>0, <1>4, <2>1, CallKept
<1>6. \A u \in Thread : WaitInv(u)'
  <2>1. WaitInv(t)'
    BY <1>4 DEF WaitInv
  <2>. QED  BY <1>0, <1>3, <1>4, <2>1, WaitKept
<1>7. ValueIsPlausible'
  BY <1>0 DEF ValueIsPlausible
<1>8. /\ Exclusive = {} /\ Exclusive' = {} /\ t \in Shared
      /\ "L" \in word.bits /\ "W" \in word.bits
      /\ \A u \in Thread : pc[u] # "unlock"
  <2>1. Exclusive = {} /\ t \in Shared /\ "L" \in word.bits /\ "W" \in word.bits
    BY <1>0, <1>1 DEF OwnerInv, Shared, ValueIsPlausible
  <2>2. Exclusive' = {}
    BY <1>0, <1>4, <2>1, Typed DEF Exclusive
  <2>3. \A u \in Thread : pc[u] # "unlock"
    BY <1>0, <1>1, <2>1 DEF OwnerInv, AtUnlock, Shared
  <2>. QED  BY <2>1, <2>2, <2>3
<1>9. /\ pc'[t] = "idle" => Shared' = Shared \ {t} /\ Shared' # {} /\ AtUnlock' = {}
      /\ pc'[t] = "unlock" => Shared' = {t} /\ AtUnlock' = {t}
  <2>1. CASE pc'[t] = "idle"
    <3>1. Shared' = Shared \ {t}
      BY <1>0, <1>4, <2>1, Typed DEF Shared
    <3>2. Cardinality(Shared') = n - 1 /\ Cardinality({}) = 0
      BY <1>8, <3>1, SharedFinite, FS_RemoveElement, FS_EmptySet
    <3>3. AtUnlock' = {}
      BY <1>8, <2>1 , <1>4 DEF AtUnlock, Others
    <3>. QED  BY <1>4, <2>1, <3>1, <3>2, <3>3, SMTT(30)
  <2>2. CASE pc'[t] = "unlock"
    <3>1. Shared' = Shared /\ n = 1
      BY <1>1, <1>4, <2>2 DEF Shared
    <3>2. \E x : Shared = {x}
      BY <3>1, SharedFinite, FS_Singleton
    <3>3. AtUnlock' = {t}
      BY <1>1, <1>8, <1>4, <2>2 DEF AtUnlock, Others
    <3>. QED  BY <1>8, <2>2, <3>1, <3>2, <3>3
  <2>. QED  BY <1>4, <2>1, <2>2
<1>10. OwnerInv'
  <2>1. Shared' # {}
    BY <1>4, <1>9
  <2>2. \A u \in Thread : pc'[u] \in {"find", "count", "drop"}
                            => hold'[u] = "shared" /\ "M" \in word.bits
    BY <1>0, <1>4 DEF OwnerInv, Others
  <2>3. \A u \in Thread : pc'[u] = "unlock" => Shared' = {u}
    BY <1>4, <1>8, <1>9 DEF Others
  <2>. QED  BY <1>0, <1>1, <1>8, <2>1, <2>2, <2>3 DEF OwnerInv
<1>11. /\ Wakers' = Wakers /\ t \notin Wakers
       /\ \A u \in Wakers : pc'[u] = pc[u] /\ val'[u] = val[u] /\ cur'[u] = cur[u]
  BY <1>0, <1>4 DEF Others, Wakers, WakingPc
<1>12. WakerInv'
  BY <1>0, <1>11 DEF WakerInv
<1>13. /\ \A x \in Thread : InList(x)' <=> InList(x)
       /\ \A x \in Thread : InList(x) => x # t
  BY <1>0, <1>4 DEF InList, Others, WakerPc, WaitPc
<1>14. ListedInv(list)'
  BY <1>0, <1>3, <1>4, <1>13, ListedKept, SMTT(30) DEF ListInv, ListedInv
<1>15. QueueInv(pos, list, anchor, tail)'
  BY <1>0, <1>3, QueueKept DEF ListInv, Queue
<1>16. ShareInv(list, tail)'
  <2>0. ShareInv(list, tail) /\ "M" \in word'.bits
    BY <1>0, <1>1 DEF ListInv
  <2>1. \A x \in Thread : InList(x)' /\ block'[x].share # 0 => "M" \in word'.bits /\ x = tail
    BY <1>3, <1>13, <2>0 DEF ShareInv
  <2>2. /\ block'[tail].excl /\ block'[tail].last = tail
        /\ \A x \in Queue(list) : block'[x].last \in {Null, tail}
    BY <1>1, <1>3, <2>0 DEF ShareInv, Queue
  <2>3. block'[tail].share = IF AtUnlock' = {} THEN Cardinality(Shared') ELSE 0
    <3>1. CASE pc'[t] = "idle"
      <4>1. Cardinality(Shared') = n - 1
        BY <1>8, <1>9, <3>1, SharedFinite, FS_RemoveElement
      <4>. QED  BY <1>3, <1>9, <3>1, <4>1
    <3>2. CASE pc'[t] = "unlock"
      BY <1>3, <1>4, <1>9, <3>2
    <3>. QED  BY <1>4, <3>1, <3>2
  <2>4. /\ \A u \in Thread : pc'[u] = "find" => cur'[u] \in Queue(list)
        /\ \A u \in Thread : pc'[u] \in {"count", "drop"} => cur'[u] = tail
    BY <1>4, <2>0 DEF ShareInv, Others
  <2>. QED  BY <2>1, <2>2, <2>3, <2>4 DEF ShareInv, Queue
<1>17. WalkInv(pos, list, anchor, tail)'
  BY <1>0, <1>3, <1>11, WalkKept DEF ListInv, Queue
<1>18. WakeInv(pos, list)'
  BY <1>0, <1>3, <1>4, WakeKept DEF ListInv
<1>19. ListInv(pos, list, anchor, tail)'
  BY <1>14, <1>15, <1>16, <1>17, <1>18 DEF ListInv
<1>. QED  BY <1>4, <1>5, <1>6, <1>7, <1>10, <1>12, <1>19 DEF IInv

-----------------------------------------------------------------------------
(* Waiting *)

\* A thread that queues itself: what it writes to the lock and to its block.
LEMMA EnqueueMeans ==
    ASSUME IInv, NEW t \in Thread, Enqueue(t), word = old[t]
    PROVE  /\ TypeOK' /\ CallInv(t)' /\ WaitInv(t)' /\ Others(t) /\ hold' = hold
           /\ pc[t] = "acquire" /\ call[t] \in AcquireCalls /\ ~MayLock(call[t], word)
           /\ "L" \in word.bits /\ {"L", "W"} \subseteq word'.bits
           /\ word'.ptr = t /\ word'.shared = 0
           /\ "K" \in word'.bits <=> "W" \in word.bits
           /\ "M" \in word'.bits <=> "M" \in word.bits \/ ("W" \notin word.bits /\ word.shared > 1)
           /\ block'[t].wait /\ block'[t].prev = Null /\ ~block'[t].signaled
           /\ block'[t].gate = "uninitialised"
           /\ block'[t].excl <=> call[t] = "AcquireExclusive"
           /\ IF "W" \in word.bits
              THEN block'[t].last = Null /\ block'[t].next = word.ptr /\ block'[t].share = 0
              ELSE /\ block'[t].last = t
                   /\ block'[t].share = IF word.shared > 1 THEN word.shared ELSE 0
           /\ \A x \in Thread \ {t} : block'[x] = block[x] /\ (InList(x)' <=> InList(x))
           /\ ~InList(t) /\ InList(t)'
           /\ IF NeedWake(word) THEN pc'[t] = "link" /\ val'[t] = word' /\ cur'[t] = t
                                ELSE pc'[t] = "initgate"
<1>0. TypeOK /\ CallInv(t) /\ ValueIsPlausible
  BY DEF IInv
<1>1. /\ pc[t] = "acquire" /\ ~MayLock(call[t], word) /\ UNCHANGED <<hold, call, old>>
      /\ word' = Queued(call[t], word, t)
      /\ block' = [block EXCEPT ![t] = WaitBlock(call[t], word, t)]
      /\ IF NeedWake(word)
         THEN /\ val' = [val EXCEPT ![t] = word'] /\ cur' = [cur EXCEPT ![t] = t]
              /\ pc' = [pc EXCEPT ![t] = "link"]
         ELSE pc' = [pc EXCEPT ![t] = "initgate"] /\ UNCHANGED <<val, cur>>
  BY DEF Enqueue, Goto
<1>2. call[t] \in AcquireCalls /\ hold[t] = "none" /\ "L" \in word.bits
  BY <1>0, <1>1 DEF CallInv, MayLock
<1>3. /\ word' \in Word /\ {"L", "W"} \subseteq word'.bits
      /\ word'.ptr = t /\ word'.shared = 0
      /\ "K" \in word'.bits <=> "W" \in word.bits
      /\ "M" \in word'.bits <=> "M" \in word.bits \/ ("W" \notin word.bits /\ word.shared > 1)
  <2>1. CASE "W" \in word.bits
    <3>1. word' = [bits |-> {"W"} \cup (word.bits \cap {"L", "M"}) \cup {"K"},
                   shared |-> 0, ptr |-> t]
      BY <1>1, <2>1 DEF Queued
    <3>2. word'.bits = {"W"} \cup (word.bits \cap {"L", "M"}) \cup {"K"}
      BY <3>1
    <3>3. word' \in Word
      BY <3>1 DEF Word, Bit
    <3>. QED  BY <1>2, <2>1, <3>1, <3>2, <3>3
  <2>2. CASE "W" \notin word.bits
    <3>0. "K" \notin word.bits
      BY <1>0, <2>2 DEF ValueIsPlausible
    <3>. DEFINE m == IF word.shared > 1 THEN {"M"} ELSE {}
    <3>1. word' = [bits |-> {"W"} \cup (word.bits \cap {"L", "K", "M"}) \cup m,
                   shared |-> 0, ptr |-> t]
      BY <1>1, <2>2 DEF Queued
    <3>2. word'.bits = {"W"} \cup (word.bits \cap {"L", "K", "M"}) \cup m
      BY <3>1
    <3>3. word' \in Word
      BY <3>1 DEF Word, Bit
    <3>. QED  BY <1>2, <2>2, <3>0, <3>1, <3>2, <3>3
  <2>. QED  BY <2>1, <2>2
<1>4. /\ block' \in [Thread -> Block]
      /\ block'[t].wait /\ block'[t].prev = Null /\ ~block'[t].signaled
      /\ block'[t].gate = "uninitialised"
      /\ block'[t].excl <=> call[t] = "AcquireExclusive"
      /\ IF "W" \in word.bits
         THEN block'[t].last = Null /\ block'[t].next = word.ptr /\ block'[t].share = 0
         ELSE /\ block'[t].last = t
              /\ block'[t].share = IF word.shared > 1 THEN word.shared ELSE 0
      /\ \A x \in Thread \ {t} : block'[x] = block[x]
  <2>. DEFINE B == WaitBlock(call[t], word, t)
  <2>1. /\ B.wait = TRUE /\ B.prev = Null /\ B.signaled = FALSE /\ B.gate = "uninitialised"
        /\ B.excl = (call[t] = "AcquireExclusive")
        /\ B.last = (IF "W" \in word.bits THEN Null ELSE t)
        /\ B.next = (IF "W" \in word.bits THEN word.ptr ELSE Garbage)
        /\ B.share = IF "W" \notin word.bits /\ word.shared > 1 THEN word.shared ELSE 0
    BY DEF WaitBlock
  <2>2. B \in Block
    <3>1. B = [excl |-> B.excl, wait |-> B.wait, prev |-> B.prev, last |-> B.last,
               next |-> B.next, share |-> B.share, signaled |-> B.signaled, gate |-> B.gate]
      BY DEF WaitBlock
    <3>2. /\ B.excl \in BOOLEAN /\ B.wait \in BOOLEAN /\ B.signaled \in BOOLEAN
          /\ B.gate \in {"uninitialised", "clear", "signalled"}
      BY <2>1
    <3>3. B.prev \in Pointer /\ B.last \in Pointer /\ B.next \in Pointer /\ B.share \in Int
      BY <1>0, <2>1, Typed DEF Pointer
    <3>. QED  BY <3>1, <3>2, <3>3 DEF Block
  <2>3. block'[t] = B /\ block' \in [Thread -> Block]
    BY <1>0, <1>1, <2>2, Typed
  <2>4. \A x \in Thread \ {t} : block'[x] = block[x]
    BY <1>0, <1>1, Typed
  <2>. QED  BY <2>1, <2>3, <2>4
<1>5. /\ Others(t) /\ call'[t] = call[t] /\ hold'[t] = "none"
      /\ IF NeedWake(word) THEN pc'[t] = "link" /\ val'[t] = word' /\ cur'[t] = t
                           ELSE pc'[t] = "initgate"
  <2>1. CASE NeedWake(word)
    BY <1>0, <1>1, <1>2, <2>1, Typed DEF Others
  <2>2. CASE ~NeedWake(word)
    BY <1>0, <1>1, <1>2, <2>2, Typed DEF Others
  <2>. QED  BY <2>1, <2>2
<1>6. pc'[t] \in {"link", "initgate"}
  BY <1>5
<1>7. TypeOK'
  <2>1. pc' \in [Thread -> Pc]
    BY <1>0, <1>1, Typed DEF Pc, WakerPc, WaitPc
  <2>2. val' \in [Thread -> Word] /\ cur' \in [Thread -> Pointer]
    BY <1>0, <1>1, <1>3, Typed DEF Pointer
  <2>. QED  BY <1>0, <1>1, <1>3, <1>4, <2>1, <2>2 DEF TypeOK
<1>8. CallInv(t)'
  BY <1>2, <1>5, <1>6 DEF CallInv, OwnerPc, WaitPc, WakerPc, AcquireCalls, ReleaseCalls
<1>9. WaitInv(t)'
  BY <1>6 DEF WaitInv
<1>10. /\ \A x \in Thread \ {t} : InList(x)' <=> InList(x)
       /\ ~InList(t) /\ InList(t)'
  BY <1>1, <1>2, <1>5, <1>6 DEF InList, Others, WakerPc, WaitPc
<1>. QED  BY <1>1, <1>2, <1>3, <1>4, <1>5, <1>7, <1>8, <1>9, <1>10

\* The lock stays locked, and its shared owners are now counted in the block.
LEMMA EnqueueOwners ==
    ASSUME IInv, NEW t \in Thread, Enqueue(t), word = old[t]
    PROVE  /\ OwnerInv' /\ ValueIsPlausible' /\ Shared' = Shared
           /\ "W" \notin word.bits => /\ word.shared = Cardinality(Shared)
                                      /\ \A u \in Thread : pc'[u] \notin {"find", "count", "drop", "unlock"}
           /\ \A u \in Thread : pc'[u] \in {"find", "count", "drop", "unlock"}
                                   => u # t /\ pc[u] = pc'[u] /\ cur'[u] = cur[u]
           /\ AtUnlock' = AtUnlock
<1>0. TypeOK /\ OwnerInv /\ ValueIsPlausible /\ word.shared \in Nat
  BY Typed DEF IInv
<1>1. /\ Others(t) /\ hold' = hold /\ pc[t] = "acquire" /\ pc'[t] \in {"link", "initgate"}
      /\ "L" \in word.bits /\ "L" \in word'.bits /\ "W" \in word'.bits
      /\ word'.ptr = t /\ word'.shared = 0 /\ t # Null
      /\ "M" \in word'.bits <=> "M" \in word.bits \/ ("W" \notin word.bits /\ word.shared > 1)
  BY EnqueueMeans, PointerAssumption
<1>2. Shared' = Shared /\ Exclusive' = Exclusive
  BY <1>1 DEF Shared, Exclusive
<1>3. "W" \notin word.bits => /\ word.shared = Cardinality(Shared) /\ "M" \notin word.bits
                              /\ \A u \in Thread : pc[u] \notin {"find", "count", "drop", "unlock"}
  BY <1>0 DEF OwnerInv, ValueIsPlausible
<1>4. \A u \in Thread : pc'[u] \in {"find", "count", "drop", "unlock"}
                           => u # t /\ pc[u] = pc'[u] /\ cur'[u] = cur[u]
  BY <1>1 DEF Others
<1>5. \A u \in Thread : pc'[u] \in {"find", "count", "drop", "unlock"} => "W" \in word.bits
  BY <1>3, <1>4
<1>6. AtUnlock' = AtUnlock
  BY <1>1 DEF AtUnlock, Others
<1>7. OwnerInv'
  <2>1. ASSUME Exclusive # {} PROVE Shared = {} /\ "M" \notin word'.bits
    <3>1. Shared = {} /\ "M" \notin word.bits /\ Cardinality({}) = 0
      BY <1>0, <2>1, FS_EmptySet DEF OwnerInv
    <3>. QED  BY <1>1, <1>3, <3>1
  <2>2. ASSUME "M" \notin word'.bits, NEW u \in Shared, NEW v \in Shared PROVE u = v
    <3>1. CASE "W" \in word.bits
      BY <1>0, <1>1, <2>2, <3>1 DEF OwnerInv
    <3>2. CASE "W" \notin word.bits
      <4>1. Cardinality(Shared) <= 1 /\ Cardinality(Shared) # 0
        BY <1>0, <1>1, <1>3, <2>2, <3>2, SharedFinite, FS_EmptySet
      <4>2. \E x : Shared = {x}
        BY <4>1, SharedFinite, FS_Singleton
      <4>. QED  BY <4>2
    <3>. QED  BY <3>1, <3>2
  <2>3. \A u \in Thread : pc'[u] \in {"find", "count", "drop"}
                            => hold'[u] = "shared" /\ "M" \in word'.bits
    BY <1>0, <1>1, <1>4 DEF OwnerInv
  <2>4. \A u \in Thread : pc'[u] = "unlock" => ("M" \in word'.bits => Shared = {u})
    BY <1>0, <1>1, <1>4, <1>5 DEF OwnerInv
  <2>5. Shared \cup Exclusive # {}
    BY <1>0, <1>1 DEF OwnerInv
  <2>6. \A u, v \in Exclusive : u = v
    BY <1>0 DEF OwnerInv
  <2>. QED  BY <1>1, <1>2, <2>1, <2>2, <2>3, <2>4, <2>5, <2>6 DEF OwnerInv
<1>8. ValueIsPlausible'
  BY <1>1 DEF ValueIsPlausible
<1>. QED  BY <1>2, <1>3, <1>4, <1>5, <1>6, <1>7, <1>8

\* The first waiter is the newest, the anchor and the tail.
LEMMA EnqueueFirst ==
    ASSUME IInv, NEW t \in Thread, Enqueue(t), word = old[t], "W" \notin word.bits
    PROVE  IInv'
<1>. PICK pos \in [Thread -> Int], list \in [Thread -> Pointer],
          anchor \in Thread \cup {Null}, tail \in Thread \cup {Null} :
             ListInv(pos, list, anchor, tail)
  BY DEF IInv
<1>0. /\ TypeOK /\ \A u \in Thread : CallInv(u) /\ WaitInv(u)
      /\ ValueIsPlausible /\ OwnerInv /\ WakerInv /\ ListInv(pos, list, anchor, tail)
  BY DEF IInv
<1>1. /\ TypeOK' /\ CallInv(t)' /\ WaitInv(t)' /\ Others(t) /\ pc[t] = "acquire"
      /\ "W" \in word'.bits /\ "K" \notin word'.bits /\ word'.ptr = t
      /\ "M" \in word'.bits <=> word.shared > 1
      /\ block'[t].wait /\ block'[t].prev = Null /\ ~block'[t].signaled
      /\ block'[t].gate = "uninitialised" /\ block'[t].last = t
      /\ block'[t].share = IF word.shared > 1 THEN word.shared ELSE 0
      /\ block'[t].excl <=> call[t] = "AcquireExclusive"
      /\ \A x \in Thread \ {t} : block'[x] = block[x] /\ (InList(x)' <=> InList(x))
      /\ ~InList(t) /\ InList(t)' /\ pc'[t] = "initgate"
  BY <1>0, EnqueueMeans DEF NeedWake, ValueIsPlausible
<1>2. /\ OwnerInv' /\ ValueIsPlausible' /\ Shared' = Shared /\ word.shared = Cardinality(Shared)
      /\ \A u \in Thread : pc'[u] \notin {"find", "count", "drop", "unlock"}
  BY EnqueueOwners
<1>3. "M" \in word'.bits => call[t] = "AcquireExclusive"
  <2>1. call[t] \in AcquireCalls /\ ~MayLock(call[t], word) /\ word.shared \in Nat
    BY <1>0, EnqueueMeans, Typed
  <2>. QED  BY <1>1, <2>1 DEF MayLock, AcquireCalls
<1>4. \A u \in Thread : CallInv(u)'
  BY <1>0, <1>1, CallKept
<1>5. \A u \in Thread : WaitInv(u)'
  BY <1>0, <1>1, WaitKept
<1>6. Wakers' = {}
  <2>1. "K" \notin word.bits
    BY <1>0 DEF ValueIsPlausible
  <2>2. Wakers = {}
    BY <1>0, <2>1 DEF WakerInv
  <2>. QED  BY <1>1, <2>2 DEF Wakers, WakingPc, Others
<1>7. WakerInv'
  BY <1>1, <1>6 DEF WakerInv
<1>. DEFINE list2 == [list EXCEPT ![t] = Null]
<1>8. /\ list[t] = Garbage /\ list2 \in [Thread -> Pointer] /\ list2[t] = Null
      /\ \A x \in Thread \ {t} : list2[x] = list[x] /\ list[x] # Null
      /\ Queue(list2) = {t}
  <2>1. list[t] = Garbage
    BY <1>0, <1>1 DEF ListInv, ListedInv
  <2>2. Queue(list) = {}
    BY <1>0 DEF ListInv, QueueInv
  <2>3. /\ list2 \in [Thread -> Pointer] /\ list2[t] = Null
        /\ \A x \in Thread \ {t} : list2[x] = list[x] /\ list[x] # Null
    BY <2>2 DEF Pointer, Queue
  <2>. QED  BY <2>1, <2>3 DEF Queue
<1>9. ListedInv(list2)'
  <2>. SUFFICES ASSUME NEW x \in Thread, list2[x] # Garbage
       PROVE  /\ InList(x)'
              /\ block'[x].wait \/ pc'[x] = "asleep"
              /\ block'[x].gate # "signalled"
              /\ block'[x].signaled <=>
                    list2[x] \in Thread /\ pc'[list2[x]] = "gate" /\ cur'[list2[x]] = x
              /\ block'[x].signaled => pc'[x] = "asleep"
    BY DEF ListedInv
  <2>1. CASE x = t
    BY <1>1, <1>8, <2>1, PointerAssumption
  <2>2. CASE x # t
    <3>1. list[x] = list2[x] /\ block'[x] = block[x] /\ pc'[x] = pc[x] /\ (InList(x)' <=> InList(x))
      BY <1>1, <1>8, <2>2 DEF Others
    <3>2. InList(x) /\ (block[x].wait \/ pc[x] = "asleep") /\ block[x].gate # "signalled"
      BY <1>0, <3>1 DEF ListInv, ListedInv
    <3>3. /\ block[x].signaled <=> list[x] \in Thread /\ pc[list[x]] = "gate" /\ cur[list[x]] = x
          /\ block[x].signaled => pc[x] = "asleep"
      BY <1>0, <3>1 DEF ListInv, ListedInv
    <3>4. list[x] \in Thread =>
             (pc'[list[x]] = "gate" /\ cur'[list[x]] = x <=> pc[list[x]] = "gate" /\ cur[list[x]] = x)
      BY <1>1 DEF Others
    <3>. QED  BY <3>1, <3>2, <3>3, <3>4
  <2>. QED  BY <2>1, <2>2
<1>10. QueueInv(pos, list2, t, t)'
  <2>1. Queue(list2)' = {t} /\ pos[t] \in Int
    BY <1>8 DEF Queue
  <2>. HIDE DEF list2
  <2>2. pos[t] <= pos[t] /\ ~(pos[t] > pos[t]) /\ ~(pos[t] < pos[t])
    BY <2>1
  <2>. QED  BY <1>1, <2>1, <2>2 DEF QueueInv
<1>11. ShareInv(list2, t)'
  <2>0. ShareInv(list, tail) /\ "M" \notin word.bits
    BY <1>0 DEF ListInv, ValueIsPlausible
  <2>1. \A x \in Thread : InList(x)' /\ block'[x].share # 0 => "M" \in word'.bits /\ x = t
    BY <1>1, <2>0 DEF ShareInv
  <2>2. "M" \in word'.bits =>
          /\ block'[t].excl /\ block'[t].last = t
          /\ block'[t].share = IF AtUnlock' = {} THEN Cardinality(Shared') ELSE 0
          /\ \A x \in Queue(list2) : block'[x].last \in {Null, t}
    <3>1. AtUnlock' = {}
      BY <1>2 DEF AtUnlock
    <3>. QED  BY <1>1, <1>2, <1>3, <1>8, <3>1
  <2>. QED  BY <1>2, <2>1, <2>2 DEF ShareInv, Queue
<1>12. WalkInv(pos, list2, t, t)'
  BY <1>6 DEF WalkInv
<1>13. WakeInv(pos, list2)'
  <2>1. \A x \in Thread : list2[x] \in Thread \/ list[x] \in Thread =>
           list2[x] = list[x] /\ block'[x].prev = block[x].prev
    BY <1>1, <1>8, PointerAssumption
  <2>. HIDE DEF list2
  <2>. QED  BY <1>0, <1>1, <2>1, WakeKept DEF ListInv
<1>14. ListInv(pos, list2, t, t)'
  BY <1>9, <1>10, <1>11, <1>12, <1>13 DEF ListInv
<1>. QED  BY <1>1, <1>2, <1>4, <1>5, <1>7, <1>8, <1>14 DEF IInv

\* Another waiter goes before the newest; it links the list if nobody does.
LEMMA EnqueueNext ==
    ASSUME IInv, NEW t \in Thread, Enqueue(t), word = old[t], "W" \in word.bits
    PROVE  IInv'
<1>. PICK pos \in [Thread -> Int], list \in [Thread -> Pointer],
          anchor \in Thread \cup {Null}, tail \in Thread \cup {Null} :
             ListInv(pos, list, anchor, tail)
  BY DEF IInv
<1>0. /\ TypeOK /\ \A u \in Thread : CallInv(u) /\ WaitInv(u)
      /\ ValueIsPlausible /\ OwnerInv /\ WakerInv /\ ListInv(pos, list, anchor, tail)
  BY DEF IInv
<1>h. PICK h \in Thread \cup {Null} : h = word.ptr
  BY <1>0, Typed
<1>1. /\ TypeOK' /\ CallInv(t)' /\ WaitInv(t)' /\ Others(t) /\ pc[t] = "acquire"
      /\ "L" \in word'.bits /\ "W" \in word'.bits /\ "K" \in word'.bits /\ word'.ptr = t
      /\ "M" \in word'.bits <=> "M" \in word.bits
      /\ block'[t].wait /\ block'[t].prev = Null /\ ~block'[t].signaled
      /\ block'[t].gate = "uninitialised"
      /\ block'[t].last = Null /\ block'[t].next = h /\ block'[t].share = 0
      /\ \A x \in Thread \ {t} : block'[x] = block[x] /\ (InList(x)' <=> InList(x))
      /\ ~InList(t) /\ InList(t)'
      /\ "K" \in word.bits => pc'[t] = "initgate"
      /\ "K" \notin word.bits => pc'[t] = "link" /\ val'[t] = word' /\ cur'[t] = t
  BY <1>h, EnqueueMeans DEF NeedWake
<1>2. /\ OwnerInv' /\ ValueIsPlausible' /\ Shared' = Shared /\ AtUnlock' = AtUnlock
      /\ \A u \in Thread : pc'[u] \in {"find", "count", "drop", "unlock"}
                              => u # t /\ pc[u] = pc'[u] /\ cur'[u] = cur[u]
  BY EnqueueOwners
<1>4. \A u \in Thread : CallInv(u)'
  BY <1>0, <1>1, CallKept
<1>5. \A u \in Thread : WaitInv(u)'
  BY <1>0, <1>1, WaitKept
<1>6. /\ "K" \in word.bits =>
            /\ Wakers' = Wakers
            /\ \A u \in Wakers : /\ u # t /\ pc'[u] = pc[u] /\ val'[u] = val[u] /\ cur'[u] = cur[u]
      /\ "K" \notin word.bits => Wakers' = {t}
  <2>1. t \notin Wakers /\ ("K" \notin word.bits => Wakers = {})
    BY <1>0, <1>1 DEF Wakers, WakingPc, WakerInv
  <2>2. pc'[t] = "initgate" => Wakers' = Wakers
    BY <1>1, <2>1 DEF Wakers, WakingPc, Others
  <2>3. pc'[t] = "link" => Wakers' = Wakers \cup {t}
    BY <1>1, <2>1 DEF Wakers, WakingPc, Others
  <2>4. \A u \in Wakers : /\ u # t /\ pc'[u] = pc[u] /\ val'[u] = val[u] /\ cur'[u] = cur[u]
    BY <1>1, <2>1 DEF Wakers, Others
  <2>. QED  BY <1>1, <2>1, <2>2, <2>3, <2>4
<1>7. WakerInv'
  <2>1. CASE "K" \in word.bits
    BY <1>0, <1>1, <1>6, <2>1 DEF WakerInv
  <2>2. CASE "K" \notin word.bits
    BY <1>1, <1>6, <2>2 DEF WakerInv
  <2>. QED  BY <2>1, <2>2
<1>. DEFINE Q == Queue(list)
<1>a. {h, anchor, tail} \subseteq Q /\ Q \subseteq Thread
  BY <1>0, <1>h DEF ListInv, QueueInv, Queue
<1>8. PICK list2 \in [Thread -> Pointer], pos2 \in [Thread -> Int] :
      /\ list[t] = Garbage /\ list2[t] = Null
      /\ \A x \in Thread \ {t} : list2[x] = list[x]
      /\ Queue(list2) = Q \cup {t} /\ t \notin Q
      /\ pos2[t] = pos[h] + 1
      /\ \A x \in Thread \ {t} : pos2[x] = pos[x]
  <2>. DEFINE list2 == [list EXCEPT ![t] = Null]
              pos2  == [pos EXCEPT ![t] = pos[h] + 1]
  <2>1. list[t] = Garbage
    BY <1>0, <1>1 DEF ListInv, ListedInv
  <2>2. /\ list2 \in [Thread -> Pointer] /\ list2[t] = Null
        /\ \A x \in Thread \ {t} : list2[x] = list[x]
    BY DEF Pointer
  <2>3. /\ pos2 \in [Thread -> Int] /\ pos2[t] = pos[h] + 1
        /\ \A x \in Thread \ {t} : pos2[x] = pos[x]
    BY <1>a
  <2>4. Queue(list2) = Q \cup {t} /\ t \notin Q
    BY <2>1, <2>2 DEF Queue, Garbage, Null
  <2>. QED  BY <2>1, <2>2, <2>3, <2>4
<1>b. /\ \A x \in Q : x # t /\ x \in Thread /\ pos2[x] = pos[x] /\ pos[x] \in Int /\ pos2[x] \in Int
      /\ \A x \in Q : block'[x] = block[x] /\ pos2[x] <= pos[h] /\ pos2[x] < pos2[t]
      /\ h \in Q /\ anchor \in Q /\ tail \in Q /\ pos[h] \in Int /\ pos2[t] \in Int
  <2>1. \A x \in Q : pos[x] <= pos[h]
    BY <1>0, <1>h DEF ListInv, QueueInv
  <2>. QED  BY <1>1, <1>8, <1>a, <2>1
<1>9. ListedInv(list2)'
  <2>. SUFFICES ASSUME NEW x \in Thread, list2[x] # Garbage
       PROVE  /\ InList(x)'
              /\ block'[x].wait \/ pc'[x] = "asleep"
              /\ block'[x].gate # "signalled"
              /\ block'[x].signaled <=>
                    list2[x] \in Thread /\ pc'[list2[x]] = "gate" /\ cur'[list2[x]] = x
              /\ block'[x].signaled => pc'[x] = "asleep"
    BY DEF ListedInv
  <2>1. CASE x = t
    BY <1>1, <1>8, <2>1, PointerAssumption
  <2>2. CASE x # t
    <3>1. list[x] = list2[x] /\ block'[x] = block[x] /\ pc'[x] = pc[x] /\ (InList(x)' <=> InList(x))
      BY <1>1, <1>8, <2>2 DEF Others
    <3>2. InList(x) /\ (block[x].wait \/ pc[x] = "asleep") /\ block[x].gate # "signalled"
      BY <1>0, <3>1 DEF ListInv, ListedInv
    <3>3. /\ block[x].signaled <=> list[x] \in Thread /\ pc[list[x]] = "gate" /\ cur[list[x]] = x
          /\ block[x].signaled => pc[x] = "asleep"
      BY <1>0, <3>1 DEF ListInv, ListedInv
    <3>4. list[x] \in Thread =>
             (pc'[list[x]] = "gate" /\ cur'[list[x]] = x <=> pc[list[x]] = "gate" /\ cur[list[x]] = x)
      BY <1>1 DEF Others
    <3>. QED  BY <3>1, <3>2, <3>3, <3>4
  <2>. QED  BY <2>1, <2>2
<1>10. QueueInv(pos2, list2, anchor, tail)'
  <2>0. QueueInv(pos, list, anchor, tail) /\ Queue(list2)' = Queue(list2)
    BY <1>0 DEF ListInv, Queue
  <2>1. block'[anchor].last = tail
    BY <1>b, <2>0 DEF QueueInv
  <2>2. ASSUME NEW x \in Q PROVE
          /\ pos2[tail] <= pos2[x] /\ pos2[x] <= pos2[t]
          /\ x # tail => /\ block'[x].next \in Q /\ pos2[block'[x].next] = pos2[x] - 1
          /\ pos2[x] > pos2[anchor] => block'[x].last = Null
          /\ block'[x].prev # Null => /\ block'[x].prev \in Q
                                      /\ pos2[block'[x].prev] = pos2[x] + 1
          /\ pos2[x] < pos2[anchor] => block'[x].prev # Null
    <3>1. /\ pos[tail] <= pos[x]
          /\ x # tail => block[x].next \in Q /\ pos[block[x].next] = pos[x] - 1
          /\ pos[x] > pos[anchor] => block[x].last = Null
          /\ block[x].prev # Null => /\ block[x].prev \in Q
                                     /\ pos[block[x].prev] = pos[x] + 1
          /\ pos[x] < pos[anchor] => block[x].prev # Null
      BY <2>0 DEF QueueInv
    <3>2. block'[x] = block[x] /\ pos2[x] = pos[x] /\ pos2[x] < pos2[t]
      BY <1>b
    <3>. QED  BY <1>b, <3>1, <3>2
  <2>3. /\ pos2[tail] <= pos2[t] /\ pos2[t] <= pos2[t]
        /\ block'[t].next \in Q /\ pos2[block'[t].next] = pos2[t] - 1
        /\ block'[t].last = Null /\ block'[t].prev = Null /\ ~(pos2[t] < pos2[anchor])
    BY <1>1, <1>8, <1>b
  <2>4. \A x, y \in Q \cup {t} : pos2[x] = pos2[y] => x = y
    <3>1. \A x, y \in Q : pos[x] = pos[y] => x = y
      BY <2>0 DEF QueueInv
    <3>2. \A x \in Q : pos2[x] # pos2[t]
      BY <1>b
    <3>. QED  BY <1>b, <3>1, <3>2
  <2>. QED  BY <1>1, <1>8, <1>b, <2>0, <2>1, <2>2, <2>3, <2>4 DEF QueueInv
<1>11. ShareInv(list2, tail)'
  <2>0. ShareInv(list, tail)
    BY <1>0 DEF ListInv
  <2>1. \A x \in Thread : InList(x)' /\ block'[x].share # 0 => "M" \in word'.bits /\ x = tail
    BY <1>1, <2>0 DEF ShareInv
  <2>2. "M" \in word'.bits =>
          /\ block'[tail].excl /\ block'[tail].last = tail
          /\ block'[tail].share = IF AtUnlock' = {} THEN Cardinality(Shared') ELSE 0
          /\ \A x \in Queue(list2) : block'[x].last \in {Null, tail}
    BY <1>1, <1>2, <1>8, <1>b, <2>0 DEF ShareInv
  <2>3. /\ \A u \in Thread : pc'[u] = "find" => cur'[u] \in Queue(list2)
        /\ \A u \in Thread : pc'[u] \in {"count", "drop"} => cur'[u] = tail
    BY <1>2, <1>8, <2>0 DEF ShareInv
  <2>. QED  BY <2>1, <2>2, <2>3 DEF ShareInv, Queue
<1>12. WalkInv(pos2, list2, anchor, tail)'
  <2>. SUFFICES ASSUME NEW u \in Wakers' PROVE
        /\ val'[u].ptr \in Queue(list2)
        /\ pc'[u] # "clear" => \A x \in Queue(list2) :
              block'[x].prev # Null => pos2[x] < pos2[val'[u].ptr]
        /\ pc'[u] \in {"link", "walk"} =>
              /\ cur'[u] \in Queue(list2)
              /\ pos2[anchor] <= pos2[cur'[u]] /\ pos2[cur'[u]] <= pos2[val'[u].ptr]
              /\ \A x \in Queue(list2) : pos2[cur'[u]] <= pos2[x] /\ pos2[x] < pos2[val'[u].ptr]
                                           => block'[x].prev # Null
        /\ pc'[u] = "detach" =>
              /\ cur'[u] = tail
              /\ \A x \in Queue(list2) : pos2[x] < pos2[val'[u].ptr] => block'[x].prev # Null
    BY DEF WalkInv, Queue
  <2>1. CASE "K" \in word.bits
    <3>1. u \in Wakers /\ pc'[u] = pc[u] /\ val'[u] = val[u] /\ cur'[u] = cur[u]
      BY <1>6, <2>1
    <3>2. /\ val[u].ptr \in Q
          /\ pc[u] # "clear" => \A x \in Q : block[x].prev # Null => pos[x] < pos[val[u].ptr]
          /\ pc[u] \in {"link", "walk"} =>
              /\ cur[u] \in Q
              /\ pos[anchor] <= pos[cur[u]] /\ pos[cur[u]] <= pos[val[u].ptr]
              /\ \A x \in Q : pos[cur[u]] <= pos[x] /\ pos[x] < pos[val[u].ptr]
                                           => block[x].prev # Null
          /\ pc[u] = "detach" =>
              /\ cur[u] = tail
              /\ \A x \in Q : pos[x] < pos[val[u].ptr] => block[x].prev # Null
      BY <1>0, <3>1 DEF ListInv, WalkInv
    <3>3. ~(pos2[t] < pos2[val[u].ptr])
      BY <1>b, <3>2
    <3>. QED  BY <1>1, <1>8, <1>b, <3>1, <3>2, <3>3
  <2>2. CASE "K" \notin word.bits
    <3>1. u = t /\ val'[u].ptr = t /\ cur'[u] = t /\ pc'[u] = "link"
      BY <1>1, <1>6, <2>2
    <3>. QED  BY <1>1, <1>8, <1>b, <3>1
  <2>. QED  BY <2>1, <2>2
<1>13. WakeInv(pos2, list2)'
  <2>1. \A x \in Thread : list2[x] \in Thread \/ list[x] \in Thread =>
           list2[x] = list[x] /\ pos2[x] = pos[x] /\ block'[x].prev = block[x].prev
    BY <1>1, <1>8, PointerAssumption
  <2>2. pc[t] \notin {"clear", "signal", "gate"} /\ pc'[t] \notin {"clear", "signal", "gate"}
    BY <1>1
  <2>. QED  BY <1>0, <1>1, <2>1, <2>2, WakeKept DEF ListInv
<1>14. ListInv(pos2, list2, anchor, tail)'
  BY <1>9, <1>10, <1>11, <1>12, <1>13 DEF ListInv
<1>. QED  BY <1>1, <1>2, <1>4, <1>5, <1>7, <1>8, <1>14 DEF IInv

LEMMA EnqueueKeepsIInv == ASSUME IInv, NEW t \in Thread, Enqueue(t) PROVE IInv'
<1>1. CASE word = old[t]
  BY <1>1, EnqueueFirst, EnqueueNext
<1>2. CASE word # old[t]
  BY <1>2, AgainKeepsIInv DEF Enqueue
<1>. QED  BY <1>1, <1>2

\* A waiter goes on to its gate, or leaves when nobody has its block any more.
LEMMA WaiterKeepsIInv ==
    ASSUME IInv, NEW t \in Thread, pc[t] \in WaitPc, pc'[t] \in WaitPc \cup {"acquire"},
           UNCHANGED <<word, hold, call, old, val, cur>>, Others(t), TypeOK', WaitInv(t)',
           \A x \in Thread \ {t} : block'[x] = block[x],
           pc'[t] # "acquire" =>
              /\ block'[t].excl = block[t].excl /\ block'[t].last = block[t].last
              /\ block'[t].next = block[t].next /\ block'[t].prev = block[t].prev
              /\ block'[t].share = block[t].share /\ block'[t].signaled = block[t].signaled
              /\ block[t].wait => block'[t].wait \/ pc'[t] = "asleep"
              /\ pc[t] # "asleep" /\ block'[t].gate # "signalled",
           pc'[t] = "acquire" => \/ pc[t] = "test" /\ ~block[t].wait
                                 \/ block[t].gate = "signalled"
    PROVE  IInv'
<1>. PICK pos \in [Thread -> Int], list \in [Thread -> Pointer],
          anchor \in Thread \cup {Null}, tail \in Thread \cup {Null} :
             ListInv(pos, list, anchor, tail)
  BY DEF IInv
<1>0. /\ TypeOK /\ \A u \in Thread : CallInv(u) /\ WaitInv(u)
      /\ ValueIsPlausible /\ OwnerInv /\ WakerInv /\ ListInv(pos, list, anchor, tail)
  BY DEF IInv
<1>1. call[t] \in AcquireCalls /\ hold[t] = "none"
  BY <1>0 DEF CallInv
<1>2. /\ pc[t] \notin WakerPc /\ pc'[t] \notin WakerPc
      /\ pc[t] \notin {"clear", "signal", "gate"} /\ pc'[t] \notin {"clear", "signal", "gate"}
      /\ pc[t] \notin OwnerPc /\ pc'[t] \notin OwnerPc
      /\ pc'[t] \notin {"find", "count", "drop", "unlock"}
      /\ pc[t] \notin {"find", "count", "drop", "unlock"}
  BY DEF WaitPc, WakerPc, OwnerPc
<1>3. \A u \in Thread : CallInv(u)'
  <2>1. CallInv(t)'
    BY <1>1 DEF CallInv, OwnerPc, WaitPc, WakerPc, AcquireCalls, ReleaseCalls
  <2>. QED  BY <1>0, <2>1, CallKept
<1>4. \A u \in Thread : WaitInv(u)'
  BY <1>0, WaitKept
<1>5. ValueIsPlausible' /\ OwnerInv'
  BY <1>0, <1>2, OwnerKept DEF ValueIsPlausible
<1>6. /\ Wakers' = Wakers /\ t \notin Wakers
      /\ \A u \in Wakers : pc'[u] = pc[u] /\ val'[u] = val[u] /\ cur'[u] = cur[u]
  BY <1>2 DEF Others, Wakers, WakingPc, WakerPc
<1>7. WakerInv'
  BY <1>0, <1>6 DEF WakerInv
<1>8. /\ \A x \in Thread \ {t} : InList(x)' <=> InList(x)
      /\ InList(t) /\ (InList(t)' <=> pc'[t] # "acquire")
  BY <1>1 DEF InList, Others, WakerPc, WaitPc
<1>9. pc'[t] = "acquire" => list[t] = Garbage
  <2>1. pc[t] = "test" /\ ~block[t].wait => list[t] = Garbage
    BY <1>0 DEF ListInv, ListedInv
  <2>2. block[t].gate = "signalled" => list[t] = Garbage
    BY <1>0 DEF ListInv, ListedInv
  <2>. QED  BY <2>1, <2>2
<1>10. \A x \in Thread : list[x] # Garbage =>
          /\ InList(x)' /\ block'[x].excl = block[x].excl
          /\ block'[x].last = block[x].last /\ block'[x].next = block[x].next
          /\ block'[x].prev = block[x].prev /\ block'[x].share = block[x].share
          /\ block'[x].signaled = block[x].signaled
  <2>1. \A x \in Thread : list[x] # Garbage => InList(x)
    BY <1>0 DEF ListInv, ListedInv
  <2>. QED  BY <1>8, <1>9, <2>1
<1>11. ListedInv(list)'
  <2>. SUFFICES ASSUME NEW x \in Thread, list[x] # Garbage
       PROVE  /\ block'[x].wait \/ pc'[x] = "asleep"
              /\ block'[x].gate # "signalled"
              /\ block'[x].signaled <=>
                    list[x] \in Thread /\ pc'[list[x]] = "gate" /\ cur'[list[x]] = x
              /\ block'[x].signaled => pc'[x] = "asleep"
    BY <1>10 DEF ListedInv
  <2>1. (block[x].wait \/ pc[x] = "asleep") /\ block[x].gate # "signalled"
    BY <1>0 DEF ListInv, ListedInv
  <2>2. /\ block[x].signaled <=> list[x] \in Thread /\ pc[list[x]] = "gate" /\ cur[list[x]] = x
        /\ block[x].signaled => pc[x] = "asleep"
    BY <1>0 DEF ListInv, ListedInv
  <2>3. list[x] \in Thread =>
           (pc'[list[x]] = "gate" /\ cur'[list[x]] = x <=> pc[list[x]] = "gate" /\ cur[list[x]] = x)
    BY <1>2 DEF Others
  <2>4. block'[x].signaled = block[x].signaled
    BY <1>10
  <2>5. CASE x = t
    BY <1>9, <2>1, <2>2, <2>3, <2>4, <2>5
  <2>6. CASE x # t
    BY <2>1, <2>2, <2>3, <2>4, <2>6 DEF Others
  <2>. QED  BY <2>5, <2>6
<1>12. QueueInv(pos, list, anchor, tail)'
  <2>1. \A x \in Queue(list) : /\ block'[x].last = block[x].last
                               /\ block'[x].next = block[x].next
                               /\ block'[x].prev = block[x].prev
    BY <1>10 DEF Queue, Garbage, Null
  <2>. QED  BY <1>0, <2>1, QueueKept DEF ListInv
<1>13. ShareInv(list, tail)'
  <2>0. ShareInv(list, tail) /\ QueueInv(pos, list, anchor, tail)
    BY <1>0 DEF ListInv
  <2>1. Shared' = Shared /\ AtUnlock' = AtUnlock
    BY <1>2 DEF Shared, AtUnlock, Others
  <2>2. \A x \in Thread : InList(x)' /\ block'[x].share # 0 => "M" \in word'.bits /\ x = tail
    BY <1>8, <2>0 DEF ShareInv
  <2>3. "M" \in word.bits => tail \in Queue(list)
    BY <1>0, <2>0 DEF QueueInv, ValueIsPlausible
  <2>4. \A x \in Queue(list) : x \in Thread /\ list[x] # Garbage
    BY DEF Queue, Garbage, Null
  <2>5. "M" \in word'.bits =>
          /\ block'[tail].excl /\ block'[tail].last = tail
          /\ block'[tail].share = IF AtUnlock' = {} THEN Cardinality(Shared') ELSE 0
          /\ \A x \in Queue(list) : block'[x].last \in {Null, tail}
    BY <1>10, <2>0, <2>1, <2>3, <2>4 DEF ShareInv
  <2>6. /\ \A u \in Thread : pc'[u] = "find" => cur'[u] \in Queue(list)
        /\ \A u \in Thread : pc'[u] \in {"count", "drop"} => cur'[u] = tail
    BY <1>2, <2>0 DEF ShareInv, Others
  <2>. QED  BY <2>2, <2>5, <2>6 DEF ShareInv, Queue
<1>14. WalkInv(pos, list, anchor, tail)'
  <2>1. \A x \in Queue(list) : block'[x].prev = block[x].prev
    BY <1>10 DEF Queue, Garbage, Null
  <2>. QED  BY <1>0, <1>6, <2>1, WalkKept DEF ListInv
<1>15. WakeInv(pos, list)'
  <2>1. \A x \in Thread : list[x] \in Thread => block'[x].prev = block[x].prev
    BY <1>10, PointerAssumption
  <2>. QED  BY <1>0, <1>2, <2>1, WakeKept DEF ListInv
<1>16. ListInv(pos, list, anchor, tail)'
  BY <1>11, <1>12, <1>13, <1>14, <1>15 DEF ListInv
<1>. QED  BY <1>3, <1>4, <1>5, <1>7, <1>16 DEF IInv

LEMMA InitGateKeepsIInv == ASSUME IInv, NEW t \in Thread, InitGate(t) PROVE IInv'
<1>0. TypeOK /\ block[t] \in Block /\ pc[t] = "initgate"
  BY Typed DEF IInv, InitGate
<1>1. /\ block' = [block EXCEPT ![t].gate = "clear"] /\ pc' = [pc EXCEPT ![t] = "test"]
      /\ UNCHANGED <<word, hold, call, old, val, cur>>
  BY DEF InitGate, Goto, locals
<1>2. block'[t] = [block[t] EXCEPT !.gate = "clear"] /\ pc'[t] = "test" /\ Others(t)
  BY <1>0, <1>1, Typed DEF Others
<1>3. /\ block'[t] \in Block /\ block'[t].gate = "clear"
      /\ block'[t].excl = block[t].excl /\ block'[t].last = block[t].last
      /\ block'[t].next = block[t].next /\ block'[t].prev = block[t].prev
      /\ block'[t].share = block[t].share /\ block'[t].signaled = block[t].signaled
      /\ block'[t].wait = block[t].wait
  BY <1>0, <1>2 DEF Block
<1>4. /\ \A x \in Thread \ {t} : block'[x] = block[x]
      /\ block' \in [Thread -> Block]
  BY <1>0, <1>1, <1>2, <1>3, Typed
<1>5. TypeOK'
  BY <1>0, <1>1, <1>4 DEF TypeOK, Pc, WaitPc
<1>6. WaitInv(t)'
  BY <1>2, <1>3 DEF WaitInv
<1>. QED  BY <1>0, <1>1, <1>2, <1>3, <1>4, <1>5, <1>6, WaiterKeepsIInv DEF WaitPc

LEMMA EndWaitKeepsIInv ==
    ASSUME IInv, NEW t \in Thread, EndWait(t), UNCHANGED <<word, hold, locals>>,
           \/ pc[t] = "test" /\ ~block[t].wait
           \/ pc[t] = "asleep" /\ block[t].gate = "signalled"
    PROVE  IInv'
<1>0. TypeOK
  BY DEF IInv
<1>1. /\ block' = [block EXCEPT ![t] = NoBlock] /\ pc' = [pc EXCEPT ![t] = "acquire"]
      /\ UNCHANGED <<word, hold, call, old, val, cur>>
  BY DEF EndWait, Goto, locals
<1>2. pc'[t] = "acquire" /\ Others(t) /\ \A x \in Thread \ {t} : block'[x] = block[x]
  BY <1>0, <1>1, Typed DEF Others
<1>3. NoBlock \in Block
  BY DEF NoBlock, Block, Pointer
<1>4. TypeOK'
  BY <1>0, <1>1, <1>3 DEF TypeOK, Pc
<1>5. WaitInv(t)'
  BY <1>2 DEF WaitInv
<1>. QED  BY <1>1, <1>2, <1>4, <1>5, WaiterKeepsIInv DEF WaitPc

LEMMA TestWaitKeepsIInv == ASSUME IInv, NEW t \in Thread, TestWait(t) PROVE IInv'
<1>0. TypeOK /\ block[t] \in Block /\ pc[t] = "test" /\ UNCHANGED <<word, hold, locals>>
  BY Typed DEF IInv, TestWait
<1>1. CASE ~block[t].wait /\ EndWait(t)
  BY <1>0, <1>1, EndWaitKeepsIInv
<1>2. CASE /\ block[t].wait /\ block' = [block EXCEPT ![t].wait = FALSE] /\ Goto(t, "asleep")
  <2>1. /\ pc' = [pc EXCEPT ![t] = "asleep"] /\ UNCHANGED <<word, hold, call, old, val, cur>>
    BY <1>0, <1>2 DEF Goto, locals
  <2>2. block'[t] = [block[t] EXCEPT !.wait = FALSE] /\ pc'[t] = "asleep" /\ Others(t)
    BY <1>0, <1>2, <2>1, Typed DEF Others
  <2>3. /\ block'[t] \in Block /\ ~block'[t].wait
        /\ block'[t].excl = block[t].excl /\ block'[t].last = block[t].last
        /\ block'[t].next = block[t].next /\ block'[t].prev = block[t].prev
        /\ block'[t].share = block[t].share /\ block'[t].signaled = block[t].signaled
        /\ block'[t].gate = block[t].gate
    BY <1>0, <2>2 DEF Block
  <2>4. /\ \A x \in Thread \ {t} : block'[x] = block[x]
        /\ block' \in [Thread -> Block]
    BY <1>0, <1>2, <2>2, <2>3, Typed
  <2>5. TypeOK'
    BY <1>0, <2>1, <2>4 DEF TypeOK, Pc, WaitPc
  <2>6. block[t].gate = "clear"
    BY <1>0 DEF IInv, WaitInv
  <2>7. WaitInv(t)'
    BY <2>2, <2>3, <2>6 DEF WaitInv
  <2>. QED  BY <1>0, <1>2, <2>1, <2>2, <2>3, <2>4, <2>5, <2>6, <2>7, WaiterKeepsIInv DEF WaitPc
<1>. QED  BY <1>1, <1>2 DEF TestWait

LEMMA WaitForGateKeepsIInv == ASSUME IInv, NEW t \in Thread, WaitForGate(t) PROVE IInv'
BY EndWaitKeepsIInv DEF WaitForGate

-----------------------------------------------------------------------------
(* The owner of Waking, as long as it leaves the queue as it is *)

\* What is true of the owner of Waking, whatever it does.
LEMMA WakerMeans ==
    ASSUME IInv, NEW t \in Wakers
    PROVE  /\ t \in Thread /\ TypeOK /\ Wakers = {t} /\ hold[t] = "none" /\ call[t] # "none"
           /\ {"W", "K"} \subseteq word.bits /\ {"W", "K"} \subseteq val[t].bits
           /\ pc[t] \in WakingPc /\ word.ptr \in Thread
<1>0. TypeOK /\ WakerInv /\ ValueIsPlausible /\ t \in Thread /\ CallInv(t)
  BY DEF IInv, Wakers
<1>1. Wakers = {t} /\ "K" \in word.bits /\ {"W", "K"} \subseteq val[t].bits
  BY <1>0 DEF WakerInv
<1>2. "W" \in word.bits /\ word.ptr \in Thread
  BY <1>0, <1>1, Typed DEF ValueIsPlausible
<1>3. pc[t] \in WakingPc
  BY DEF Wakers
<1>4. hold[t] = "none" /\ call[t] # "none"
  BY <1>0, <1>3 DEF CallInv, WakingPc, WakerPc
<1>. QED  BY <1>0, <1>1, <1>2, <1>3, <1>4

\* A step that links blocks, moves along the list or gives up Waking.
LEMMA WalkKeepsIInv ==
    ASSUME IInv, NEW t \in Wakers, pc[t] # "clear",
           NEW pos \in [Thread -> Int], NEW list \in [Thread -> Pointer],
           NEW anchor \in Thread \cup {Null}, NEW tail \in Thread \cup {Null},
           NEW anchor2 \in Thread \cup {Null},
           ListInv(pos, list, anchor, tail),
           Others(t), hold' = hold, TypeOK', CallInv(t)', WakerInv', InList(t)' <=> InList(t),
           pc'[t] \in (WakingPc \ {"clear"}) \cup {"idle", "initgate"},
           \A b \in {"L", "W", "M"} : b \in word'.bits <=> b \in word.bits,
           "K" \in word'.bits => "K" \in word.bits,
           word'.ptr = word.ptr, word'.shared = word.shared,
           \A x \in Thread :
              /\ block'[x].excl = block[x].excl /\ block'[x].wait = block[x].wait
              /\ block'[x].share = block[x].share /\ block'[x].signaled = block[x].signaled
              /\ block'[x].gate = block[x].gate
              /\ list[x] \in Thread => block'[x].prev = block[x].prev,
           "M" \in word.bits => /\ block'[tail].last = tail
                                /\ \A x \in Queue(list) : block'[x].last \in {Null, tail},
           QueueInv(pos, list, anchor2, tail)', WalkInv(pos, list, anchor2, tail)'
    PROVE  IInv'
<1>0. /\ TypeOK /\ \A u \in Thread : CallInv(u) /\ WaitInv(u)
      /\ ValueIsPlausible /\ OwnerInv /\ ListInv(pos, list, anchor, tail) /\ t \in Thread
  BY DEF IInv, Wakers
<1>1. /\ pc[t] \notin {"clear", "signal", "gate", "unlock", "find", "count", "drop"}
      /\ pc'[t] \notin {"clear", "signal", "gate", "unlock", "find", "count", "drop"}
      /\ pc'[t] \notin {"test", "asleep"} /\ pc[t] # "asleep"
  BY WakerMeans DEF WakingPc
<1>2. \A u \in Thread : CallInv(u)'
  BY <1>0, CallKept
<1>3. \A u \in Thread : WaitInv(u)'
  <2>1. WaitInv(t)'
    BY <1>1 DEF WaitInv
  <2>. QED  BY <1>0, <2>1, WaitKept
<1>4. OwnerInv'
  BY <1>0, <1>1, OwnerKept
<1>a. /\ "L" \in word'.bits <=> "L" \in word.bits
      /\ "W" \in word'.bits <=> "W" \in word.bits
      /\ "M" \in word'.bits <=> "M" \in word.bits
  OBVIOUS
<1>5. ValueIsPlausible'
  <2>1. "W" \in word.bits
    BY WakerMeans
  <2>. QED  BY <1>0, <1>a, <2>1 DEF ValueIsPlausible
<1>6. \A x \in Thread : InList(x)' <=> InList(x)
  BY DEF InList, Others
<1>7. ListedInv(list)'
  <2>. SUFFICES ASSUME NEW x \in Thread, list[x] # Garbage
       PROVE  /\ InList(x)'
              /\ block'[x].wait \/ pc'[x] = "asleep"
              /\ block'[x].gate # "signalled"
              /\ block'[x].signaled <=>
                    list[x] \in Thread /\ pc'[list[x]] = "gate" /\ cur'[list[x]] = x
              /\ block'[x].signaled => pc'[x] = "asleep"
    BY DEF ListedInv
  <2>1. /\ InList(x) /\ (block[x].wait \/ pc[x] = "asleep") /\ block[x].gate # "signalled"
        /\ block[x].signaled <=> list[x] \in Thread /\ pc[list[x]] = "gate" /\ cur[list[x]] = x
        /\ block[x].signaled => pc[x] = "asleep"
    BY <1>0 DEF ListInv, ListedInv
  <2>2. list[x] \in Thread =>
           (pc'[list[x]] = "gate" /\ cur'[list[x]] = x <=> pc[list[x]] = "gate" /\ cur[list[x]] = x)
    BY <1>1 DEF Others
  <2>3. pc[x] = "asleep" => pc'[x] = "asleep"
    BY <1>1 DEF Others
  <2>. QED  BY <1>6, <2>1, <2>2, <2>3
<1>8. ShareInv(list, tail)'
  <2>0. ShareInv(list, tail) /\ QueueInv(pos, list, anchor, tail)
    BY <1>0 DEF ListInv
  <2>1. Shared' = Shared /\ AtUnlock' = AtUnlock
    BY <1>1 DEF Shared, AtUnlock, Others
  <2>2. \A x \in Thread : InList(x)' /\ block'[x].share # 0 => "M" \in word'.bits /\ x = tail
    BY <1>6, <1>a, <2>0 DEF ShareInv
  <2>3. "M" \in word.bits => tail \in Thread
    BY <1>0, <2>0 DEF QueueInv, Queue, ValueIsPlausible
  <2>4. "M" \in word'.bits =>
          /\ block'[tail].excl /\ block'[tail].last = tail
          /\ block'[tail].share = IF AtUnlock' = {} THEN Cardinality(Shared') ELSE 0
          /\ \A x \in Queue(list) : block'[x].last \in {Null, tail}
    BY <1>a, <2>0, <2>1, <2>3 DEF ShareInv
  <2>5. /\ \A u \in Thread : pc'[u] = "find" => cur'[u] \in Queue(list)
        /\ \A u \in Thread : pc'[u] \in {"count", "drop"} => cur'[u] = tail
    BY <1>1, <2>0 DEF ShareInv, Others
  <2>. QED  BY <2>2, <2>4, <2>5 DEF ShareInv, Queue
<1>9. WakeInv(pos, list)'
  BY <1>0, <1>1, WakeKept DEF ListInv
<1>10. ListInv(pos, list, anchor2, tail)'
  BY <1>7, <1>8, <1>9 DEF ListInv
<1>. QED  BY <1>2, <1>3, <1>4, <1>5, <1>10 DEF IInv

\* ExfWakePushLock or ExpOptimizePushLockList is left.
LEMMA WokenMeans ==
    ASSUME TypeOK, NEW t \in Thread, Woken(t), pc[t] \in WakerPc, hold[t] = "none",
           call[t] # "none", hold' = hold, word' \in Word, block' \in [Thread -> Block]
    PROVE  /\ TypeOK' /\ CallInv(t)' /\ Others(t) /\ pc'[t] \in {"idle", "initgate"}
           /\ InList(t)' <=> InList(t)
<1>1. CASE call[t] \in AcquireCalls
  <2>1. /\ pc' = [pc EXCEPT ![t] = "initgate"] /\ val' = [val EXCEPT ![t] = Zero]
        /\ cur' = [cur EXCEPT ![t] = Null] /\ UNCHANGED <<call, old>>
    BY <1>1 DEF Woken, Goto
  <2>2. pc'[t] = "initgate" /\ Others(t) /\ call'[t] = call[t]
    BY <2>1, Typed DEF Others
  <2>3. TypeOK'
    <3>1. pc' \in [Thread -> Pc] /\ val' \in [Thread -> Word] /\ cur' \in [Thread -> Pointer]
      BY <2>1, Typed DEF Pc, WaitPc, Pointer
    <3>. QED  BY <2>1, <3>1 DEF TypeOK
  <2>4. CallInv(t)'
    BY <1>1, <2>1, <2>2 DEF CallInv, OwnerPc, WaitPc, WakerPc, AcquireCalls, ReleaseCalls
  <2>5. InList(t)' <=> InList(t)
    BY <1>1, <2>2 DEF InList, WaitPc
  <2>. QED  BY <2>2, <2>3, <2>4, <2>5
<1>2. CASE call[t] \notin AcquireCalls
  <2>1. /\ pc' = [pc EXCEPT ![t] = "idle"] /\ call' = [call EXCEPT ![t] = "none"]
        /\ old' = [old EXCEPT ![t] = Zero] /\ val' = [val EXCEPT ![t] = Zero]
        /\ cur' = [cur EXCEPT ![t] = Null]
    BY <1>2 DEF Woken, Return, Goto
  <2>2. pc'[t] = "idle" /\ Others(t) /\ call'[t] = "none"
    BY <2>1, Typed DEF Others
  <2>3. TypeOK'
    <3>1. pc' \in [Thread -> Pc] /\ call' \in [Thread -> {"none"} \cup AcquireCalls \cup ReleaseCalls]
      BY <2>1, Typed DEF Pc
    <3>2. old' \in [Thread -> Word] /\ val' \in [Thread -> Word] /\ cur' \in [Thread -> Pointer]
      BY <2>1, Typed DEF Pointer
    <3>. QED  BY <3>1, <3>2 DEF TypeOK
  <2>4. CallInv(t)'
    BY <2>2 DEF CallInv, OwnerPc, WaitPc, WakerPc, AcquireCalls
  <2>5. InList(t)' <=> InList(t)
    BY <1>2, <2>2 DEF InList, AcquireCalls
  <2>. QED  BY <2>2, <2>3, <2>4, <2>5
<1>. QED  BY <1>1, <1>2

LEMMA GiveUpKeepsIInv ==
    ASSUME IInv, NEW t \in Wakers, pc[t] # "clear", Woken(t), word' = Without(word, {"K"}),
           UNCHANGED <<block, hold>>
    PROVE  IInv'
<1>. PICK pos \in [Thread -> Int], list \in [Thread -> Pointer],
          anchor \in Thread \cup {Null}, tail \in Thread \cup {Null} :
             ListInv(pos, list, anchor, tail)
  BY DEF IInv
<1>0. /\ t \in Thread /\ TypeOK /\ Wakers = {t} /\ hold[t] = "none" /\ call[t] # "none"
      /\ pc[t] \in WakingPc
  BY WakerMeans
<1>1. /\ word'.bits = word.bits \ {"K"} /\ word'.ptr = word.ptr /\ word'.shared = word.shared
      /\ word' \in Word
  BY <1>0, Typed, WordsTyped DEF Without, Word, Bit
<1>2. /\ TypeOK' /\ CallInv(t)' /\ Others(t) /\ pc'[t] \in {"idle", "initgate"}
      /\ InList(t)' <=> InList(t)
  <2>1. pc[t] \in WakerPc /\ block' \in [Thread -> Block]
    BY <1>0, Typed DEF WakerPc, WakingPc
  <2>. QED  BY <1>0, <1>1, <2>1, WokenMeans
<1>3. Wakers' = {}
  BY <1>0, <1>2 DEF Wakers, WakingPc, Others
<1>4. WakerInv'
  BY <1>1, <1>3 DEF WakerInv
<1>5. WalkInv(pos, list, anchor, tail)'
  BY <1>3 DEF WalkInv
<1>6. QueueInv(pos, list, anchor, tail)'
  BY <1>1, QueueKept DEF ListInv
<1>7. "M" \in word.bits => /\ block'[tail].last = tail
                           /\ \A x \in Queue(list) : block'[x].last \in {Null, tail}
  BY DEF ListInv, ShareInv
<1>8. \A b \in {"L", "W", "M"} : b \in word'.bits <=> b \in word.bits
  BY <1>1
<1>. QED  BY <1>1, <1>2, <1>4, <1>5, <1>6, <1>7, <1>8, WalkKeepsIInv

\* A walk starts at the newest block.
LEMMA StartWalk ==
    ASSUME NEW pos \in [Thread -> Int], NEW list, NEW anchor, NEW tail,
           QueueInv(pos, list, anchor, tail), "W" \in word.bits
    PROVE  /\ word.ptr \in Queue(list) /\ anchor \in Queue(list) /\ pos[anchor] <= pos[word.ptr]
           /\ pos[word.ptr] <= pos[word.ptr]
           /\ \A x \in Queue(list) :
                 /\ block[x].prev # Null => pos[x] < pos[word.ptr]
                 /\ ~(pos[word.ptr] <= pos[x] /\ pos[x] < pos[word.ptr])
<1>1. /\ word.ptr \in Queue(list) /\ anchor \in Queue(list) /\ pos[anchor] <= pos[word.ptr]
      /\ \A x \in Queue(list) : x \in Thread
  BY DEF QueueInv, Queue
<1>2. ASSUME NEW x \in Queue(list), block[x].prev # Null PROVE pos[x] < pos[word.ptr]
  <2>1. block[x].prev \in Queue(list) /\ pos[block[x].prev] = pos[x] + 1
    BY <1>2 DEF QueueInv
  <2>2. pos[block[x].prev] <= pos[word.ptr]
    BY <2>1 DEF QueueInv
  <2>3. pos[x] \in Int /\ pos[word.ptr] \in Int
    BY <1>1
  <2>. QED  BY <2>1, <2>2, <2>3
<1>3. \A x \in Queue(list) : pos[x] \in Int
  BY <1>1
<1>. QED  BY <1>1, <1>2, <1>3

\* The owner of Waking starts again with a new value of the lock.
LEMMA RestartKeepsIInv ==
    ASSUME IInv, NEW t \in Wakers, pc[t] # "clear", UNCHANGED <<word, block, hold>>,
           val'[t] = word, cur'[t] = word.ptr, call'[t] = call[t], Others(t), TypeOK', CallInv(t)',
           pc'[t] \in {"link", "stop", "walk"}, pc'[t] # "walk" <=> "L" \in word.bits,
           pc'[t] = "stop" => pc[t] \in {"stop", "detach"}
    PROVE  IInv'
<1>. PICK pos \in [Thread -> Int], list \in [Thread -> Pointer],
          anchor \in Thread \cup {Null}, tail \in Thread \cup {Null} :
             ListInv(pos, list, anchor, tail)
  BY DEF IInv
<1>0. /\ t \in Thread /\ TypeOK /\ Wakers = {t} /\ {"W", "K"} \subseteq word.bits
      /\ pc[t] \in WakingPc /\ WakerInv /\ ValueIsPlausible
  BY WakerMeans DEF IInv
<1>1. Wakers' = {t}
  BY <1>0 DEF Wakers, WakingPc, Others
<1>2. WakerInv'
  <2>1. pc'[t] \in {"stop", "walk"} => "M" \notin word.bits
    BY <1>0 DEF WakerInv, ValueIsPlausible
  <2>. QED  BY <1>0, <1>1, <2>1 DEF WakerInv
<1>3. InList(t)' <=> InList(t)
  BY <1>0 DEF InList, WakingPc, WakerPc
<1>4. QueueInv(pos, list, anchor, tail)'
  BY <1>0, QueueKept DEF ListInv
<1>5. WalkInv(pos, list, anchor, tail)'
  <2>1. QueueInv(pos, list, anchor, tail)
    BY DEF ListInv
  <2>2. /\ word.ptr \in Queue(list) /\ anchor \in Queue(list) /\ pos[anchor] <= pos[word.ptr]
        /\ pos[word.ptr] <= pos[word.ptr]
        /\ \A x \in Queue(list) :
              /\ block[x].prev # Null => pos[x] < pos[word.ptr]
              /\ ~(pos[word.ptr] <= pos[x] /\ pos[x] < pos[word.ptr])
    BY <1>0, <2>1, StartWalk
  <2>. QED  BY <1>1, <2>2 DEF WalkInv, Queue
<1>6. "M" \in word.bits => /\ block'[tail].last = tail
                           /\ \A x \in Queue(list) : block'[x].last \in {Null, tail}
  BY DEF ListInv, ShareInv
<1>7. pc'[t] \in (WakingPc \ {"clear"}) \cup {"idle", "initgate"}
  BY DEF WakingPc
<1>. QED  BY <1>2, <1>3, <1>4, <1>5, <1>6, <1>7, WalkKeepsIInv

\* ExfWakePushLock goes on with the value the lock has now.
LEMMA AnewKeepsIInv ==
    ASSUME IInv, NEW t \in Wakers, WakeWith(t, word), UNCHANGED <<word, block, hold>>,
           pc[t] \in {"stop", "detach"} \/ (pc[t] # "clear" /\ "L" \notin word.bits)
    PROVE  IInv'
<1>0. /\ t \in Thread /\ TypeOK /\ word \in Word /\ hold[t] = "none" /\ call[t] # "none"
  BY WakerMeans, Typed
<1>1. /\ TypeOK' /\ CallInv(t)' /\ Others(t) /\ val'[t] = word /\ cur'[t] = word.ptr
      /\ pc'[t] = IF "L" \in word.bits THEN "stop" ELSE "walk"
      /\ call' = call /\ old' = old
  BY <1>0, WakeWithMeans
<1>. QED  BY <1>1, RestartKeepsIInv

LEMMA LinkedKeepsIInv == ASSUME IInv, NEW t \in Thread, Linked(t) PROVE IInv'
<1>0. TypeOK /\ pc[t] = "linked" /\ t \in Wakers /\ UNCHANGED <<block, hold>>
  BY DEF IInv, Linked, Wakers, WakingPc
<1>1. CASE word = val[t] /\ word' = Without(val[t], {"K"}) /\ Woken(t)
  BY <1>0, <1>1, GiveUpKeepsIInv
<1>2. CASE "L" \notin word.bits /\ WakeWith(t, word) /\ UNCHANGED word
  BY <1>0, <1>2, AnewKeepsIInv
<1>3. CASE /\ "L" \in word.bits /\ val' = [val EXCEPT ![t] = word]
           /\ cur' = [cur EXCEPT ![t] = word.ptr] /\ Goto(t, "link")
           /\ UNCHANGED <<word, call, old>>
  <2>1. pc' = [pc EXCEPT ![t] = "link"]
    BY <1>3 DEF Goto
  <2>2. pc'[t] = "link" /\ val'[t] = word /\ cur'[t] = word.ptr /\ Others(t)
    BY <1>0, <1>3, <2>1, Typed DEF Others
  <2>3. TypeOK'
    <3>1. pc' \in [Thread -> Pc] /\ val' \in [Thread -> Word] /\ cur' \in [Thread -> Pointer]
      BY <1>0, <1>3, <2>1, Typed DEF Pc, WakerPc, Pointer
    <3>. QED  BY <1>0, <1>3, <3>1 DEF TypeOK
  <2>4. CallInv(t)'
    BY <1>0, <1>3, <2>2, WakerMeans DEF CallInv, OwnerPc, WaitPc, WakerPc
  <2>. QED  BY <1>0, <1>3, <2>2, <2>3, <2>4, RestartKeepsIInv
<1>. QED  BY <1>1, <1>2, <1>3 DEF Linked

LEMMA StopWakingKeepsIInv == ASSUME IInv, NEW t \in Thread, StopWaking(t) PROVE IInv'
<1>0. pc[t] = "stop" /\ t \in Wakers /\ UNCHANGED <<block, hold>>
  BY DEF StopWaking, Wakers, WakingPc
<1>1. CASE word = val[t] /\ word' = Without(val[t], {"K"}) /\ Woken(t)
  BY <1>0, <1>1, GiveUpKeepsIInv
<1>2. CASE WakeWith(t, word) /\ UNCHANGED word
  BY <1>0, <1>2, AnewKeepsIInv
<1>. QED  BY <1>1, <1>2 DEF StopWaking

\* Either walk takes a step to the next older block, and links it backwards.
LEMMA BackKeepsIInv ==
    ASSUME IInv, NEW t \in Thread, pc[t] \in {"link", "walk"}, block[cur[t]].last = Null,
           block' = [block EXCEPT ![block[cur[t]].next].prev = cur[t]],
           cur' = [cur EXCEPT ![t] = block[cur[t]].next],
           UNCHANGED <<word, hold, call, old, val, pc>>
    PROVE  IInv'
<1>. PICK pos \in [Thread -> Int], list \in [Thread -> Pointer],
          anchor \in Thread \cup {Null}, tail \in Thread \cup {Null} :
             ListInv(pos, list, anchor, tail)
  BY DEF IInv
<1>w. t \in Wakers
  BY DEF Wakers, WakingPc
<1>0. /\ TypeOK /\ Wakers = {t} /\ {"W", "K"} \subseteq word.bits /\ WakerInv /\ CallInv(t)
      /\ QueueInv(pos, list, anchor, tail) /\ WalkInv(pos, list, anchor, tail)
      /\ ShareInv(list, tail)
  BY <1>w, WakerMeans DEF IInv, ListInv
<1>. DEFINE Q == Queue(list)
<1>1. PICK c \in Thread, n \in Pointer, v \in Thread \cup {Null} :
         c = cur[t] /\ n = block[c].next /\ v = val[t].ptr
  <2>1. cur[t] \in Thread
    BY <1>0 DEF WalkInv, Queue
  <2>2. block[cur[t]].next \in Pointer /\ val[t].ptr \in Thread \cup {Null}
    BY <1>0, <2>1, Typed DEF Block, Word
  <2>. QED  BY <2>1, <2>2
<1>2. /\ {c, v, anchor, tail} \subseteq Q /\ Q \subseteq Thread
      /\ pos[anchor] <= pos[c] /\ pos[c] <= pos[v] /\ pos[tail] <= pos[anchor]
      /\ \A x \in Q : pos[x] \in Int
  BY <1>0, <1>1 DEF WalkInv, QueueInv, Queue
<1>3. c # anchor /\ c # tail /\ pos[anchor] < pos[c]
  <2>1. c # anchor
    BY <1>0, <1>1, <1>2, PointerAssumption DEF QueueInv
  <2>2. pos[anchor] # pos[c]
    BY <1>0, <1>2, <2>1 DEF QueueInv
  <2>. QED  BY <1>2, <2>1, <2>2
<1>4. n \in Q /\ n \in Thread /\ pos[n] = pos[c] - 1 /\ n # c
  <2>1. n \in Q /\ pos[n] = pos[c] - 1
    BY <1>0, <1>1, <1>2, <1>3 DEF QueueInv
  <2>2. n # c
    BY <1>2, <2>1
  <2>. QED  BY <1>2, <2>1, <2>2
<1>5. /\ block' = [block EXCEPT ![n].prev = c] /\ cur' = [cur EXCEPT ![t] = n]
      /\ cur'[t] = n /\ Others(t)
  BY <1>0, <1>1, Typed DEF Others
<1>6. /\ block' \in [Thread -> Block] /\ block'[n].prev = c
      /\ \A x \in Thread :
            /\ block'[x].excl = block[x].excl /\ block'[x].wait = block[x].wait
            /\ block'[x].share = block[x].share /\ block'[x].signaled = block[x].signaled
            /\ block'[x].gate = block[x].gate
            /\ block'[x].last = block[x].last /\ block'[x].next = block[x].next
            /\ x # n => block'[x].prev = block[x].prev
  <2>1. block[n] \in Block /\ c \in Pointer
    BY <1>0, <1>4, Typed DEF Pointer
  <2>2. block'[n] = [block[n] EXCEPT !.prev = c]
    BY <1>0, <1>4, <1>5, Typed
  <2>3. block'[n] \in Block /\ block'[n].prev = c
    BY <2>1, <2>2 DEF Block
  <2>4. \A x \in Thread \ {n} : block'[x] = block[x]
    BY <1>0, <1>4, <1>5, Typed
  <2>5. /\ block'[n].excl = block[n].excl /\ block'[n].wait = block[n].wait
        /\ block'[n].share = block[n].share /\ block'[n].signaled = block[n].signaled
        /\ block'[n].gate = block[n].gate
        /\ block'[n].last = block[n].last /\ block'[n].next = block[n].next
    BY <2>1, <2>2 DEF Block
  <2>6. block' \in [Thread -> Block]
    BY <1>0, <1>4, <1>5, <2>2, <2>3, Typed
  <2>. QED  BY <2>3, <2>4, <2>5, <2>6
<1>7. TypeOK'
  <2>1. cur' \in [Thread -> Pointer]
    BY <1>0, <1>5, Typed
  <2>. QED  BY <1>0, <1>6, <2>1 DEF TypeOK
<1>8. CallInv(t)' /\ Wakers' = {t} /\ (InList(t)' <=> InList(t))
  <2>1. CallInv(t)'
    BY <1>0 DEF CallInv
  <2>. QED  BY <1>0, <2>1 DEF Wakers, InList
<1>9. WakerInv'
  BY <1>0, <1>8 DEF WakerInv
<1>10. QueueInv(pos, list, anchor, tail)'
  <2>1. Queue(list)' = Q
    BY DEF Queue
  <2>2. block'[anchor].last = tail
    BY <1>0, <1>2, <1>6 DEF QueueInv
  <2>3. ASSUME NEW x \in Q PROVE
          /\ pos[tail] <= pos[x] /\ pos[x] <= pos[word.ptr]
          /\ x # tail => block'[x].next \in Q /\ pos[block'[x].next] = pos[x] - 1
          /\ pos[x] > pos[anchor] => block'[x].last = Null
    <3>1. block'[x].next = block[x].next /\ block'[x].last = block[x].last
      BY <1>0, <1>6
    <3>2. /\ pos[tail] <= pos[x] /\ pos[x] <= pos[word.ptr]
          /\ x # tail => block[x].next \in Q /\ pos[block[x].next] = pos[x] - 1
          /\ pos[x] > pos[anchor] => block[x].last = Null
      BY <1>0 DEF QueueInv
    <3>. QED  BY <3>1, <3>2
  <2>4. ASSUME NEW x \in Q PROVE
          /\ block'[x].prev # Null => /\ block'[x].prev \in Q
                                     /\ pos[block'[x].prev] = pos[x] + 1
          /\ pos[x] < pos[anchor] => block'[x].prev # Null
    <3>1. CASE x = n
      BY <1>2, <1>4, <1>6, <3>1, PointerAssumption, SMTT(30)
    <3>2. CASE x # n
      BY <1>0, <1>2, <1>6, <3>2, SMTT(30) DEF QueueInv
    <3>. QED  BY <3>1, <3>2
  <2>5. /\ "W" \in word.bits <=> Q # {}
        /\ {word.ptr, anchor, tail} \subseteq Q
        /\ \A x, y \in Q : pos[x] = pos[y] => x = y
    BY <1>0 DEF QueueInv
  <2>. QED  BY <2>1, <2>2, <2>3, <2>4, <2>5 DEF QueueInv
<1>11. WalkInv(pos, list, anchor, tail)'
  <2>1. v \in Q /\ \A x \in Q : block[x].prev # Null => pos[x] < pos[v]
    BY <1>0, <1>1 DEF WalkInv
  <2>2. \A x \in Q : pos[c] <= pos[x] /\ pos[x] < pos[v] => block[x].prev # Null
    BY <1>0, <1>1 DEF WalkInv
  <2>3. \A x \in Q : block'[x].prev # Null => pos[x] < pos[v]
    BY <1>2, <1>4, <1>6, <2>1, SMTT(30)
  <2>4. \A x \in Q : pos[n] <= pos[x] /\ pos[x] < pos[v] => block'[x].prev # Null
    <3>. SUFFICES ASSUME NEW x \in Q, pos[n] <= pos[x], pos[x] < pos[v]
         PROVE  block'[x].prev # Null
      OBVIOUS
    <3>1. CASE x = n
      BY <1>6, <3>1, PointerAssumption
    <3>2. CASE x # n
      <4>1. pos[x] # pos[n]
        BY <1>0, <1>4, <3>2 DEF QueueInv
      <4>2. pos[c] <= pos[x]
        BY <1>2, <1>4, <4>1
      <4>. QED  BY <1>2, <1>6, <2>2, <3>2, <4>2, SMTT(30)
    <3>. QED  BY <3>1, <3>2
  <2>5. pos[anchor] <= pos[n] /\ pos[n] <= pos[v]
    BY <1>2, <1>3, <1>4
  <2>6. pc'[t] \in {"link", "walk"} /\ val'[t].ptr = v /\ Queue(list)' = Q
    BY <1>1 DEF Queue
  <2>. QED  BY <1>4, <1>5, <1>8, <2>1, <2>3, <2>4, <2>5, <2>6 DEF WalkInv
<1>12. "M" \in word.bits => /\ block'[tail].last = tail
                            /\ \A x \in Q : block'[x].last \in {Null, tail}
  BY <1>0, <1>2, <1>6 DEF ShareInv
<1>13. \A x \in Thread : list[x] \in Thread => block'[x].prev = block[x].prev
  BY <1>4, <1>6, PointerAssumption DEF Queue
<1>14. pc'[t] \in (WakingPc \ {"clear"}) \cup {"idle", "initgate"}
  BY DEF WakingPc
<1>15. pc[t] # "clear" /\ hold' = hold /\ word' = word
  OBVIOUS
<1>16. \A x \in Thread :
          /\ block'[x].excl = block[x].excl /\ block'[x].wait = block[x].wait
          /\ block'[x].share = block[x].share /\ block'[x].signaled = block[x].signaled
          /\ block'[x].gate = block[x].gate
          /\ list[x] \in Thread => block'[x].prev = block[x].prev
  BY <1>6, <1>13
<1>. QED  BY <1>w, <1>5, <1>7, <1>8, <1>9, <1>10, <1>11, <1>12, <1>14, <1>15, <1>16, WalkKeepsIInv

\* Either walk has come to the block that knows the tail.
LEMMA AnchorFound ==
    ASSUME IInv, NEW t \in Thread, pc[t] \in {"link", "walk"}, block[cur[t]].last # Null,
           NEW pos \in [Thread -> Int], NEW list \in [Thread -> Pointer],
           NEW anchor \in Thread \cup {Null}, NEW tail \in Thread \cup {Null},
           ListInv(pos, list, anchor, tail)
    PROVE  /\ cur[t] = anchor /\ block[cur[t]].last = tail
           /\ {anchor, tail, val[t].ptr} \subseteq Queue(list) /\ pos[anchor] <= pos[val[t].ptr]
           /\ \A x \in Queue(list) : pos[x] < pos[val[t].ptr] => block[x].prev # Null
<1>w. t \in Wakers
  BY DEF Wakers, WakingPc
<1>0. /\ QueueInv(pos, list, anchor, tail) /\ WalkInv(pos, list, anchor, tail)
      /\ "W" \in word.bits
  BY <1>w, WakerMeans DEF ListInv
<1>1. /\ cur[t] \in Queue(list) /\ pos[anchor] <= pos[cur[t]] /\ pos[cur[t]] <= pos[val[t].ptr]
      /\ {anchor, tail, val[t].ptr} \subseteq Queue(list) /\ block[anchor].last = tail
      /\ \A x \in Queue(list) : x \in Thread /\ pos[x] \in Int
  BY <1>0, <1>w DEF WalkInv, QueueInv, Queue
<1>2. cur[t] = anchor
  <2>1. ~(pos[cur[t]] > pos[anchor])
    BY <1>0, <1>1 DEF QueueInv
  <2>2. pos[cur[t]] = pos[anchor]
    BY <1>1, <2>1
  <2>. QED  BY <1>0, <1>1, <2>2 DEF QueueInv
<1>3. ASSUME NEW x \in Queue(list), pos[x] < pos[val[t].ptr] PROVE block[x].prev # Null
  <2>1. CASE pos[anchor] <= pos[x]
    BY <1>0, <1>w, <1>2, <1>3, <2>1 DEF WalkInv
  <2>2. CASE pos[x] < pos[anchor]
    BY <1>0, <2>2 DEF QueueInv
  <2>. QED  BY <1>1, <2>1, <2>2
<1>. QED  BY <1>1, <1>2, <1>3

LEMMA LinkKeepsIInv == ASSUME IInv, NEW t \in Thread, Link(t) PROVE IInv'
<1>. PICK pos \in [Thread -> Int], list \in [Thread -> Pointer],
          anchor \in Thread \cup {Null}, tail \in Thread \cup {Null} :
             ListInv(pos, list, anchor, tail)
  BY DEF IInv
<1>w. t \in Wakers /\ pc[t] = "link"
  BY DEF Wakers, WakingPc, Link
<1>0. /\ TypeOK /\ Wakers = {t} /\ {"W", "K"} \subseteq word.bits /\ WakerInv /\ CallInv(t)
      /\ QueueInv(pos, list, anchor, tail) /\ WalkInv(pos, list, anchor, tail)
      /\ ShareInv(list, tail)
  BY <1>w, WakerMeans DEF IInv, ListInv
<1>. DEFINE Q == Queue(list)
<1>1. CASE block[cur[t]].last = Null
  BY <1>w, <1>1, BackKeepsIInv DEF Link
<1>2. CASE block[cur[t]].last # Null
  <2>1. PICK v \in Thread \cup {Null} : v = val[t].ptr
    BY <1>0, Typed DEF Word
  <2>2. /\ {anchor, tail, v} \subseteq Q /\ Q \subseteq Thread /\ block[cur[t]].last = tail
        /\ pos[anchor] <= pos[v] /\ \A x \in Q : pos[x] < pos[v] => block[x].prev # Null
        /\ \A x \in Q : pos[x] \in Int
    BY <1>w, <1>2, <2>1, AnchorFound DEF Queue
  <2>3. /\ block' = [block EXCEPT ![v].last = tail] /\ pc' = [pc EXCEPT ![t] = "linked"]
        /\ UNCHANGED <<word, hold, call, old, val, cur>>
    BY <1>2, <2>1, <2>2 DEF Link, Goto
  <2>4. pc'[t] = "linked" /\ Others(t)
    BY <1>0, <2>3, Typed DEF Others
  <2>5. /\ block' \in [Thread -> Block] /\ block'[v].last = tail
        /\ \A x \in Thread :
              /\ block'[x].excl = block[x].excl /\ block'[x].wait = block[x].wait
              /\ block'[x].share = block[x].share /\ block'[x].signaled = block[x].signaled
              /\ block'[x].gate = block[x].gate
              /\ block'[x].prev = block[x].prev /\ block'[x].next = block[x].next
              /\ x # v => block'[x].last = block[x].last
    <3>1. v \in Thread /\ block[v] \in Block /\ tail \in Pointer
      BY <1>0, <2>2, Typed DEF Pointer
    <3>2. block'[v] = [block[v] EXCEPT !.last = tail]
      BY <1>0, <2>3, <3>1, Typed
    <3>3. block'[v] \in Block /\ block'[v].last = tail
      BY <3>1, <3>2 DEF Block
    <3>4. \A x \in Thread \ {v} : block'[x] = block[x]
      BY <1>0, <2>3, <3>1, Typed
    <3>5. /\ block'[v].excl = block[v].excl /\ block'[v].wait = block[v].wait
          /\ block'[v].share = block[v].share /\ block'[v].signaled = block[v].signaled
          /\ block'[v].gate = block[v].gate
          /\ block'[v].prev = block[v].prev /\ block'[v].next = block[v].next
      BY <3>1, <3>2 DEF Block
    <3>6. block' \in [Thread -> Block]
      BY <1>0, <2>3, <3>1, <3>2, <3>3, Typed
    <3>. QED  BY <3>3, <3>4, <3>5, <3>6
  <2>6. TypeOK'
    BY <1>0, <2>3, <2>5 DEF TypeOK, Pc, WakerPc
  <2>7. CallInv(t)' /\ Wakers' = {t} /\ (InList(t)' <=> InList(t))
    <3>1. CallInv(t)'
      BY <1>0, <1>w, <2>3, <2>4 DEF CallInv, OwnerPc, WaitPc, WakerPc
    <3>2. Wakers' = {t}
      BY <1>0, <2>4 DEF Wakers, WakingPc, Others
    <3>. QED  BY <1>w, <2>3, <2>4, <3>1, <3>2 DEF InList, WakerPc
  <2>8. WakerInv'
    BY <1>0, <1>w, <2>3, <2>4, <2>7 DEF WakerInv
  <2>9. QueueInv(pos, list, v, tail)'
    <3>1. Queue(list)' = Q
      BY DEF Queue
    <3>2. ASSUME NEW x \in Q PROVE
          /\ pos[tail] <= pos[x] /\ pos[x] <= pos[word.ptr]
          /\ x # tail => block'[x].next \in Q /\ pos[block'[x].next] = pos[x] - 1
          /\ block'[x].prev # Null => /\ block'[x].prev \in Q
                                     /\ pos[block'[x].prev] = pos[x] + 1
          /\ pos[x] < pos[v] => block'[x].prev # Null
      BY <1>0, <2>2, <2>5 DEF QueueInv
    <3>3. ASSUME NEW x \in Q, pos[x] > pos[v] PROVE block'[x].last = Null
      <4>1. pos[x] > pos[anchor] /\ x # v
        BY <2>2, <3>3
      <4>. QED  BY <1>0, <2>2, <2>5, <4>1 DEF QueueInv
    <3>4. /\ "W" \in word.bits <=> Q # {}
          /\ {word.ptr, v, tail} \subseteq Q
          /\ \A x, y \in Q : pos[x] = pos[y] => x = y
      BY <1>0, <2>2 DEF QueueInv
    <3>. QED  BY <2>3, <2>5, <3>1, <3>2, <3>3, <3>4 DEF QueueInv
  <2>10. WalkInv(pos, list, v, tail)'
    <3>1. \A x \in Q : block[x].prev # Null => pos[x] < pos[v]
      BY <1>0, <1>w, <2>1 DEF WalkInv
    <3>2. \A x \in Q : block'[x].prev # Null => pos[x] < pos[v]
      BY <2>2, <2>5, <3>1
    <3>3. val'[t].ptr = v /\ Queue(list)' = Q
      BY <2>1, <2>3 DEF Queue
    <3>. QED  BY <2>2, <2>4, <2>7, <3>2, <3>3 DEF WalkInv
  <2>11. "M" \in word.bits => /\ block'[tail].last = tail
                              /\ \A x \in Q : block'[x].last \in {Null, tail}
    BY <1>0, <2>2, <2>5 DEF ShareInv
  <2>12. pc'[t] \in (WakingPc \ {"clear"}) \cup {"idle", "initgate"}
    BY <2>4 DEF WakingPc
  <2>. QED  BY <1>w, <2>3, <2>4, <2>5, <2>6, <2>7, <2>8, <2>9, <2>10, <2>11, <2>12, WalkKeepsIInv
<1>. QED  BY <1>1, <1>2

LEMMA WalkStepKeepsIInv == ASSUME IInv, NEW t \in Thread, Walk(t) PROVE IInv'
<1>. PICK pos \in [Thread -> Int], list \in [Thread -> Pointer],
          anchor \in Thread \cup {Null}, tail \in Thread \cup {Null} :
             ListInv(pos, list, anchor, tail)
  BY DEF IInv
<1>w. t \in Wakers /\ pc[t] = "walk"
  BY DEF Wakers, WakingPc, Walk
<1>0. /\ TypeOK /\ Wakers = {t} /\ {"W", "K"} \subseteq word.bits /\ WakerInv /\ CallInv(t)
      /\ QueueInv(pos, list, anchor, tail) /\ WalkInv(pos, list, anchor, tail)
      /\ ShareInv(list, tail)
  BY <1>w, WakerMeans DEF IInv, ListInv
<1>1. CASE block[cur[t]].last = Null
  BY <1>w, <1>1, BackKeepsIInv DEF Walk
<1>2. CASE block[cur[t]].last # Null
  <2>1. /\ block[cur[t]].last = tail /\ tail \in Thread
        /\ \A x \in Queue(list) : pos[x] < pos[val[t].ptr] => block[x].prev # Null
    <3>1. /\ block[cur[t]].last = tail /\ tail \in Queue(list)
          /\ \A x \in Queue(list) : pos[x] < pos[val[t].ptr] => block[x].prev # Null
      BY <1>w, <1>2, AnchorFound
    <3>. QED  BY <3>1 DEF Queue
  <2>2. /\ pc' = [pc EXCEPT ![t] = "detach"] /\ cur' = [cur EXCEPT ![t] = tail]
        /\ UNCHANGED <<word, block, hold, call, old, val>>
    BY <1>2, <2>1 DEF Walk, Goto
  <2>3. pc'[t] = "detach" /\ cur'[t] = tail /\ Others(t)
    BY <1>0, <2>2, Typed DEF Others
  <2>4. TypeOK'
    BY <1>0, <2>1, <2>2, Typed DEF TypeOK, Pc, WakerPc, Pointer
  <2>5. CallInv(t)' /\ Wakers' = {t} /\ (InList(t)' <=> InList(t))
    <3>1. CallInv(t)'
      BY <1>0, <1>w, <2>2, <2>3 DEF CallInv, OwnerPc, WaitPc, WakerPc
    <3>2. Wakers' = {t}
      BY <1>0, <2>3 DEF Wakers, WakingPc, Others
    <3>. QED  BY <1>w, <2>2, <2>3, <3>1, <3>2 DEF InList, WakerPc
  <2>6. WakerInv'
    BY <1>0, <1>w, <2>2, <2>3, <2>5 DEF WakerInv
  <2>7. QueueInv(pos, list, anchor, tail)'
    BY <1>0, <2>2, QueueKept
  <2>8. WalkInv(pos, list, anchor, tail)'
    <3>1. /\ val[t].ptr \in Queue(list)
          /\ \A x \in Queue(list) : block[x].prev # Null => pos[x] < pos[val[t].ptr]
      BY <1>0, <1>w DEF WalkInv
    <3>. QED  BY <2>1, <2>2, <2>3, <2>5, <3>1 DEF WalkInv, Queue
  <2>9. "M" \in word.bits => /\ block'[tail].last = tail
                             /\ \A x \in Queue(list) : block'[x].last \in {Null, tail}
    BY <1>0, <2>2 DEF ShareInv
  <2>10. pc'[t] \in (WakingPc \ {"clear"}) \cup {"idle", "initgate"}
    BY <2>3 DEF WakingPc
  <2>. QED  BY <1>w, <2>2, <2>3, <2>4, <2>5, <2>6, <2>7, <2>8, <2>9, <2>10, WalkKeepsIInv
<1>. QED  BY <1>1, <1>2

-----------------------------------------------------------------------------
(* The owner of Waking takes waiters off the queue *)

\* The whole queue becomes the list of the waker.
LEMMA DetachAllKeepsIInv == ASSUME IInv, NEW t \in Thread, DetachAll(t) PROVE IInv'
<1>. PICK pos \in [Thread -> Int], list \in [Thread -> Pointer],
          anchor \in Thread \cup {Null}, tail \in Thread \cup {Null} :
             ListInv(pos, list, anchor, tail)
  BY DEF IInv
<1>w. t \in Wakers /\ pc[t] = "detach" /\ UNCHANGED <<block, hold>>
  BY DEF Wakers, WakingPc, DetachAll
<1>0. /\ TypeOK /\ Wakers = {t} /\ {"W", "K"} \subseteq word.bits /\ WakerInv
      /\ \A u \in Thread : CallInv(u) /\ WaitInv(u)
      /\ OwnerInv /\ ListedInv(list) /\ QueueInv(pos, list, anchor, tail)
      /\ WalkInv(pos, list, anchor, tail) /\ ShareInv(list, tail) /\ WakeInv(pos, list)
  BY <1>w, WakerMeans DEF IInv, ListInv
<1>1. CASE WakeWith(t, word) /\ UNCHANGED word
  BY <1>w, <1>1, AnewKeepsIInv
<1>2. CASE word = val[t] /\ word' = Zero /\ Goto(t, "signal") /\ UNCHANGED locals
  <2>1. /\ pc' = [pc EXCEPT ![t] = "signal"] /\ UNCHANGED <<block, hold, call, old, val, cur>>
        /\ word'.bits = {} /\ word'.shared = 0 /\ word'.ptr = Null
    BY <1>w, <1>2 DEF Goto, locals, Zero
  <2>2. pc'[t] = "signal" /\ Others(t) /\ cur'[t] = cur[t]
    BY <1>0, <2>1, Typed DEF Others
  <2>3. TypeOK'
    BY <1>0, <1>2, <2>1, Typed DEF TypeOK, Pc, WakerPc
  <2>4. \A u \in Thread : CallInv(u)' /\ WaitInv(u)'
    <3>1. CallInv(t)'
      BY <1>0, <1>w, <2>1, <2>2 DEF CallInv, OwnerPc, WaitPc, WakerPc
    <3>2. WaitInv(t)'
      BY <2>2 DEF WaitInv
    <3>3. \A u \in Thread : CallInv(u)'
      BY <1>0, <2>2, <3>1, CallKept
    <3>4. \A u \in Thread : WaitInv(u)'
      BY <1>0, <2>1, <2>2, <3>2, WaitKept
    <3>. QED  BY <3>3, <3>4
  <2>5. "L" \notin word.bits /\ "M" \notin word.bits /\ Shared = {} /\ Exclusive = {}
    <3>1. "L" \notin word.bits /\ "M" \notin word.bits
      BY <1>0, <1>w, <1>2 DEF WakerInv
    <3>. QED  BY <1>0, <3>1 DEF OwnerInv
  <2>6. \A u \in Thread : pc'[u] \notin {"find", "count", "drop", "unlock"}
    <3>1. \A u \in Thread : hold[u] = "none"
      BY <1>0, <2>5, Typed DEF Shared, Exclusive
    <3>2. \A u \in Thread : pc[u] \notin {"find", "count", "drop", "unlock"}
      BY <1>0, <3>1 DEF CallInv, OwnerPc
    <3>. QED  BY <2>2, <3>2 DEF Others
  <2>7. OwnerInv' /\ ValueIsPlausible'
    <3>1. Shared' = {} /\ Exclusive' = {} /\ Cardinality({}) = 0
      BY <2>1, <2>5, FS_EmptySet DEF Shared, Exclusive
    <3>2. OwnerInv'
      BY <2>1, <2>6, <3>1 DEF OwnerInv
    <3>. QED  BY <1>2, <2>1, <3>2 DEF ValueIsPlausible
  <2>8. Wakers' = {} /\ WakerInv'
    <3>1. Wakers' = {}
      BY <1>0, <2>2 DEF Wakers, WakingPc, Others
    <3>. QED  BY <2>1, <3>1 DEF WakerInv
  <2>9. PICK c \in Thread, list2 \in [Thread -> Pointer] :
           /\ c = tail /\ c = cur[t] /\ list2[c] = t
           /\ \A x \in Thread : list2[x] = IF list[x] = Null THEN t ELSE list[x]
    <3>. DEFINE list2 == [x \in Thread |-> IF list[x] = Null THEN t ELSE list[x]]
    <3>1. list2 \in [Thread -> Pointer]
      BY DEF Pointer
    <3>2. cur[t] = tail /\ tail \in Thread /\ list[tail] = Null
      BY <1>0, <1>w DEF WalkInv, QueueInv, Queue
    <3>. QED  BY <3>1, <3>2
  <2>10. \A x \in Thread : list[x] # t
    BY <1>0, <1>w DEF WakeInv
  <2>11. \A x \in Thread : list2[x] = t <=> x \in Queue(list)
    BY <2>9, <2>10 DEF Queue
  <2>12. \A x \in Thread : InList(x)' <=> InList(x)
    BY <1>w, <2>1, <2>2 DEF InList, WakerPc, Others
  <2>13. ListedInv(list2)'
    <3>. SUFFICES ASSUME NEW x \in Thread, list2[x] # Garbage
       PROVE  /\ InList(x)'
              /\ block'[x].wait \/ pc'[x] = "asleep"
              /\ block'[x].gate # "signalled"
              /\ block'[x].signaled <=>
                    list2[x] \in Thread /\ pc'[list2[x]] = "gate" /\ cur'[list2[x]] = x
              /\ block'[x].signaled => pc'[x] = "asleep"
      BY DEF ListedInv
    <3>1. list[x] # Garbage
      BY <2>9 DEF Null, Garbage
    <3>2. /\ InList(x) /\ (block[x].wait \/ pc[x] = "asleep") /\ block[x].gate # "signalled"
          /\ block[x].signaled <=> list[x] \in Thread /\ pc[list[x]] = "gate" /\ cur[list[x]] = x
          /\ block[x].signaled => pc[x] = "asleep"
      BY <1>0, <3>1 DEF ListedInv
    <3>3. pc[x] = "asleep" => pc'[x] = "asleep"
      BY <1>w, <2>2 DEF Others
    <3>4. CASE list[x] = Null
      <4>1. ~block[x].signaled
        BY <3>2, <3>4, PointerAssumption
      <4>2. list2[x] = t /\ pc'[t] # "gate"
        BY <2>2, <2>9, <3>4
      <4>. QED  BY <2>1, <2>12, <3>2, <3>3, <4>1, <4>2
    <3>5. CASE list[x] # Null
      <4>1. list2[x] = list[x] /\ list[x] # t
        BY <2>9, <2>10, <3>5
      <4>2. list[x] \in Thread => pc'[list[x]] = pc[list[x]] /\ cur'[list[x]] = cur[list[x]]
        BY <2>2, <4>1 DEF Others
      <4>. QED  BY <2>1, <2>12, <3>2, <3>3, <4>1, <4>2
    <3>. QED  BY <3>4, <3>5
  <2>14. QueueInv(pos, list2, anchor, tail)'
    <3>1. Queue(list2)' = {}
      BY <2>9, PointerAssumption DEF Queue
    <3>. QED  BY <2>1, <3>1 DEF QueueInv
  <2>15. ShareInv(list2, tail)'
    <3>1. \A x \in Thread : InList(x)' => block'[x].share = 0
      BY <1>0, <2>1, <2>5, <2>12 DEF ShareInv
    <3>. QED  BY <2>1, <2>6, <3>1 DEF ShareInv
  <2>16. WalkInv(pos, list2, anchor, tail)'
    BY <2>8 DEF WalkInv
  <2>17. WakeInv(pos, list2)'
    <3>. SUFFICES ASSUME NEW u \in Thread PROVE
        /\ pc'[u] \in {"clear", "signal", "gate"} => list2[cur'[u]] = u /\ cur'[u] \in Thread
        /\ pc'[u] = "clear" => block'[cur'[u]].prev = Null
        /\ \A x \in Thread : list2[x] = u =>
              /\ pc'[u] \in {"clear", "signal", "gate"}
              /\ pos[cur'[u]] <= pos[x]
              /\ block'[x].prev # Null => /\ block'[x].prev \in Thread
                                          /\ list2[block'[x].prev] = u
                                          /\ pos[block'[x].prev] = pos[x] + 1
        /\ \A x, y \in Thread : list2[x] = u /\ list2[y] = u /\ pos[x] = pos[y] => x = y
      BY DEF WakeInv
    <3>1. CASE u = t
      <4>1. \A x \in Queue(list) :
              /\ pos[c] <= pos[x]
              /\ block[x].prev # Null => /\ block[x].prev \in Queue(list)
                                         /\ pos[block[x].prev] = pos[x] + 1
        BY <1>0, <2>9 DEF QueueInv
      <4>2. \A x, y \in Queue(list) : pos[x] = pos[y] => x = y
        BY <1>0 DEF QueueInv
      <4>3. \A x \in Queue(list) : x \in Thread
        BY DEF Queue
      <4>. QED  BY <2>1, <2>2, <2>9, <2>11, <3>1, <4>1, <4>2, <4>3
    <3>2. CASE u # t
      <4>1. pc'[u] = pc[u] /\ cur'[u] = cur[u]
        BY <2>2, <3>2 DEF Others
      <4>2. \A x \in Thread : list2[x] = u <=> list[x] = u
        BY <2>9, <3>2, PointerAssumption
      <4>3. /\ pc[u] \in {"clear", "signal", "gate"} => list[cur[u]] = u /\ cur[u] \in Thread
            /\ pc[u] = "clear" => block[cur[u]].prev = Null
            /\ \A x \in Thread : list[x] = u =>
                  /\ pc[u] \in {"clear", "signal", "gate"}
                  /\ pos[cur[u]] <= pos[x]
                  /\ block[x].prev # Null => /\ block[x].prev \in Thread
                                             /\ list[block[x].prev] = u
                                             /\ pos[block[x].prev] = pos[x] + 1
            /\ \A x, y \in Thread : list[x] = u /\ list[y] = u /\ pos[x] = pos[y] => x = y
        BY <1>0 DEF WakeInv
      <4>. QED  BY <2>1, <4>1, <4>2, <4>3
    <3>. QED  BY <3>1, <3>2
  <2>18. ListInv(pos, list2, anchor, tail)'
    BY <2>13, <2>14, <2>15, <2>16, <2>17 DEF ListInv
  <2>. QED  BY <2>3, <2>4, <2>7, <2>8, <2>18 DEF IInv
<1>. QED  BY <1>1, <1>2 DEF DetachAll

\* The tail alone becomes the list of the waker; the block before it is the
\* new tail, and the block that the waker started from knows it.
LEMMA DetachOneKeepsIInv == ASSUME IInv, NEW t \in Thread, DetachOne(t) PROVE IInv'
<1>. PICK pos \in [Thread -> Int], list \in [Thread -> Pointer],
          anchor \in Thread \cup {Null}, tail \in Thread \cup {Null} :
             ListInv(pos, list, anchor, tail)
  BY DEF IInv
<1>w. t \in Wakers /\ pc[t] = "detach" /\ UNCHANGED <<word, hold, call, old, val, cur>>
  BY DEF Wakers, WakingPc, DetachOne, locals
<1>0. /\ TypeOK /\ Wakers = {t} /\ {"W", "K"} \subseteq word.bits /\ WakerInv
      /\ \A u \in Thread : CallInv(u) /\ WaitInv(u)
      /\ OwnerInv /\ ValueIsPlausible /\ ListedInv(list) /\ QueueInv(pos, list, anchor, tail)
      /\ WalkInv(pos, list, anchor, tail) /\ ShareInv(list, tail) /\ WakeInv(pos, list)
  BY <1>w, WakerMeans DEF IInv, ListInv
<1>. DEFINE Q == Queue(list)
<1>1. PICK v \in Thread, h \in Thread, p \in Thread :
         /\ v = val[t].ptr /\ h = word.ptr /\ p = block[tail].prev
         /\ cur[t] = tail /\ tail \in Q /\ {v, h, p, anchor} \subseteq Q
         /\ pos[p] = pos[tail] + 1 /\ pos[tail] < pos[v] /\ pos[v] <= pos[h]
         /\ \A x \in Q : pos[x] < pos[v] => block[x].prev # Null
         /\ \A x \in Q : block[x].prev # Null => pos[x] < pos[v]
  <2>1. /\ cur[t] = tail /\ val[t].ptr \in Q /\ {word.ptr, anchor, tail} \subseteq Q
        /\ \A x \in Q : pos[x] < pos[val[t].ptr] => block[x].prev # Null
        /\ \A x \in Q : block[x].prev # Null => pos[x] < pos[val[t].ptr]
        /\ \A x \in Q : x \in Thread
    BY <1>0, <1>w DEF WalkInv, QueueInv, Queue
  <2>2. block[tail].prev # Null
    BY <2>1 DEF DetachOne, WakesAll
  <2>3. block[tail].prev \in Q /\ pos[block[tail].prev] = pos[tail] + 1
    BY <1>0, <2>1, <2>2 DEF QueueInv
  <2>4. pos[val[t].ptr] <= pos[word.ptr]
    BY <1>0, <2>1 DEF QueueInv
  <2>. QED  BY <2>1, <2>2, <2>3, <2>4
<1>2. /\ \A x \in Q : x \in Thread /\ pos[x] \in Int
      /\ tail \in Thread /\ v # tail /\ p # tail /\ h # tail
      /\ pos[anchor] <= pos[v]
  <2>1. \A x \in Q : x \in Thread /\ pos[x] \in Int
    BY DEF Queue
  <2>2. ~(pos[v] < pos[anchor])
    BY <1>0, <1>1, <2>1 DEF QueueInv
  <2>. QED  BY <1>1, <2>1, <2>2
<1>3. /\ block' = [block EXCEPT ![v].last = p, ![tail].prev = Null]
      /\ pc' = [pc EXCEPT ![t] = "clear"]
  BY <1>1 DEF DetachOne, Goto
<1>4. pc'[t] = "clear" /\ Others(t) /\ cur'[t] = tail
  BY <1>0, <1>w, <1>1, <1>3, Typed DEF Others
<1>5. /\ block' \in [Thread -> Block] /\ block'[v].last = p /\ block'[tail].prev = Null
      /\ \A x \in Thread :
            /\ block'[x].excl = block[x].excl /\ block'[x].wait = block[x].wait
            /\ block'[x].share = block[x].share /\ block'[x].signaled = block[x].signaled
            /\ block'[x].gate = block[x].gate /\ block'[x].next = block[x].next
            /\ x # tail => block'[x].prev = block[x].prev
            /\ x # v => block'[x].last = block[x].last
  <2>1. block[v] \in Block /\ block[tail] \in Block /\ p \in Pointer /\ Null \in Pointer
    BY <1>0, <1>2, Typed DEF Pointer
  <2>2. block'[v] = [block[v] EXCEPT !.last = p] /\ block'[tail] = [block[tail] EXCEPT !.prev = Null]
    BY <1>0, <1>2, <1>3, Typed
  <2>3. \A x \in Thread \ {v, tail} : block'[x] = block[x]
    BY <1>0, <1>2, <1>3, Typed
  <2>4. block'[v] \in Block /\ block'[v].last = p
    BY <2>1, <2>2 DEF Block
  <2>5. block'[tail] \in Block /\ block'[tail].prev = Null
    BY <2>1, <2>2 DEF Block
  <2>6. block' \in [Thread -> Block]
    <3>1. \A x \in Thread : block'[x] \in Block
      BY <1>0, <2>3, <2>4, <2>5, Typed
    <3>. QED  BY <1>0, <1>3, <3>1, Typed
  <2>7. /\ block'[v].excl = block[v].excl /\ block'[v].wait = block[v].wait
        /\ block'[v].share = block[v].share /\ block'[v].signaled = block[v].signaled
        /\ block'[v].gate = block[v].gate /\ block'[v].next = block[v].next
        /\ block'[v].prev = block[v].prev
    BY <2>1, <2>2 DEF Block
  <2>8. /\ block'[tail].excl = block[tail].excl /\ block'[tail].wait = block[tail].wait
        /\ block'[tail].share = block[tail].share
        /\ block'[tail].signaled = block[tail].signaled
        /\ block'[tail].gate = block[tail].gate /\ block'[tail].next = block[tail].next
        /\ block'[tail].last = block[tail].last
    BY <2>1, <2>2 DEF Block
  <2>. QED  BY <2>3, <2>4, <2>5, <2>6, <2>7, <2>8
<1>6. TypeOK'
  BY <1>0, <1>w, <1>3, <1>5 DEF TypeOK, Pc, WakerPc
<1>7. \A u \in Thread : CallInv(u)'
  <2>1. CallInv(t)'
    BY <1>0, <1>w, <1>4 DEF CallInv, OwnerPc, WaitPc, WakerPc
  <2>. QED  BY <1>0, <1>4, <2>1, CallKept
<1>8. \A u \in Thread : WaitInv(u)'
  <2>1. WaitInv(t)'
    BY <1>4 DEF WaitInv
  <2>. QED  BY <1>0, <1>4, <1>5, <2>1, WaitKept
<1>9. OwnerInv' /\ ValueIsPlausible'
  BY <1>0, <1>w, <1>4, OwnerKept DEF ValueIsPlausible
<1>10. Wakers' = {t} /\ WakerInv' /\ "M" \notin word.bits
  <2>1. Wakers' = {t}
    BY <1>0, <1>4 DEF Wakers, WakingPc, Others
  <2>2. "M" \notin word.bits
    BY <1>0, <1>w DEF WakerInv
  <2>. QED  BY <1>0, <1>w, <1>4, <2>1, <2>2 DEF WakerInv
<1>11. PICK list2 \in [Thread -> Pointer] :
          list2[tail] = t /\ \A x \in Thread \ {tail} : list2[x] = list[x]
  <2>. DEFINE list2 == [list EXCEPT ![tail] = t]
  <2>1. list2 \in [Thread -> Pointer] /\ list2[tail] = t
    BY <1>2 DEF Pointer
  <2>2. \A x \in Thread \ {tail} : list2[x] = list[x]
    BY <1>2
  <2>. QED  BY <2>1, <2>2
<1>12. /\ \A x \in Thread : list[x] # t
       /\ \A x \in Thread : list2[x] = t <=> x = tail
       /\ Queue(list2) = Q \ {tail} /\ list[tail] = Null
  <2>1. \A x \in Thread : list[x] # t
    BY <1>0, <1>w DEF WakeInv
  <2>. QED  BY <1>1, <1>2, <1>11, <2>1, PointerAssumption DEF Queue
<1>13. \A x \in Thread : InList(x)' <=> InList(x)
  BY <1>w, <1>4 DEF InList, WakerPc, Others
<1>14. ListedInv(list2)'
  <2>. SUFFICES ASSUME NEW x \in Thread, list2[x] # Garbage
       PROVE  /\ InList(x)'
              /\ block'[x].wait \/ pc'[x] = "asleep"
              /\ block'[x].gate # "signalled"
              /\ block'[x].signaled <=>
                    list2[x] \in Thread /\ pc'[list2[x]] = "gate" /\ cur'[list2[x]] = x
              /\ block'[x].signaled => pc'[x] = "asleep"
    BY DEF ListedInv
  <2>1. list[x] # Garbage
    BY <1>11, <1>12 DEF Null, Garbage
  <2>2. /\ InList(x) /\ (block[x].wait \/ pc[x] = "asleep") /\ block[x].gate # "signalled"
        /\ block[x].signaled <=> list[x] \in Thread /\ pc[list[x]] = "gate" /\ cur[list[x]] = x
        /\ block[x].signaled => pc[x] = "asleep"
    BY <1>0, <2>1 DEF ListedInv
  <2>3. pc[x] = "asleep" => pc'[x] = "asleep"
    BY <1>w, <1>4 DEF Others
  <2>4. CASE x = tail
    <3>1. ~block[x].signaled
      BY <1>12, <2>2, <2>4, PointerAssumption
    <3>2. list2[x] = t /\ pc'[t] # "gate"
      BY <1>4, <1>11, <2>4
    <3>. QED  BY <1>5, <1>13, <2>2, <2>3, <3>1, <3>2
  <2>5. CASE x # tail
    <3>1. list2[x] = list[x] /\ list[x] # t
      BY <1>11, <1>12, <2>5
    <3>2. list[x] \in Thread => pc'[list[x]] = pc[list[x]] /\ cur'[list[x]] = cur[list[x]]
      BY <1>4, <3>1 DEF Others
    <3>. QED  BY <1>5, <1>13, <2>2, <2>3, <3>1, <3>2
  <2>. QED  BY <2>4, <2>5
<1>15. QueueInv(pos, list2, v, p)'
  <2>. DEFINE R == Q \ {tail}
  <2>1. Queue(list2)' = R
    BY <1>12 DEF Queue
  <2>2. {h, v, p} \subseteq R
    BY <1>1, <1>2
  <2>3. ASSUME NEW x \in R PROVE
          /\ pos[p] <= pos[x] /\ pos[x] <= pos[h]
          /\ pos[tail] < pos[x]
    <3>1. pos[tail] <= pos[x] /\ pos[x] <= pos[h] /\ pos[x] # pos[tail]
      BY <1>0, <1>1 DEF QueueInv
    <3>. QED  BY <1>1, <1>2, <3>1
  <2>4. ASSUME NEW x \in R, x # p
        PROVE  block'[x].next \in R /\ pos[block'[x].next] = pos[x] - 1
    <3>1. block[x].next \in Q /\ pos[block[x].next] = pos[x] - 1
      BY <1>0 DEF QueueInv
    <3>2. pos[x] # pos[p]
      BY <1>0, <1>1, <2>4 DEF QueueInv
    <3>3. pos[block[x].next] # pos[tail]
      BY <1>1, <1>2, <2>3, <3>1, <3>2
    <3>. QED  BY <1>2, <1>5, <3>1, <3>3
  <2>5. ASSUME NEW x \in R, pos[x] > pos[v] PROVE block'[x].last = Null
    <3>1. pos[x] > pos[anchor] /\ x # v
      BY <1>1, <1>2, <2>5
    <3>. QED  BY <1>0, <1>2, <1>5, <3>1 DEF QueueInv
  <2>6. ASSUME NEW x \in R, block'[x].prev # Null
        PROVE  block'[x].prev \in R /\ pos[block'[x].prev] = pos[x] + 1
    <3>1. block'[x].prev = block[x].prev
      BY <1>2, <1>5
    <3>2. block[x].prev \in Q /\ pos[block[x].prev] = pos[x] + 1
      BY <1>0, <2>6, <3>1 DEF QueueInv
    <3>3. pos[block[x].prev] # pos[tail]
      BY <1>1, <1>2, <2>3, <3>2
    <3>. QED  BY <3>1, <3>2, <3>3
  <2>7. ASSUME NEW x \in R, pos[x] < pos[v] PROVE block'[x].prev # Null
    BY <1>1, <1>2, <1>5, <2>7
  <2>8. \A x, y \in R : pos[x] = pos[y] => x = y
    BY <1>0 DEF QueueInv
  <2>9. word'.ptr = h /\ "W" \in word'.bits /\ R # {}
    BY <1>0, <1>w, <1>1, <2>2
  <2>. HIDE DEF R
  <2>. QED  BY <1>5, <2>1, <2>2, <2>3, <2>4, <2>5, <2>6, <2>7, <2>8, <2>9 DEF QueueInv
<1>16. ShareInv(list2, p)'
  <2>1. \A x \in Thread : InList(x)' => block'[x].share = 0
    BY <1>0, <1>5, <1>10, <1>13 DEF ShareInv
  <2>2. \A u \in Thread : pc'[u] \notin {"find", "count", "drop"}
    BY <1>0, <1>4, <1>10 DEF OwnerInv, Others
  <2>. QED  BY <1>w, <1>10, <2>1, <2>2 DEF ShareInv
<1>17. WalkInv(pos, list2, v, p)'
  <2>1. Queue(list2)' = Q \ {tail}
    BY <1>12 DEF Queue
  <2>2. val'[t].ptr = v /\ v \in Q \ {tail}
    BY <1>w, <1>1, <1>2
  <2>. QED  BY <1>4, <1>10, <2>1, <2>2 DEF WalkInv
<1>18. WakeInv(pos, list2)'
  <2>. SUFFICES ASSUME NEW u \in Thread PROVE
        /\ pc'[u] \in {"clear", "signal", "gate"} => list2[cur'[u]] = u /\ cur'[u] \in Thread
        /\ pc'[u] = "clear" => block'[cur'[u]].prev = Null
        /\ \A x \in Thread : list2[x] = u =>
              /\ pc'[u] \in {"clear", "signal", "gate"}
              /\ pos[cur'[u]] <= pos[x]
              /\ block'[x].prev # Null => /\ block'[x].prev \in Thread
                                          /\ list2[block'[x].prev] = u
                                          /\ pos[block'[x].prev] = pos[x] + 1
        /\ \A x, y \in Thread : list2[x] = u /\ list2[y] = u /\ pos[x] = pos[y] => x = y
    BY DEF WakeInv
  <2>1. CASE u = t
    <3>1. pos[tail] <= pos[tail]
      BY <1>1, <1>2
    <3>. QED  BY <1>2, <1>4, <1>5, <1>11, <1>12, <2>1, <3>1
  <2>2. CASE u # t
    <3>1. pc'[u] = pc[u] /\ cur'[u] = cur[u]
      BY <1>4, <2>2 DEF Others
    <3>2. \A x \in Thread : list2[x] = u <=> list[x] = u
      BY <1>11, <1>12, <2>2, PointerAssumption
    <3>3. \A x \in Thread : list[x] = u => x # tail /\ block'[x].prev = block[x].prev
      BY <1>5, <1>12, PointerAssumption
    <3>4. /\ pc[u] \in {"clear", "signal", "gate"} => list[cur[u]] = u /\ cur[u] \in Thread
          /\ pc[u] = "clear" => block[cur[u]].prev = Null
          /\ \A x \in Thread : list[x] = u =>
                /\ pc[u] \in {"clear", "signal", "gate"}
                /\ pos[cur[u]] <= pos[x]
                /\ block[x].prev # Null => /\ block[x].prev \in Thread
                                           /\ list[block[x].prev] = u
                                           /\ pos[block[x].prev] = pos[x] + 1
          /\ \A x, y \in Thread : list[x] = u /\ list[y] = u /\ pos[x] = pos[y] => x = y
      BY <1>0 DEF WakeInv
    <3>. QED  BY <3>1, <3>2, <3>3, <3>4
  <2>. QED  BY <2>1, <2>2
<1>19. ListInv(pos, list2, v, p)'
  BY <1>14, <1>15, <1>16, <1>17, <1>18 DEF ListInv
<1>. QED  BY <1>6, <1>7, <1>8, <1>9, <1>10, <1>19 DEF IInv

\* Waking is given up; the waker keeps the waiter it has taken off the queue.
LEMMA ClearWakingKeepsIInv == ASSUME IInv, NEW t \in Thread, ClearWaking(t) PROVE IInv'
<1>. PICK pos \in [Thread -> Int], list \in [Thread -> Pointer],
          anchor \in Thread \cup {Null}, tail \in Thread \cup {Null} :
             ListInv(pos, list, anchor, tail)
  BY DEF IInv
<1>w. t \in Wakers /\ pc[t] = "clear" /\ UNCHANGED <<block, hold, call, old, val, cur>>
  BY DEF Wakers, WakingPc, ClearWaking, locals
<1>0. /\ TypeOK /\ Wakers = {t} /\ {"W", "K"} \subseteq word.bits /\ WakerInv
      /\ \A u \in Thread : CallInv(u) /\ WaitInv(u)
      /\ OwnerInv /\ ValueIsPlausible /\ ListedInv(list) /\ QueueInv(pos, list, anchor, tail)
      /\ ShareInv(list, tail) /\ WakeInv(pos, list)
  BY <1>w, WakerMeans DEF IInv, ListInv
<1>1. /\ pc' = [pc EXCEPT ![t] = "signal"] /\ word' = Without(word, {"K"}) /\ word' \in Word
      /\ word'.bits = word.bits \ {"K"} /\ word'.ptr = word.ptr /\ word'.shared = word.shared
  BY <1>0, Typed, WordsTyped DEF ClearWaking, Goto, Without, Word, Bit
<1>2. pc'[t] = "signal" /\ Others(t) /\ cur'[t] = cur[t]
  BY <1>0, <1>w, <1>1, Typed DEF Others
<1>3. TypeOK'
  BY <1>0, <1>w, <1>1 DEF TypeOK, Pc, WakerPc
<1>4. \A u \in Thread : CallInv(u)'
  <2>1. CallInv(t)'
    BY <1>0, <1>w, <1>2 DEF CallInv, OwnerPc, WaitPc, WakerPc
  <2>. QED  BY <1>0, <1>2, <2>1, CallKept
<1>5. \A u \in Thread : WaitInv(u)'
  <2>1. WaitInv(t)'
    BY <1>2 DEF WaitInv
  <2>. QED  BY <1>0, <1>w, <1>2, <2>1, WaitKept
<1>6. "M" \notin word.bits /\ \A u \in Thread : pc'[u] \notin {"find", "count", "drop"}
  <2>1. "M" \notin word.bits
    BY <1>0, <1>w DEF WakerInv
  <2>. QED  BY <1>0, <1>2, <2>1 DEF OwnerInv, Others
<1>7. OwnerInv' /\ ValueIsPlausible'
  <2>1. OwnerInv'
    BY <1>0, <1>w, <1>1, <1>2, OwnerKept
  <2>. QED  BY <1>0, <1>1, <1>6, <2>1 DEF ValueIsPlausible
<1>8. Wakers' = {} /\ WakerInv'
  <2>1. Wakers' = {}
    BY <1>0, <1>2 DEF Wakers, WakingPc, Others
  <2>. QED  BY <1>1, <2>1 DEF WakerInv
<1>9. \A x \in Thread : InList(x)' <=> InList(x)
  BY <1>w, <1>2 DEF InList, WakerPc, Others
<1>10. ListedInv(list)'
  <2>. SUFFICES ASSUME NEW x \in Thread, list[x] # Garbage
       PROVE  /\ InList(x)'
              /\ block'[x].wait \/ pc'[x] = "asleep"
              /\ block'[x].gate # "signalled"
              /\ block'[x].signaled <=>
                    list[x] \in Thread /\ pc'[list[x]] = "gate" /\ cur'[list[x]] = x
              /\ block'[x].signaled => pc'[x] = "asleep"
    BY DEF ListedInv
  <2>1. /\ InList(x) /\ (block[x].wait \/ pc[x] = "asleep") /\ block[x].gate # "signalled"
        /\ block[x].signaled <=> list[x] \in Thread /\ pc[list[x]] = "gate" /\ cur[list[x]] = x
        /\ block[x].signaled => pc[x] = "asleep"
    BY <1>0 DEF ListedInv
  <2>2. pc[x] = "asleep" => pc'[x] = "asleep"
    BY <1>w, <1>2 DEF Others
  <2>3. list[x] \in Thread =>
           (pc'[list[x]] = "gate" /\ cur'[list[x]] = x <=> pc[list[x]] = "gate" /\ cur[list[x]] = x)
    BY <1>w, <1>2 DEF Others
  <2>. QED  BY <1>w, <1>9, <2>1, <2>2, <2>3
<1>11. QueueInv(pos, list, anchor, tail)'
  BY <1>0, <1>w, <1>1, QueueKept
<1>12. ShareInv(list, tail)'
  <2>1. \A x \in Thread : InList(x)' => block'[x].share = 0
    BY <1>0, <1>w, <1>6, <1>9 DEF ShareInv
  <2>. QED  BY <1>1, <1>6, <2>1 DEF ShareInv
<1>13. WalkInv(pos, list, anchor, tail)'
  BY <1>8 DEF WalkInv
<1>14. WakeInv(pos, list)'
  <2>. SUFFICES ASSUME NEW u \in Thread PROVE
        /\ pc'[u] \in {"clear", "signal", "gate"} => list[cur'[u]] = u /\ cur'[u] \in Thread
        /\ pc'[u] = "clear" => block'[cur'[u]].prev = Null
        /\ \A x \in Thread : list[x] = u =>
              /\ pc'[u] \in {"clear", "signal", "gate"}
              /\ pos[cur'[u]] <= pos[x]
              /\ block'[x].prev # Null => /\ block'[x].prev \in Thread
                                          /\ list[block'[x].prev] = u
                                          /\ pos[block'[x].prev] = pos[x] + 1
        /\ \A x, y \in Thread : list[x] = u /\ list[y] = u /\ pos[x] = pos[y] => x = y
    BY DEF WakeInv
  <2>1. /\ cur'[u] = cur[u] /\ (pc'[u] = "clear" => pc[u] = "clear")
        /\ pc'[u] \in {"clear", "signal", "gate"} <=> pc[u] \in {"clear", "signal", "gate"}
    BY <1>w, <1>2 DEF Others
  <2>2. /\ pc[u] \in {"clear", "signal", "gate"} => list[cur[u]] = u /\ cur[u] \in Thread
        /\ pc[u] = "clear" => block[cur[u]].prev = Null
        /\ \A x \in Thread : list[x] = u =>
              /\ pc[u] \in {"clear", "signal", "gate"}
              /\ pos[cur[u]] <= pos[x]
              /\ block[x].prev # Null => /\ block[x].prev \in Thread
                                         /\ list[block[x].prev] = u
                                         /\ pos[block[x].prev] = pos[x] + 1
        /\ \A x, y \in Thread : list[x] = u /\ list[y] = u /\ pos[x] = pos[y] => x = y
    BY <1>0 DEF WakeInv
  <2>. QED  BY <1>w, <2>1, <2>2
<1>15. ListInv(pos, list, anchor, tail)'
  BY <1>10, <1>11, <1>12, <1>13, <1>14 DEF ListInv
<1>. QED  BY <1>3, <1>4, <1>5, <1>7, <1>8, <1>15 DEF IInv

-----------------------------------------------------------------------------
(* Waking *)

\* What the waker's step changes in the block of the waiter it is at.
SignalsOnly(t) ==
    /\ \A x \in Thread \ {cur[t]} : block'[x] = block[x]
    /\ \A x \in Thread :
          /\ block'[x].excl = block[x].excl /\ block'[x].last = block[x].last
          /\ block'[x].next = block[x].next /\ block'[x].prev = block[x].prev
          /\ block'[x].share = block[x].share

\* The parts of the invariant that do not see the steps of a waker.
LEMMA SignalFrame ==
    ASSUME IInv, NEW t \in Thread, pc[t] \in {"signal", "gate"},
           pc'[t] \in {"signal", "gate", "idle", "initgate"}, SignalsOnly(t), Others(t),
           UNCHANGED <<word, hold>>, CallInv(t)', InList(t)' <=> InList(t),
           NEW c \in Thread, c = cur[t], c # t => WaitInv(c)',
           NEW pos, NEW list, NEW anchor, NEW tail, ListInv(pos, list, anchor, tail),
           NEW list2, Queue(list2) = Queue(list)
    PROVE  /\ \A u \in Thread : CallInv(u)' /\ WaitInv(u)' /\ (InList(u)' <=> InList(u))
           /\ OwnerInv' /\ ValueIsPlausible' /\ WakerInv'
           /\ QueueInv(pos, list2, anchor, tail)' /\ ShareInv(list2, tail)'
           /\ WalkInv(pos, list2, anchor, tail)'
<1>0. /\ TypeOK /\ \A u \in Thread : CallInv(u) /\ WaitInv(u)
      /\ OwnerInv /\ ValueIsPlausible /\ WakerInv
      /\ QueueInv(pos, list, anchor, tail) /\ ShareInv(list, tail)
      /\ WalkInv(pos, list, anchor, tail)
  BY DEF IInv, ListInv
<1>1. \A u \in Thread : CallInv(u)'
  BY <1>0, CallKept
<1>2. ASSUME NEW u \in Thread PROVE WaitInv(u)'
  <2>1. CASE u = t
    BY <2>1 DEF WaitInv
  <2>2. CASE u # t /\ u = cur[t]
    BY <2>2
  <2>3. CASE u # t /\ u # cur[t]
    <3>1. pc'[u] = pc[u] /\ block'[u] = block[u] /\ WaitInv(u)
      BY <1>0, <2>3 DEF Others, SignalsOnly
    <3>. QED  BY <3>1 DEF WaitInv
  <2>. QED  BY <2>1, <2>2, <2>3
<1>3. \A u \in Thread : InList(u)' <=> InList(u)
  BY DEF InList, Others
<1>4. OwnerInv' /\ ValueIsPlausible'
  BY <1>0, OwnerKept DEF ValueIsPlausible
<1>5. /\ Wakers' = Wakers
      /\ \A u \in Wakers : u # t /\ pc'[u] = pc[u] /\ val'[u] = val[u] /\ cur'[u] = cur[u]
  BY DEF Wakers, WakingPc, Others
<1>6. WakerInv'
  BY <1>0, <1>5 DEF WakerInv
<1>7. \A x \in Queue(list) : x \in Thread
  BY DEF Queue
<1>8. QueueInv(pos, list, anchor, tail)' /\ WalkInv(pos, list, anchor, tail)'
  <2>1. \A x \in Queue(list) : /\ block'[x].last = block[x].last
                               /\ block'[x].next = block[x].next
                               /\ block'[x].prev = block[x].prev
    BY <1>7 DEF SignalsOnly
  <2>2. QueueInv(pos, list, anchor, tail)'
    BY <1>0, <2>1, QueueKept
  <2>. QED  BY <1>0, <1>5, <2>1, <2>2, WalkKept
<1>9. Queue(list2)' = Queue(list) /\ Queue(list)' = Queue(list)
  BY DEF Queue
<1>10. QueueInv(pos, list2, anchor, tail)' /\ WalkInv(pos, list2, anchor, tail)'
  BY <1>8, <1>9 DEF QueueInv, WalkInv
<1>11. ShareInv(list2, tail)'
  <2>1. Shared' = Shared /\ AtUnlock' = AtUnlock
    BY DEF Shared, AtUnlock, Others
  <2>2. \A x \in Thread : InList(x)' /\ block'[x].share # 0 => "M" \in word'.bits /\ x = tail
    BY <1>0, <1>3 DEF ShareInv, SignalsOnly
  <2>3. "M" \in word.bits => tail \in Thread
    BY <1>0 DEF QueueInv, Queue, ValueIsPlausible
  <2>4. "M" \in word'.bits =>
          /\ block'[tail].excl /\ block'[tail].last = tail
          /\ block'[tail].share = IF AtUnlock' = {} THEN Cardinality(Shared') ELSE 0
          /\ \A x \in Queue(list) : block'[x].last \in {Null, tail}
    BY <1>0, <1>7, <2>1, <2>3 DEF ShareInv, SignalsOnly
  <2>5. /\ \A u \in Thread : pc'[u] = "find" => cur'[u] \in Queue(list)
        /\ \A u \in Thread : pc'[u] \in {"count", "drop"} => cur'[u] = tail
    BY <1>0 DEF ShareInv, Others
  <2>. QED  BY <1>9, <2>2, <2>4, <2>5 DEF ShareInv
<1>. QED  BY <1>1, <1>2, <1>3, <1>4, <1>6, <1>10, <1>11

\* The waker is done with the waiter it is at, and goes on to the previous one.
LEMMA AdvanceKeepsIInv ==
    ASSUME IInv, NEW t \in Thread, pc[t] \in {"signal", "gate"}, SignalsOnly(t), Others(t),
           UNCHANGED <<word, hold>>, TypeOK', CallInv(t)', InList(t)' <=> InList(t),
           NEW c \in Thread, c = cur[t], c # t => WaitInv(c)',
           IF block[cur[t]].prev = Null
           THEN pc'[t] \in {"idle", "initgate"}
           ELSE pc'[t] = "signal" /\ cur'[t] = block[cur[t]].prev
    PROVE  IInv'
<1>. PICK pos \in [Thread -> Int], list \in [Thread -> Pointer],
          anchor \in Thread \cup {Null}, tail \in Thread \cup {Null} :
             ListInv(pos, list, anchor, tail)
  BY DEF IInv
<1>0. TypeOK /\ ListedInv(list) /\ WakeInv(pos, list)
  BY DEF IInv, ListInv
<1>1. PICK p \in Pointer : p = block[c].prev /\ list[c] = t /\ c = cur[t]
  <2>1. cur[t] \in Thread /\ list[cur[t]] = t
    BY <1>0 DEF WakeInv
  <2>2. block[cur[t]].prev \in Pointer
    BY <1>0, <2>1, Typed DEF Block
  <2>. QED  BY <2>1, <2>2
<1>2. PICK list2 \in [Thread -> Pointer] : \A x \in Thread :
         list2[x] = IF x = c \/ (p = Null /\ list[x] = t) THEN Garbage ELSE list[x]
  <2>. DEFINE list2 == [x \in Thread |-> IF x = c \/ (p = Null /\ list[x] = t)
                                         THEN Garbage ELSE list[x]]
  <2>1. list2 \in [Thread -> Pointer]
    BY DEF Pointer
  <2>. QED  BY <2>1
<1>3. /\ pc'[t] \in {"signal", "gate", "idle", "initgate"} /\ pc'[t] # "gate"
      /\ p = Null => pc'[t] \in {"idle", "initgate"}
      /\ p # Null => pc'[t] = "signal" /\ cur'[t] = p
  BY <1>1
<1>4. Queue(list2) = Queue(list)
  BY <1>1, <1>2, PointerAssumption DEF Queue, Null, Garbage
<1>5. /\ \A u \in Thread : CallInv(u)' /\ WaitInv(u)' /\ (InList(u)' <=> InList(u))
      /\ OwnerInv' /\ ValueIsPlausible' /\ WakerInv'
      /\ QueueInv(pos, list2, anchor, tail)' /\ ShareInv(list2, tail)'
      /\ WalkInv(pos, list2, anchor, tail)'
  BY <1>3, <1>4, SignalFrame
<1>6. ListedInv(list2)'
  <2>. SUFFICES ASSUME NEW x \in Thread, list2[x] # Garbage
       PROVE  /\ InList(x)'
              /\ block'[x].wait \/ pc'[x] = "asleep"
              /\ block'[x].gate # "signalled"
              /\ block'[x].signaled <=>
                    list2[x] \in Thread /\ pc'[list2[x]] = "gate" /\ cur'[list2[x]] = x
              /\ block'[x].signaled => pc'[x] = "asleep"
    BY DEF ListedInv
  <2>1. x # c /\ list2[x] = list[x] /\ block'[x] = block[x]
    BY <1>1, <1>2 DEF SignalsOnly
  <2>2. /\ InList(x) /\ (block[x].wait \/ pc[x] = "asleep") /\ block[x].gate # "signalled"
        /\ block[x].signaled <=> list[x] \in Thread /\ pc[list[x]] = "gate" /\ cur[list[x]] = x
        /\ block[x].signaled => pc[x] = "asleep"
    BY <1>0, <2>1 DEF ListedInv
  <2>3. pc[x] = "asleep" => pc'[x] = "asleep"
    BY DEF Others
  <2>4. list[x] \in Thread =>
           (pc'[list[x]] = "gate" /\ cur'[list[x]] = x <=> pc[list[x]] = "gate" /\ cur[list[x]] = x)
    BY <1>1, <1>3, <2>1 DEF Others
  <2>. QED  BY <1>5, <2>1, <2>2, <2>3, <2>4
<1>7. WakeInv(pos, list2)'
  <2>. SUFFICES ASSUME NEW u \in Thread PROVE
        /\ pc'[u] \in {"clear", "signal", "gate"} => list2[cur'[u]] = u /\ cur'[u] \in Thread
        /\ pc'[u] = "clear" => block'[cur'[u]].prev = Null
        /\ \A x \in Thread : list2[x] = u =>
              /\ pc'[u] \in {"clear", "signal", "gate"}
              /\ pos[cur'[u]] <= pos[x]
              /\ block'[x].prev # Null => /\ block'[x].prev \in Thread
                                          /\ list2[block'[x].prev] = u
                                          /\ pos[block'[x].prev] = pos[x] + 1
        /\ \A x, y \in Thread : list2[x] = u /\ list2[y] = u /\ pos[x] = pos[y] => x = y
    BY DEF WakeInv
  <2>0. \A x \in Thread : block'[x].prev = block[x].prev
    BY DEF SignalsOnly
  <2>1. /\ pc[u] \in {"clear", "signal", "gate"} => list[cur[u]] = u /\ cur[u] \in Thread
        /\ pc[u] = "clear" => block[cur[u]].prev = Null
        /\ \A x \in Thread : list[x] = u =>
              /\ pc[u] \in {"clear", "signal", "gate"}
              /\ pos[cur[u]] <= pos[x]
              /\ block[x].prev # Null => /\ block[x].prev \in Thread
                                         /\ list[block[x].prev] = u
                                         /\ pos[block[x].prev] = pos[x] + 1
        /\ \A x, y \in Thread : list[x] = u /\ list[y] = u /\ pos[x] = pos[y] => x = y
    BY <1>0 DEF WakeInv
  <2>2. CASE u = t /\ p = Null
    <3>1. \A x \in Thread : list2[x] # t
      BY <1>1, <1>2, <2>2, PointerAssumption
    <3>. QED  BY <1>3, <2>2, <3>1
  <2>3. CASE u = t /\ p # Null
    <3>1. p \in Thread /\ list[p] = t /\ pos[p] = pos[c] + 1 /\ p # c /\ list2[p] = t
      BY <1>1, <1>2, <2>1, <2>3
    <3>2. \A x \in Thread : list2[x] = t => list[x] = t /\ x # c /\ pos[p] <= pos[x]
      <4>1. \A x \in Thread : list2[x] = t => list[x] = t /\ x # c
        BY <1>2, PointerAssumption
      <4>2. \A x \in Thread : list[x] = t => pos[c] <= pos[x] /\ pos[x] \in Int /\ pos[c] \in Int
        BY <1>1, <2>1, <2>3
      <4>3. \A x \in Thread : list[x] = t /\ x # c => pos[x] # pos[c]
        BY <1>1, <2>1, <2>3
      <4>. QED  BY <3>1, <4>1, <4>2, <4>3
    <3>3. ASSUME NEW x \in Thread, list2[x] = t, block[x].prev # Null
          PROVE  /\ block[x].prev \in Thread /\ list2[block[x].prev] = t
                 /\ pos[block[x].prev] = pos[x] + 1
      <4>1. block[x].prev \in Thread /\ list[block[x].prev] = t /\ pos[block[x].prev] = pos[x] + 1
        BY <2>1, <2>3, <3>2, <3>3
      <4>2. pos[x] \in Int /\ pos[c] \in Int /\ pos[c] < pos[x]
        BY <3>1, <3>2, <3>3
      <4>3. block[x].prev # c
        BY <4>1, <4>2
      <4>. QED  BY <1>2, <2>3, <4>1, <4>3
    <3>. QED  BY <1>3, <2>0, <2>1, <2>3, <3>1, <3>2, <3>3
  <2>4. CASE u # t
    <3>1. pc'[u] = pc[u] /\ cur'[u] = cur[u]
      BY <2>4 DEF Others
    <3>2. \A x \in Thread : list2[x] = u <=> list[x] = u
      BY <1>1, <1>2, <2>4, PointerAssumption
    <3>. QED  BY <2>0, <2>1, <3>1, <3>2
  <2>. QED  BY <2>2, <2>3, <2>4
<1>8. ListInv(pos, list2, anchor, tail)'
  BY <1>5, <1>6, <1>7 DEF ListInv
<1>. QED  BY <1>5, <1>8 DEF IInv

\* The step of the waker in which it looks for the next waiter.
LEMMA AdvanceMeans ==
    ASSUME IInv, NEW t \in Thread, pc[t] \in {"signal", "gate"}, NEW p \in Pointer, Advance(t, p),
           UNCHANGED <<word, hold>>, block' \in [Thread -> Block]
    PROVE  /\ TypeOK' /\ CallInv(t)' /\ Others(t) /\ (InList(t)' <=> InList(t))
           /\ IF p = Null THEN pc'[t] \in {"idle", "initgate"}
                          ELSE pc'[t] = "signal" /\ cur'[t] = p
<1>0. TypeOK /\ CallInv(t) /\ pc[t] \in WakerPc /\ word' \in Word
  BY Typed DEF IInv, WakerPc
<1>1. hold[t] = "none" /\ call[t] # "none"
  BY <1>0 DEF CallInv, WakerPc
<1>2. CASE p = Null
  <2>1. Woken(t)
    BY <1>2 DEF Advance
  <2>. QED  BY <1>0, <1>1, <1>2, <2>1, WokenMeans
<1>3. CASE p # Null
  <2>1. /\ cur' = [cur EXCEPT ![t] = p] /\ pc' = [pc EXCEPT ![t] = "signal"]
        /\ UNCHANGED <<call, old, val>>
    BY <1>3 DEF Advance, Goto
  <2>2. pc'[t] = "signal" /\ cur'[t] = p /\ Others(t)
    BY <1>0, <2>1, Typed DEF Others
  <2>3. TypeOK'
    BY <1>0, <2>1 DEF TypeOK, Pc, WakerPc
  <2>4. CallInv(t)'
    BY <1>1, <2>1, <2>2 DEF CallInv, OwnerPc, WaitPc, WakerPc
  <2>5. InList(t)' <=> InList(t)
    BY <1>0, <2>1, <2>2 DEF InList, WakerPc
  <2>. QED  BY <1>3, <2>2, <2>3, <2>4, <2>5
<1>. QED  BY <1>2, <1>3

\* The block a waker is at.
LEMMA AtBlock ==
    ASSUME IInv, NEW t \in Thread, pc[t] \in {"signal", "gate"}
    PROVE  /\ cur[t] \in Thread /\ block[cur[t]] \in Block /\ block[cur[t]].prev \in Pointer
           /\ InList(cur[t]) /\ block[cur[t]].gate # "signalled"
           /\ block[cur[t]].wait \/ pc[cur[t]] = "asleep"
           /\ block[cur[t]].signaled <=> pc[t] = "gate"
           /\ pc[t] = "gate" => pc[cur[t]] = "asleep"
           /\ pc[cur[t]] = "asleep" => ~block[cur[t]].wait
<1>. PICK pos \in [Thread -> Int], list \in [Thread -> Pointer],
          anchor \in Thread \cup {Null}, tail \in Thread \cup {Null} :
             ListInv(pos, list, anchor, tail)
  BY DEF IInv
<1>0. TypeOK /\ ListedInv(list) /\ WakeInv(pos, list) /\ \A u \in Thread : WaitInv(u)
  BY DEF IInv, ListInv
<1>1. cur[t] \in Thread /\ list[cur[t]] = t
  BY <1>0 DEF WakeInv
<1>2. block[cur[t]] \in Block /\ block[cur[t]].prev \in Pointer
  BY <1>0, <1>1, Typed DEF Block
<1>3. list[cur[t]] # Garbage
  BY <1>1, PointerAssumption
<1>4. /\ InList(cur[t]) /\ block[cur[t]].gate # "signalled"
      /\ block[cur[t]].wait \/ pc[cur[t]] = "asleep"
      /\ block[cur[t]].signaled <=> pc[t] = "gate"
      /\ block[cur[t]].signaled => pc[cur[t]] = "asleep"
  BY <1>0, <1>1, <1>3 DEF ListedInv
<1>5. pc[cur[t]] = "asleep" => ~block[cur[t]].wait
  BY <1>0, <1>1 DEF WaitInv
<1>. QED  BY <1>1, <1>2, <1>4, <1>5

LEMMA SignalGateKeepsIInv == ASSUME IInv, NEW t \in Thread, SignalGate(t) PROVE IInv'
<1>0. TypeOK /\ pc[t] = "gate" /\ UNCHANGED <<word, hold>> /\ \A u \in Thread : WaitInv(u)
  BY DEF IInv, SignalGate
<1>1. PICK c \in Thread, p \in Pointer :
         /\ c = cur[t] /\ p = block[c].prev /\ block[c] \in Block
         /\ block[c].signaled /\ pc[c] = "asleep"
  BY <1>0, AtBlock
<1>2. block' = [block EXCEPT ![c].gate = "signalled"] /\ Advance(t, p)
  BY <1>1 DEF SignalGate
<1>3. /\ block' \in [Thread -> Block] /\ SignalsOnly(t)
      /\ block'[c].gate = "signalled" /\ block'[c].wait = block[c].wait
      /\ block'[c].signaled = block[c].signaled
  <2>1. block'[c] = [block[c] EXCEPT !.gate = "signalled"]
    BY <1>0, <1>2, Typed
  <2>2. \A x \in Thread \ {c} : block'[x] = block[x]
    BY <1>0, <1>2, Typed
  <2>3. block'[c] \in Block /\ block'[c].gate = "signalled"
    BY <1>1, <2>1 DEF Block
  <2>4. block' \in [Thread -> Block]
    BY <1>0, <1>2, <2>1, <2>3, Typed
  <2>5. /\ block'[c].excl = block[c].excl /\ block'[c].last = block[c].last
        /\ block'[c].next = block[c].next /\ block'[c].prev = block[c].prev
        /\ block'[c].share = block[c].share
        /\ block'[c].wait = block[c].wait /\ block'[c].signaled = block[c].signaled
    BY <1>1, <2>1 DEF Block
  <2>6. SignalsOnly(t)
    BY <1>1, <2>2, <2>5 DEF SignalsOnly
  <2>. QED  BY <2>3, <2>4, <2>5, <2>6
<1>4. /\ TypeOK' /\ CallInv(t)' /\ Others(t) /\ (InList(t)' <=> InList(t))
      /\ IF p = Null THEN pc'[t] \in {"idle", "initgate"}
                     ELSE pc'[t] = "signal" /\ cur'[t] = p
  BY <1>0, <1>2, <1>3, AdvanceMeans
<1>5. c # t => WaitInv(c)'
  <2>1. c # t => pc'[c] = "asleep"
    BY <1>1, <1>4 DEF Others
  <2>2. ~block[c].wait
    BY <1>0, <1>1 DEF WaitInv
  <2>. QED  BY <1>1, <1>3, <2>1, <2>2 DEF WaitInv
<1>. QED  BY <1>0, <1>1, <1>3, <1>4, <1>5, AdvanceKeepsIInv

LEMMA SignalBlockKeepsIInv == ASSUME IInv, NEW t \in Thread, SignalBlock(t) PROVE IInv'
<1>. PICK pos \in [Thread -> Int], list \in [Thread -> Pointer],
          anchor \in Thread \cup {Null}, tail \in Thread \cup {Null} :
             ListInv(pos, list, anchor, tail)
  BY DEF IInv
<1>0. /\ TypeOK /\ pc[t] = "signal" /\ UNCHANGED <<word, hold>>
      /\ \A u \in Thread : WaitInv(u) /\ CallInv(u)
      /\ ListedInv(list) /\ WakeInv(pos, list)
  BY DEF IInv, SignalBlock, ListInv
<1>1. PICK c \in Thread, p \in Pointer :
         /\ c = cur[t] /\ p = block[c].prev /\ block[c] \in Block
         /\ block[c].wait \/ pc[c] = "asleep"
         /\ pc[c] = "asleep" => ~block[c].wait
         /\ block[c].gate # "signalled" /\ InList(c)
  BY <1>0, AtBlock
<1>2. block' = [block EXCEPT ![c].signaled = TRUE, ![c].wait = FALSE]
  BY <1>1 DEF SignalBlock
<1>3. /\ block' \in [Thread -> Block] /\ SignalsOnly(t)
      /\ block'[c].gate = block[c].gate /\ ~block'[c].wait /\ block'[c].signaled
  <2>1. block'[c] = [block[c] EXCEPT !.signaled = TRUE, !.wait = FALSE]
    BY <1>0, <1>2, Typed
  <2>2. \A x \in Thread \ {c} : block'[x] = block[x]
    BY <1>0, <1>2, Typed
  <2>3. block'[c] \in Block /\ block'[c].signaled = TRUE /\ block'[c].wait = FALSE
    BY <1>1, <2>1 DEF Block
  <2>4. block' \in [Thread -> Block]
    <3>1. \A x \in Thread : block'[x] \in Block
      BY <1>0, <2>2, <2>3, Typed
    <3>. QED  BY <1>0, <1>2, <3>1, Typed
  <2>5. /\ block'[c].excl = block[c].excl /\ block'[c].last = block[c].last
        /\ block'[c].next = block[c].next /\ block'[c].prev = block[c].prev
        /\ block'[c].share = block[c].share /\ block'[c].gate = block[c].gate
    BY <1>1, <2>1 DEF Block
  <2>6. SignalsOnly(t)
    BY <1>1, <2>2, <2>5 DEF SignalsOnly
  <2>. QED  BY <2>3, <2>4, <2>5, <2>6
<1>4. ASSUME Others(t) PROVE c # t => WaitInv(c)'
  <2>1. c # t => pc'[c] = pc[c]
    BY <1>4 DEF Others
  <2>2. WaitInv(c)
    BY <1>0
  <2>. QED  BY <1>1, <1>3, <2>1, <2>2 DEF WaitInv
<1>5. CASE block[c].wait
  <2>1. Advance(t, p)
    BY <1>1, <1>5 DEF SignalBlock, NeedsSignal
  <2>2. /\ TypeOK' /\ CallInv(t)' /\ Others(t) /\ (InList(t)' <=> InList(t))
        /\ IF p = Null THEN pc'[t] \in {"idle", "initgate"}
                       ELSE pc'[t] = "signal" /\ cur'[t] = p
    BY <1>0, <1>3, <2>1, AdvanceMeans
  <2>. QED  BY <1>0, <1>1, <1>3, <1>4, <2>2, AdvanceKeepsIInv
<1>6. CASE ~block[c].wait
  <2>1. /\ pc' = [pc EXCEPT ![t] = "gate"] /\ UNCHANGED <<call, old, val, cur>>
    BY <1>1, <1>6 DEF SignalBlock, NeedsSignal, Goto, locals
  <2>2. pc'[t] = "gate" /\ Others(t) /\ cur'[t] = c
    BY <1>0, <1>1, <2>1, Typed DEF Others
  <2>3. TypeOK'
    BY <1>0, <1>3, <2>1 DEF TypeOK, Pc, WakerPc
  <2>4. CallInv(t)' /\ (InList(t)' <=> InList(t))
    <3>1. CallInv(t)'
      BY <1>0, <2>1, <2>2 DEF CallInv, OwnerPc, WaitPc, WakerPc
    <3>. QED  BY <1>0, <2>1, <2>2, <3>1 DEF InList, WakerPc
  <2>5. pc[c] = "asleep" /\ c # t /\ list[c] = t
    BY <1>0, <1>1, <1>6 DEF WakeInv
  <2>6. /\ \A u \in Thread : CallInv(u)' /\ WaitInv(u)' /\ (InList(u)' <=> InList(u))
        /\ OwnerInv' /\ ValueIsPlausible' /\ WakerInv'
        /\ QueueInv(pos, list, anchor, tail)' /\ ShareInv(list, tail)'
        /\ WalkInv(pos, list, anchor, tail)'
    BY <1>0, <1>1, <1>3, <1>4, <2>2, <2>4, SignalFrame
  <2>7. ListedInv(list)'
    <3>. SUFFICES ASSUME NEW x \in Thread, list[x] # Garbage
       PROVE  /\ InList(x)'
              /\ block'[x].wait \/ pc'[x] = "asleep"
              /\ block'[x].gate # "signalled"
              /\ block'[x].signaled <=>
                    list[x] \in Thread /\ pc'[list[x]] = "gate" /\ cur'[list[x]] = x
              /\ block'[x].signaled => pc'[x] = "asleep"
      BY DEF ListedInv
    <3>1. CASE x = c
      <4>1. pc'[x] = "asleep"
        BY <2>2, <2>5, <3>1 DEF Others
      <4>. QED  BY <1>1, <1>3, <2>2, <2>5, <2>6, <3>1, <4>1
    <3>2. CASE x # c
      <4>1. block'[x] = block[x] /\ (pc[x] = "asleep" => pc'[x] = "asleep")
        BY <1>0, <1>1, <1>3, <2>2, <3>2 DEF SignalsOnly, Others
      <4>2. /\ InList(x) /\ (block[x].wait \/ pc[x] = "asleep") /\ block[x].gate # "signalled"
            /\ block[x].signaled <=> list[x] \in Thread /\ pc[list[x]] = "gate" /\ cur[list[x]] = x
            /\ block[x].signaled => pc[x] = "asleep"
        BY <1>0 DEF ListedInv
      <4>3. list[x] \in Thread =>
           (pc'[list[x]] = "gate" /\ cur'[list[x]] = x <=> pc[list[x]] = "gate" /\ cur[list[x]] = x)
        BY <1>1, <2>2, <3>2 DEF Others
      <4>. QED  BY <2>6, <4>1, <4>2, <4>3
    <3>. QED  BY <3>1, <3>2
  <2>8. WakeInv(pos, list)'
    <3>. SUFFICES ASSUME NEW u \in Thread PROVE
        /\ pc'[u] \in {"clear", "signal", "gate"} => list[cur'[u]] = u /\ cur'[u] \in Thread
        /\ pc'[u] = "clear" => block'[cur'[u]].prev = Null
        /\ \A x \in Thread : list[x] = u =>
              /\ pc'[u] \in {"clear", "signal", "gate"}
              /\ pos[cur'[u]] <= pos[x]
              /\ block'[x].prev # Null => /\ block'[x].prev \in Thread
                                          /\ list[block'[x].prev] = u
                                          /\ pos[block'[x].prev] = pos[x] + 1
        /\ \A x, y \in Thread : list[x] = u /\ list[y] = u /\ pos[x] = pos[y] => x = y
      BY DEF WakeInv
    <3>1. /\ cur'[u] = cur[u] /\ (pc'[u] = "clear" => pc[u] = "clear")
          /\ pc'[u] \in {"clear", "signal", "gate"} <=> pc[u] \in {"clear", "signal", "gate"}
      BY <1>0, <1>1, <2>2 DEF Others
    <3>2. /\ pc[u] \in {"clear", "signal", "gate"} => list[cur[u]] = u /\ cur[u] \in Thread
          /\ pc[u] = "clear" => block[cur[u]].prev = Null
          /\ \A x \in Thread : list[x] = u =>
                /\ pc[u] \in {"clear", "signal", "gate"}
                /\ pos[cur[u]] <= pos[x]
                /\ block[x].prev # Null => /\ block[x].prev \in Thread
                                           /\ list[block[x].prev] = u
                                           /\ pos[block[x].prev] = pos[x] + 1
          /\ \A x, y \in Thread : list[x] = u /\ list[y] = u /\ pos[x] = pos[y] => x = y
      BY <1>0 DEF WakeInv
    <3>3. \A x \in Thread : block'[x].prev = block[x].prev
      BY <1>3 DEF SignalsOnly
    <3>. QED  BY <3>1, <3>2, <3>3
  <2>9. ListInv(pos, list, anchor, tail)'
    BY <2>6, <2>7, <2>8 DEF ListInv
  <2>. QED  BY <2>3, <2>6, <2>9 DEF IInv
<1>. QED  BY <1>5, <1>6

-----------------------------------------------------------------------------
(* The theorems *)

\* Nobody waits: every list is empty.
LEMMA InitIInv == Init => IInv
<1>. SUFFICES ASSUME Init PROVE IInv
  OBVIOUS
<1>1. TypeOK
  BY DEF Init, TypeOK, Word, Zero, Block, NoBlock, Pc, Pointer
<1>2. \A t \in Thread : pc[t] = "idle" /\ call[t] = "none" /\ hold[t] = "none"
  BY DEF Init
<1>3. word.bits = {} /\ word.shared = 0 /\ word.ptr = Null /\ word = Zero
  BY DEF Init, Zero
<1>4. \A t \in Thread : CallInv(t) /\ WaitInv(t)
  BY <1>2 DEF CallInv, WaitInv, OwnerPc, WaitPc, WakerPc, AcquireCalls, ReleaseCalls
<1>5. ValueIsPlausible
  BY <1>3 DEF ValueIsPlausible
<1>6. OwnerInv
  <2>1. Shared = {} /\ Exclusive = {}
    BY <1>2 DEF Shared, Exclusive
  <2>. QED  BY <1>2, <1>3, <2>1, FS_EmptySet DEF OwnerInv
<1>7. Wakers = {} /\ WakerInv
  BY <1>2, <1>3 DEF WakerInv, Wakers, WakingPc
<1>8. \E pos \in [Thread -> Int], list \in [Thread -> Pointer],
         anchor \in Thread \cup {Null}, tail \in Thread \cup {Null} :
            ListInv(pos, list, anchor, tail)
  <2>. DEFINE pos  == [x \in Thread |-> 0]
              list == [x \in Thread |-> Garbage]
  <2>1. pos \in [Thread -> Int] /\ list \in [Thread -> Pointer]
    BY DEF Pointer
  <2>2. \A x \in Thread : list[x] = Garbage
    OBVIOUS
  <2>. HIDE DEF pos, list
  <2>3. Queue(list) = {}
    BY <2>2 DEF Queue, Garbage, Null
  <2>4. ListedInv(list)
    BY <2>2 DEF ListedInv
  <2>5. QueueInv(pos, list, Null, Null)
    BY <1>3, <2>3 DEF QueueInv
  <2>6. ShareInv(list, Null)
    BY <1>2, <1>3 DEF ShareInv, InList, AcquireCalls
  <2>7. WalkInv(pos, list, Null, Null)
    BY <1>7 DEF WalkInv
  <2>8. WakeInv(pos, list)
    BY <1>2, <2>2, PointerAssumption DEF WakeInv
  <2>9. ListInv(pos, list, Null, Null)
    BY <2>4, <2>5, <2>6, <2>7, <2>8 DEF ListInv
  <2>. QED  BY <2>1, <2>9
<1>. QED  BY <1>1, <1>4, <1>5, <1>6, <1>7, <1>8 DEF IInv

LEMMA NextKeepsIInv == IInv /\ [Next]_vars => IInv'
<1>. SUFFICES ASSUME IInv, [Next]_vars PROVE IInv'
  OBVIOUS
<1>1. CASE UNCHANGED vars
  <2>0. UNCHANGED <<word, block, hold, call, pc, old, val, cur>>
    BY <1>1 DEF vars
  <2>1. TypeOK' /\ (\A t \in Thread : CallInv(t) /\ WaitInv(t))' /\ ValueIsPlausible'
    BY <2>0 DEF IInv, TypeOK, CallInv, WaitInv, ValueIsPlausible
  <2>2. OwnerInv' /\ WakerInv'
    BY <2>0 DEF IInv, OwnerInv, WakerInv, Shared, Exclusive, Wakers
  <2>3. ASSUME NEW pos, NEW list, NEW anchor, NEW tail, ListInv(pos, list, anchor, tail)
        PROVE  ListInv(pos, list, anchor, tail)'
    <3>1. ListedInv(list)' /\ QueueInv(pos, list, anchor, tail)'
      BY <2>0, <2>3 DEF ListInv, ListedInv, QueueInv, Queue, InList
    <3>2. ShareInv(list, tail)'
      BY <2>0, <2>3 DEF ListInv, ShareInv, Queue, InList, AtUnlock, Shared
    <3>3. WalkInv(pos, list, anchor, tail)' /\ WakeInv(pos, list)'
      BY <2>0, <2>3 DEF ListInv, WalkInv, WakeInv, Queue, Wakers
    <3>. QED  BY <3>1, <3>2, <3>3 DEF ListInv
  <2>. QED  BY <2>1, <2>2, <2>3 DEF IInv
<1>2. ASSUME NEW t \in Thread, Begin(t) PROVE IInv'
  BY <1>2, AcquireExclusiveKeepsIInv, AcquireSharedKeepsIInv, ConvertKeepsIInv DEF Begin
<1>3. ASSUME NEW t \in Thread, BeginRelease(t) PROVE IInv'
  BY <1>3, ReleaseExclusiveInlineKeepsIInv, ReleaseSharedInlineKeepsIInv, ReleaseInlineKeepsIInv
     DEF BeginRelease
<1>4. ASSUME NEW t \in Thread, Step(t) PROVE IInv'
  <2>1. CASE Read(t) \/ AcquireLock(t) \/ Enqueue(t) \/ InitGate(t) \/ TestWait(t) \/ WaitForGate(t)
    BY <2>1, ReadKeepsIInv, AcquireLockKeepsIInv, EnqueueKeepsIInv, InitGateKeepsIInv,
       TestWaitKeepsIInv, WaitForGateKeepsIInv
  <2>2. CASE Link(t) \/ Linked(t) \/ StopWaking(t) \/ Walk(t)
    BY <2>2, LinkKeepsIInv, LinkedKeepsIInv, StopWakingKeepsIInv, WalkStepKeepsIInv
  <2>3. CASE DetachAll(t) \/ DetachOne(t) \/ ClearWaking(t) \/ SignalBlock(t) \/ SignalGate(t)
    BY <2>3, DetachAllKeepsIInv, DetachOneKeepsIInv, ClearWakingKeepsIInv, SignalBlockKeepsIInv,
       SignalGateKeepsIInv
  <2>4. CASE GenericRelease(t) \/ TryToWakeRead(t) \/ TryToWake(t) \/ ReleaseExclusive(t)
               \/ ReleaseShared(t)
    BY <2>4, GenericReleaseKeepsIInv, TryToWakeReadKeepsIInv, TryToWakeKeepsIInv,
       ReleaseExclusiveKeepsIInv, ReleaseSharedKeepsIInv
  <2>5. CASE FindOldest(t) \/ TestShareCount(t) \/ DropShare(t) \/ Unlock(t)
    BY <2>5, FindOldestKeepsIInv, TestShareCountKeepsIInv, DropShareKeepsIInv, UnlockKeepsIInv
  <2>. QED  BY <1>4, <2>1, <2>2, <2>3, <2>4, <2>5 DEF Step
<1>. QED  BY <1>1, <1>2, <1>3, <1>4 DEF Next

\* The queue of waiters, the owners and the owner of Waking fit the lock word
\* after every step of every routine.
THEOREM Invariance == Spec => []IInv
<1>1. Init => IInv
  BY InitIInv
<1>2. IInv /\ [Next]_vars => IInv'
  BY NextKeepsIInv
<1>. QED  BY <1>1, <1>2, PTL DEF Spec

\* Every variable keeps its type: the count of owners in the word is never
\* negative, and the word points to a wait block or to nothing.
THEOREM TypeCorrect == Spec => []TypeOK
<1>1. IInv => TypeOK
  BY DEF IInv
<1>. QED  BY <1>1, Invariance, PTL

\* The lock word always has a value that PushLockValueIsPlausible of the kernel
\* mode test accepts.
THEOREM PlausibleValues == Spec => []ValueIsPlausible
<1>1. IInv => ValueIsPlausible
  BY DEF IInv
<1>. QED  BY <1>1, Invariance, PTL

\* ExpOptimizePushLockList, ExfWakePushLock and the releases only touch the wait
\* blocks of threads that still wait, and signal only the gate of a thread at it.
THEOREM BlockLifetime == Spec => []BlocksAlive
<1>1. ASSUME IInv, NEW t \in Thread
      PROVE  /\ pc[t] \in {"link", "walk", "detach", "signal", "gate", "find", "count", "drop"}
                   => cur[t] \in Thread /\ InList(cur[t])
             /\ pc[t] \in {"link", "detach"} => InList(val[t].ptr)
             /\ pc[t] = "gate" => block[cur[t]].gate = "clear" /\ pc[cur[t]] = "asleep"
  <2>. PICK pos, list, anchor, tail : ListInv(pos, list, anchor, tail)
    BY <1>1 DEF IInv
  <2>0. /\ ListedInv(list) /\ QueueInv(pos, list, anchor, tail) /\ ShareInv(list, tail)
        /\ WalkInv(pos, list, anchor, tail) /\ ValueIsPlausible /\ WakerInv
    BY <1>1 DEF IInv, ListInv
  <2>1. \A x \in Queue(list) : x \in Thread /\ InList(x)
    BY <2>0 DEF ListedInv, Queue, Null, Garbage
  <2>2. pc[t] \in WakingPc => t \in Wakers /\ val[t].ptr \in Queue(list) /\ "W" \in word.bits
    BY <2>0 DEF Wakers, WalkInv, WakerInv, ValueIsPlausible
  <2>3. pc[t] \in {"link", "walk", "detach"} => cur[t] \in Queue(list)
    BY <2>0, <2>2 DEF WakingPc, WalkInv, QueueInv
  <2>4. pc[t] \in {"find", "count", "drop"} => cur[t] \in Queue(list)
    <3>1. ASSUME pc[t] \in {"count", "drop"} PROVE "W" \in word.bits
      BY <1>1, <2>0, <3>1, CountedOwner DEF ValueIsPlausible
    <3>. QED  BY <2>0, <3>1 DEF ShareInv, QueueInv
  <2>5. pc[t] = "gate" => block[cur[t]].gate = "clear"
    <3>. SUFFICES ASSUME pc[t] = "gate" PROVE block[cur[t]].gate = "clear"
      OBVIOUS
    <3>1. cur[t] \in Thread /\ pc[cur[t]] = "asleep" /\ block[cur[t]].gate # "signalled"
      BY <1>1, AtBlock
    <3>. QED  BY <1>1, <3>1 DEF IInv, WaitInv
  <2>. QED  BY <1>1, <2>1, <2>2, <2>3, <2>4, <2>5, AtBlock DEF WakingPc
<1>2. IInv => BlocksAlive
  BY <1>1 DEF BlocksAlive
<1>. QED  BY <1>2, Invariance, PTL

\* Whoever sets Waking, a new waiter or a releaser, is its only owner until it
\* takes it off again.
THEOREM SingleWaker == Spec => []OneWaker
<1>1. ASSUME IInv PROVE Cardinality(Wakers) = IF "K" \in word.bits THEN 1 ELSE 0
  <2>0. WakerInv
    BY <1>1 DEF IInv
  <2>1. CASE "K" \notin word.bits
    BY <2>0, <2>1, FS_EmptySet DEF WakerInv
  <2>2. CASE "K" \in word.bits
    <3>1. PICK t : Wakers = {t}
      BY <2>0, <2>2 DEF WakerInv
    <3>. QED  BY <2>2, <3>1, FS_Singleton
  <2>. QED  BY <2>1, <2>2
<1>2. IInv => OneWaker
  BY <1>1 DEF OneWaker, Wakers, WakingPc
<1>. QED  BY <1>2, Invariance, PTL

\* Every owner is counted where the releases look for it: in the word, or in the
\* wait block of the oldest waiter once MultipleShared is set.
THEOREM OwnersAreCounted == Spec => []OwnersCounted
<1>1. ASSUME IInv PROVE OwnersCounted
  <2>. PICK pos, list, anchor, tail : ListInv(pos, list, anchor, tail)
    BY <1>1 DEF IInv
  <2>0. /\ TypeOK /\ OwnerInv /\ ValueIsPlausible /\ ListedInv(list)
        /\ QueueInv(pos, list, anchor, tail) /\ ShareInv(list, tail)
    BY <1>1 DEF IInv, ListInv
  <2>1. "W" \in word.bits /\ "M" \notin word.bits => Cardinality(Shared) <= 1
    <3>. SUFFICES ASSUME "W" \in word.bits, "M" \notin word.bits PROVE Cardinality(Shared) <= 1
      OBVIOUS
    <3>1. CASE Shared = {}
      BY <3>1, FS_EmptySet
    <3>2. CASE Shared # {}
      <4>1. PICK t : Shared = {t}
        BY <2>0, <3>2 DEF OwnerInv
      <4>. QED  BY <4>1, FS_Singleton
    <3>. QED  BY <3>1, <3>2
  <2>2. ASSUME "M" \in word.bits
        PROVE  /\ tail \in Thread /\ InList(tail) /\ block[tail].excl /\ block[tail].last = tail
               /\ block[tail].share = Cardinality(Shared) - Cardinality(AtUnlock)
    <3>1. tail \in Thread /\ list[tail] # Garbage
      BY <2>0, <2>2 DEF ValueIsPlausible, QueueInv, Queue, Null, Garbage
    <3>2. /\ InList(tail) /\ block[tail].excl /\ block[tail].last = tail
          /\ block[tail].share = IF AtUnlock = {} THEN Cardinality(Shared) ELSE 0
      BY <2>0, <2>2, <3>1 DEF ListedInv, ShareInv
    <3>3. CASE AtUnlock = {}
      BY <3>1, <3>2, <3>3, FS_EmptySet, SharedFinite
    <3>4. CASE AtUnlock # {}
      <4>1. PICK t \in Thread : Shared = {t} /\ t \in AtUnlock
        BY <2>0, <2>2, <3>4 DEF OwnerInv, AtUnlock
      <4>2. AtUnlock = {t}
        BY <4>1 DEF AtUnlock, Shared
      <4>. QED  BY <3>1, <3>2, <3>4, <4>1, <4>2, FS_Singleton, SMTT(30)
    <3>. QED  BY <3>3, <3>4
  <2>. QED  BY <2>0, <2>1, <2>2 DEF OwnersCounted, OwnerInv, AtUnlock
<1>. QED  BY <1>1, Invariance, PTL

\* None of the assertions in the routines can fail: a value without MultipleShared
\* is woken with, a block is signalled once, the last owner finds its count.
THEOREM AssertsHold == Spec => []SanityChecks
<1>1. ASSUME IInv, NEW t \in Thread
      PROVE  /\ pc[t] \in {"stop", "walk", "detach"} => "M" \notin val[t].bits
             /\ pc[t] = "stop" => "W" \in val[t].bits
             /\ pc[t] = "linked" => "L" \in val[t].bits
             /\ pc[t] = "clear" => val[t].ptr # cur[t] /\ "W" \in word.bits
             /\ pc[t] = "signal" => ~block[cur[t]].signaled
             /\ pc[t] = "asleep" /\ block[t].gate = "signalled"
                   => block[t].signaled /\ block[t].share = 0
             /\ pc[t] = "test" /\ ~block[t].wait => block[t].share = 0
             /\ pc[t] = "drop" => block[cur[t]].share > 0 /\ block[cur[t]].excl
             /\ pc[t] \in {"release", "find", "unlock", "generic"} => "L" \in old[t].bits
             /\ hold[t] # "none" => "L" \in word.bits
             /\ hold[t] = "exclusive" => "W" \in word.bits \/ word.shared = 0
  <2>. PICK pos, list, anchor, tail : ListInv(pos, list, anchor, tail)
    BY <1>1 DEF IInv
  <2>0. /\ TypeOK /\ OwnerInv /\ WakerInv /\ ValueIsPlausible /\ CallInv(t) /\ WaitInv(t)
        /\ ListedInv(list) /\ QueueInv(pos, list, anchor, tail) /\ ShareInv(list, tail)
        /\ WalkInv(pos, list, anchor, tail) /\ WakeInv(pos, list)
    BY <1>1 DEF IInv, ListInv
  <2>1. /\ pc[t] \in {"stop", "walk", "detach"} => "M" \notin val[t].bits
        /\ pc[t] = "stop" => "W" \in val[t].bits
        /\ pc[t] = "linked" => "L" \in val[t].bits
    BY <2>0 DEF WakerInv, Wakers, WakingPc
  <2>2. pc[t] = "clear" => val[t].ptr # cur[t] /\ "W" \in word.bits
    <3>1. pc[t] = "clear" => t \in Wakers
      BY DEF Wakers, WakingPc
    <3>. QED  BY <1>1, <2>0, <3>1, PointerAssumption
              DEF WakerInv, ValueIsPlausible, WalkInv, WakeInv, Queue
  <2>3. ASSUME list[t] = Garbage, InList(t) PROVE block[t].share = 0
    <3>1. tail # t \/ "M" \notin word.bits
      BY <2>0, <2>3 DEF QueueInv, ValueIsPlausible, Queue, Null, Garbage
    <3>. QED  BY <1>1, <2>0, <2>3, <3>1 DEF ShareInv
  <2>4. pc[t] \in {"asleep", "test"} => InList(t)
    BY <2>0 DEF CallInv, InList, WaitPc
  <2>5. pc[t] = "asleep" /\ block[t].gate = "signalled" => block[t].signaled /\ block[t].share = 0
    BY <1>1, <2>0, <2>3, <2>4 DEF WaitInv, ListedInv
  <2>6. pc[t] = "test" /\ ~block[t].wait => block[t].share = 0
    BY <1>1, <2>0, <2>3, <2>4 DEF ListedInv
  <2>7. pc[t] = "drop" => block[cur[t]].share > 0 /\ block[cur[t]].excl
    BY <1>1, CountedOwner
  <2>8. pc[t] \in {"release", "find", "unlock", "generic"} => "L" \in old[t].bits
    BY <2>0 DEF CallInv, OwnerPc
  <2>9. hold[t] = "exclusive" => "W" \in word.bits \/ word.shared = 0
    BY <1>1, <2>0, FS_EmptySet DEF OwnerInv, Exclusive
  <2>10. pc[t] = "signal" => ~block[cur[t]].signaled
    BY <1>1, AtBlock
  <2>11. hold[t] # "none" => "L" \in word.bits
    BY <1>1, OwnerLocked
  <2>. QED  BY <2>1, <2>2, <2>5, <2>6, <2>7, <2>8, <2>9, <2>10, <2>11
<1>2. IInv => SanityChecks
  BY <1>1 DEF SanityChecks
<1>. QED  BY <1>2, Invariance, PTL

-----------------------------------------------------------------------------
(* A push lock is a reader/writer lock *)

\* Whoever may lock the lock finds it free, or is a reader among readers.
LEMMA TakeContract ==
    ASSUME IInv, NEW t \in Thread, NEW c \in AcquireCalls, MayLock(c, word), hold[t] = "none",
           hold' = [hold EXCEPT ![t] = IF c = "AcquireShared" THEN "shared" ELSE "exclusive"]
    PROVE  Contract!ContractNext
<1>0. TypeOK
  BY DEF IInv
<1>1. Exclusive = {} /\ (Shared = {} \/ c = "AcquireShared")
  BY MayLockMeans
<1>2. CASE c = "AcquireShared"
  <2>1. t \notin Shared /\ Shared' = Shared \cup {t} /\ Exclusive' = Exclusive
    BY <1>0, <1>2, Typed DEF Shared, Exclusive
  <2>. QED  BY <1>1, <2>1 DEF Contract!ContractNext, Contract!EnterShared
<1>3. CASE c # "AcquireShared"
  <2>1. Shared' = Shared /\ Exclusive' = Exclusive \cup {t}
    BY <1>0, <1>3, Typed DEF Shared, Exclusive
  <2>. QED  BY <1>1, <1>3, <2>1 DEF Contract!ContractNext, Contract!EnterExclusive
<1>. QED  BY <1>2, <1>3

\* An owner leaves; the others stay.
LEMMA LeaveContract ==
    ASSUME IInv, NEW t \in Thread, hold[t] # "none", hold' = [hold EXCEPT ![t] = "none"]
    PROVE  Contract!ContractNext
<1>0. TypeOK /\ OwnerInv
  BY DEF IInv
<1>1. CASE hold[t] = "shared"
  <2>1. t \in Shared /\ Shared' = Shared \ {t} /\ Exclusive' = Exclusive
    BY <1>0, <1>1, Typed DEF Shared, Exclusive
  <2>. QED  BY <2>1 DEF Contract!ContractNext, Contract!LeaveShared
<1>2. CASE hold[t] = "exclusive"
  <2>1. t \in Exclusive /\ Exclusive' = Exclusive \ {t} /\ Shared' = Shared
    BY <1>0, <1>2, Typed DEF Shared, Exclusive
  <2>2. Exclusive = {t}
    BY <1>0, <2>1 DEF OwnerInv
  <2>. QED  BY <2>1, <2>2 DEF Contract!ContractNext, Contract!LeaveExclusive
<1>. QED  BY <1>0, <1>1, <1>2, Typed

\* The converting reader is the only one: the word counts one and nobody waits.
LEMMA ConvertContract ==
    ASSUME IInv, NEW t \in Thread, ExConvertPushLockSharedToExclusive(t)
    PROVE  Contract!ContractNext
<1>0. TypeOK /\ OwnerInv
  BY DEF IInv
<1>1. /\ word.bits = {"L"} /\ word.shared = 1 /\ t \in Shared
      /\ hold' = [hold EXCEPT ![t] = "exclusive"]
  BY DEF ExConvertPushLockSharedToExclusive, Own, Shared
<1>2. Cardinality(Shared) = 1 /\ Exclusive = {}
  BY <1>0, <1>1 DEF OwnerInv
<1>3. Shared = {t}
  <2>1. \E x : Shared = {x}
    BY <1>2, SharedFinite, FS_Singleton
  <2>. QED  BY <1>1, <2>1
<1>4. Shared' = {} /\ Exclusive' = {t}
  BY <1>0, <1>1, <1>2, <1>3, Typed DEF Shared, Exclusive
<1>. QED  BY <1>2, <1>3, <1>4 DEF Contract!ContractNext, Contract!Convert

\* Every step takes the lock, gives it up, or leaves the owners alone.
LEMMA NextContract ==
    ASSUME IInv, [Next]_vars
    PROVE  [Contract!ContractNext]_<<Shared, Exclusive>>
<1>. SUFFICES ASSUME hold' # hold PROVE Contract!ContractNext
  BY DEF Shared, Exclusive
<1>1. PICK t \in Thread : Begin(t) \/ BeginRelease(t) \/ Step(t)
  BY DEF Next, vars
<1>2. CallInv(t)
  BY DEF IInv
<1>3. CASE ExAcquirePushLockExclusive(t)
  BY <1>3, TakeContract DEF ExAcquirePushLockExclusive, Enter, Own, MayLock, AcquireCalls
<1>4. CASE ExAcquirePushLockShared(t)
  <2>1. word = Zero /\ hold[t] = "none" /\ hold' = [hold EXCEPT ![t] = "shared"]
    BY <1>4 DEF ExAcquirePushLockShared, Enter, Own
  <2>. QED  BY <2>1, TakeContract DEF MayLock, AcquireCalls, Zero
<1>5. CASE ExConvertPushLockSharedToExclusive(t)
  BY <1>5, ConvertContract
<1>6. CASE AcquireLock(t)
  <2>1. /\ MayLock(call[t], word) /\ call[t] \in AcquireCalls /\ hold[t] = "none"
        /\ hold' = [hold EXCEPT ![t] = IF call[t] = "AcquireShared" THEN "shared" ELSE "exclusive"]
    BY <1>2, <1>6 DEF AcquireLock, Own, CallInv
  <2>. QED  BY <2>1, TakeContract
<1>7. CASE BeginRelease(t)
  <2>1. hold[t] # "none" /\ hold' = [hold EXCEPT ![t] = "none"]
    BY <1>7 DEF BeginRelease, ExReleasePushLockExclusive, ExReleasePushLockShared,
                ExReleasePushLock, Enter, Own
  <2>. QED  BY <2>1, LeaveContract
<1>8. CASE GenericRelease(t) \/ ReleaseExclusive(t) \/ ReleaseShared(t) \/ DropShare(t) \/ Unlock(t)
  <2>1. pc[t] \in OwnerPc /\ hold' = [hold EXCEPT ![t] = "none"]
    BY <1>8 DEF GenericRelease, ReleaseExclusive, ReleaseShared, DropShare, Unlock, Own, OwnerPc
  <2>. QED  BY <1>2, <2>1, LeaveContract DEF CallInv
<1>9. CASE Read(t) \/ Enqueue(t) \/ InitGate(t) \/ TestWait(t) \/ WaitForGate(t) \/ Link(t)
             \/ Linked(t) \/ StopWaking(t) \/ Walk(t) \/ DetachAll(t) \/ DetachOne(t)
  BY <1>9 DEF Read, Enqueue, InitGate, TestWait, WaitForGate, Link, Linked, StopWaking, Walk,
              DetachAll, DetachOne
<1>10. CASE \/ ClearWaking(t) \/ SignalBlock(t) \/ SignalGate(t) \/ TryToWakeRead(t)
            \/ TryToWake(t) \/ FindOldest(t) \/ TestShareCount(t)
  BY <1>10 DEF ClearWaking, SignalBlock, SignalGate, TryToWakeRead, TryToWake, FindOldest,
               TestShareCount
<1>. QED  BY <1>1, <1>3, <1>4, <1>5, <1>6, <1>7, <1>8, <1>9, <1>10 DEF Begin, Step

\* A push lock implements the reader/writer lock: its owners are readers
\* together or one writer alone, however the inlines, the slow routines and the
\* hand-over of the count to a wait block interleave.
THEOREM Refinement == Spec => ImplementsRWLock
<1>1. Init => Contract!ContractInit
  BY DEF Init, Contract!ContractInit, Shared, Exclusive
<1>2. IInv /\ [Next]_vars => [Contract!ContractNext]_<<Shared, Exclusive>>
  BY NextContract
<1>. QED
  BY <1>1, <1>2, Invariance, PTL DEF Spec, ImplementsRWLock, Contract!ContractSpec, Contract!vars
=============================================================================
