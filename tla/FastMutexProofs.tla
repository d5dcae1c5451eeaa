-------------------------- MODULE FastMutexProofs --------------------------
(***************************************************************************)
(* Fast mutexes are correct for any finite set of threads.  Ownership is a *)
(* token: while some thread is involved with the mutex, exactly one of an  *)
(* owner, a thread about to signal and the event itself has it.            *)
(***************************************************************************)
EXTENDS FastMutex, FiniteSetTheorems, TLAPS

Involved == {t \in Thread :
                pc[t] \in {"wait", "asleep", "acquired", "holding", "release"}}
Tokens   == {t \in Thread : pc[t] \in {"acquired", "holding", "release", "signal"}}

TokenInv == /\ \A t, u \in Tokens : t = u
            /\ eventSignal => Tokens = {}
            /\ Involved # {} <=> eventSignal \/ Tokens # {}

\* The event's list holds the sleepers, each once, and only while the event
\* is not signalled.
ListInv == /\ \A i \in 1 .. Len(waitList) : pc[waitList[i]] = "asleep"
           /\ \A i, j \in 1 .. Len(waitList) : waitList[i] = waitList[j] => i = j
           /\ \A t \in Thread : pc[t] = "asleep" =>
                 \E i \in 1 .. Len(waitList) : waitList[i] = t
           /\ eventSignal => waitList = << >>

\* Where a thread's IRQL is kept at each stage of its calls.
IrqlInv == \A t \in Thread :
              /\ pc[t] # "holding" => saved[t] = entry[t]
              /\ pc[t] = "holding" /\ entry[t] # "unsafe" => oldIrql = entry[t]

CountInv == count = 1 - Cardinality(Involved)

IInv == /\ TypeOK
        /\ TokenInv
        /\ ListInv
        /\ IrqlInv
        /\ CountInv

-----------------------------------------------------------------------------

\* There are finitely many threads involved.
LEMMA FiniteInvolved == IsFiniteSet(Involved) /\ Cardinality(Involved) \in Nat
<1>1. Involved \in SUBSET Thread
  BY DEF Involved
<1>. QED  BY <1>1, ThreadAssumption, FS_Subset, FS_CardinalityType

LEMMA InitIInv == Init => IInv
<1>. SUFFICES ASSUME Init PROVE IInv
  OBVIOUS
<1>. USE DEF Init
<1>1. TypeOK
  <2>1. waitList \in Seq(Thread)
    OBVIOUS
  <2>2. count \in Int /\ count <= 1 /\ owner \in Thread \cup {NoOwner}
    OBVIOUS
  <2>3. pc \in [Thread -> Pc] /\ eventSignal \in BOOLEAN
    BY DEF Pc
  <2>4. /\ oldIrql \in Irql
        /\ entry \in [Thread -> Irql \cup {"unsafe"}]
        /\ saved \in [Thread -> Irql \cup {"unsafe"}]
    BY DEF Irql
  <2>. QED  BY <2>1, <2>2, <2>3, <2>4 DEF TypeOK
<1>2. Involved = {} /\ Tokens = {}
  BY DEF Involved, Tokens
<1>3. TokenInv /\ IrqlInv /\ CountInv
  BY <1>2, FS_EmptySet DEF TokenInv, IrqlInv, CountInv
<1>4. ListInv
  BY DEF ListInv
<1>. QED  BY <1>1, <1>3, <1>4 DEF IInv

\* Somebody asks for the mutex: he gets it if and only if nobody is involved.
LEMMA AcquireKeepsIInv ==
    ASSUME IInv, NEW t \in Thread, Acquire(t) \/ TryToAcquire(t)
    PROVE  IInv'
<1>. USE DEF IInv
<1>1. PICK level \in Irql \cup {"unsafe"} : EnterAt(t, level)
  BY DEF Acquire, TryToAcquire
<1>2. /\ pc[t] = "idle" /\ pc \in [Thread -> Pc] /\ count \in Int /\ count <= 1
      /\ waitList \in Seq(Thread)
      /\ count' = count - 1 /\ UNCHANGED <<owner, oldIrql, eventSignal, waitList>>
      /\ pc' = [pc EXCEPT ![t] = IF count = 1 THEN "acquired" ELSE "wait"]
  BY DEF Acquire, TryToAcquire, TypeOK, Goto, GotIt, eventVars
<1>3. TypeOK'
  BY <1>1, <1>2 DEF TypeOK, EnterAt, Pc
<1>4. Involved' = Involved \cup {t} /\ t \notin Involved
  BY <1>2 DEF Involved
<1>5. CountInv'
  <2>1. Cardinality(Involved') = Cardinality(Involved) + 1
    BY <1>4, FiniteInvolved, FS_AddElement
  <2>. QED  BY <1>2, <2>1, FiniteInvolved DEF CountInv
<1>6. count = 1 <=> Involved = {}
  BY <1>2, FiniteInvolved, FS_EmptySet DEF CountInv
<1>7. TokenInv'
  <2>1. CASE count = 1
    <3>1. Tokens = {} /\ ~eventSignal
      BY <1>6, <2>1 DEF TokenInv
    <3>2. Tokens' = {t}
      BY <1>2, <2>1, <3>1 DEF Tokens
    <3>. QED  BY <1>2, <1>4, <3>1, <3>2 DEF TokenInv
  <2>2. CASE count # 1
    <3>1. Tokens' = Tokens
      BY <1>2, <2>2 DEF Tokens
    <3>. QED  BY <1>2, <1>4, <1>6, <2>2, <3>1 DEF TokenInv
  <2>. QED  BY <2>1, <2>2
<1>8. ListInv'
  BY <1>2 DEF ListInv
<1>9. IrqlInv'
  BY <1>1, <1>2 DEF IrqlInv, EnterAt, TypeOK
<1>. QED  BY <1>3, <1>5, <1>7, <1>8, <1>9

\* A waiter consumes the event's signal or joins its list.
LEMMA WaitKeepsIInv ==
    ASSUME IInv, NEW t \in Thread, WaitForEvent(t)
    PROVE  IInv'
<1>. USE DEF IInv
<1>a. /\ pc \in [Thread -> Pc] /\ pc[t] = "wait" /\ waitList \in Seq(Thread)
      /\ UNCHANGED <<count, owner, oldIrql, entry, saved>>
  BY DEF TypeOK, WaitForEvent
<1>b. pc' = [pc EXCEPT ![t] = IF eventSignal THEN "acquired" ELSE "asleep"]
  BY DEF WaitForEvent, Goto
<1>1. Involved' = Involved /\ CountInv' /\ IrqlInv'
  BY <1>a, <1>b DEF Involved, CountInv, IrqlInv
<1>2. CASE eventSignal
  <2>1. ~eventSignal' /\ waitList' = waitList /\ Tokens = {} /\ Tokens' = {t}
    BY <1>2, <1>a, <1>b DEF WaitForEvent, TokenInv, Tokens
  <2>2. TypeOK' /\ TokenInv'
    BY <1>a, <1>b, <1>1, <1>2, <2>1 DEF TypeOK, TokenInv, WaitForEvent, Pc
  <2>3. ListInv'
    BY <1>a, <1>b, <1>2, <2>1 DEF ListInv
  <2>. QED  BY <1>1, <2>2, <2>3
<1>3. CASE ~eventSignal
  <2>1. /\ eventSignal' = eventSignal /\ waitList' = Append(waitList, t)
        /\ Tokens' = Tokens
    BY <1>3, <1>a, <1>b DEF WaitForEvent, Tokens
  <2>2. TypeOK' /\ TokenInv'
    BY <1>a, <1>b, <1>1, <1>3, <2>1 DEF TypeOK, TokenInv, Pc
  <2>3. \A i \in 1 .. Len(waitList) : waitList[i] # t /\ waitList[i] \in Thread
    BY <1>a DEF ListInv
  <2>4. /\ Len(waitList') = Len(waitList) + 1 /\ Len(waitList) \in Nat
        /\ waitList'[Len(waitList) + 1] = t
        /\ \A i \in 1 .. Len(waitList) : waitList'[i] = waitList[i]
    BY <1>a, <2>1
  <2>5. 1 .. Len(waitList') = 1 .. Len(waitList) \cup {Len(waitList) + 1}
    BY <2>4
  <2>6. \A i \in 1 .. Len(waitList') : pc'[waitList'[i]] = "asleep"
    BY <1>a, <1>b, <1>3, <2>3, <2>4, <2>5 DEF ListInv
  <2>7. \A i, j \in 1 .. Len(waitList') : waitList'[i] = waitList'[j] => i = j
    BY <2>3, <2>4, <2>5 DEF ListInv
  <2>8. \A u \in Thread : pc'[u] = "asleep" =>
           \E i \in 1 .. Len(waitList') : waitList'[i] = u
    BY <1>a, <1>b, <1>3, <2>4, <2>5 DEF ListInv
  <2>9. ListInv'
    BY <1>3, <2>1, <2>6, <2>7, <2>8 DEF ListInv
  <2>. QED  BY <1>1, <2>2, <2>9
<1>. QED  BY <1>2, <1>3

\* An APC takes a sleeper off the list, wherever in it the thread is.
LEMMA ApcKeepsIInv ==
    ASSUME IInv, NEW t \in Thread, KernelApc(t)
    PROVE  IInv'
<1>. USE DEF IInv
<1>a. /\ pc \in [Thread -> Pc] /\ pc[t] = "asleep" /\ waitList \in Seq(Thread)
      /\ pc' = [pc EXCEPT ![t] = "wait"]
      /\ UNCHANGED <<count, owner, oldIrql, eventSignal, entry, saved>>
  BY DEF TypeOK, KernelApc, Goto
<1>1. PICK i \in 1 .. Len(waitList) :
          /\ waitList[i] = t
          /\ waitList' = SubSeq(waitList, 1, i - 1)
                           \o SubSeq(waitList, i + 1, Len(waitList))
  BY DEF KernelApc
<1> DEFINE n == Len(waitList)
<1>2. /\ n \in Nat /\ i \in Int /\ 1 <= i /\ i <= n
      /\ \A k \in 1 .. n : waitList[k] \in Thread
  BY <1>a, <1>1
<1>3. /\ SubSeq(waitList, 1, i - 1) \in Seq(Thread)
      /\ Len(SubSeq(waitList, 1, i - 1)) = i - 1
      /\ \A k \in 1 .. (i - 1) : SubSeq(waitList, 1, i - 1)[k] = waitList[k]
  BY <1>a, <1>2
<1>4. /\ SubSeq(waitList, i + 1, n) \in Seq(Thread)
      /\ Len(SubSeq(waitList, i + 1, n)) = n - i
      /\ \A k \in 1 .. (n - i) : SubSeq(waitList, i + 1, n)[k] = waitList[k + i]
  BY <1>a, <1>2
<1>5. /\ waitList' \in Seq(Thread) /\ Len(waitList') = n - 1
      /\ \A k \in 1 .. (n - 1) :
            waitList'[k] = IF k < i THEN waitList[k] ELSE waitList[k + 1]
  <2>1. PICK a \in Seq(Thread) : a = SubSeq(waitList, 1, i - 1)
    BY <1>3
  <2>2. PICK b \in Seq(Thread) : b = SubSeq(waitList, i + 1, n)
    BY <1>4
  <2>3. waitList' = a \o b
    BY <1>1, <2>1, <2>2
  <2>4. Len(a) = i - 1 /\ \A k \in 1 .. (i - 1) : a[k] = waitList[k]
    BY <1>3, <2>1
  <2>5. Len(b) = n - i /\ \A k \in 1 .. (n - i) : b[k] = waitList[k + i]
    BY <1>4, <2>2
  <2>6. waitList' \in Seq(Thread) /\ Len(waitList') = n - 1
    BY <1>2, <2>3, <2>4, <2>5
  <2>7. ASSUME NEW k \in 1 .. (n - 1)
        PROVE  waitList'[k] = IF k < i THEN waitList[k] ELSE waitList[k + 1]
    <3>1. CASE k < i
      <4>1. waitList'[k] = a[k]
        BY <1>2, <2>3, <2>4, <2>5, <3>1
      <4>. QED  BY <1>2, <2>4, <3>1, <4>1
    <3>2. CASE k >= i
      <4>1. waitList'[k] = b[k - (i - 1)]
        BY <1>2, <2>3, <2>4, <2>5, <3>2
      <4>2. k - (i - 1) \in 1 .. (n - i) /\ (k - (i - 1)) + i = k + 1
        BY <1>2, <3>2
      <4>3. b[k - (i - 1)] = waitList[(k - (i - 1)) + i]
        BY <2>5, <4>2
      <4>. QED  BY <1>2, <3>2, <4>1, <4>2, <4>3
    <3>. QED  BY <1>2, <3>1, <3>2
  <2>. QED  BY <2>6, <2>7
<1> HIDE DEF n
<1>6. TypeOK'
  BY <1>a, <1>5 DEF TypeOK, Pc
<1>7. Involved' = Involved /\ Tokens' = Tokens
  BY <1>a DEF Involved, Tokens
<1>8. TokenInv' /\ CountInv' /\ IrqlInv'
  BY <1>a, <1>7 DEF TokenInv, CountInv, IrqlInv
<1>9. ListInv'
  <2>0. /\ \A k \in 1 .. n : pc[waitList[k]] = "asleep"
        /\ \A k, l \in 1 .. n : waitList[k] = waitList[l] => k = l
        /\ \A u \in Thread : pc[u] = "asleep" => \E k \in 1 .. n : waitList[k] = u
        /\ ~eventSignal
    BY <1>2 DEF ListInv, n
  <2>1. \A k \in 1 .. (n - 1) : /\ waitList'[k] \in Thread /\ waitList'[k] # t
                                /\ pc[waitList'[k]] = "asleep"
    <3>. SUFFICES ASSUME NEW k \in 1 .. (n - 1)
                  PROVE  /\ waitList'[k] \in Thread /\ waitList'[k] # t
                         /\ pc[waitList'[k]] = "asleep"
      OBVIOUS
    <3>0. i \in 1 .. n /\ waitList[i] = t
      BY <1>1 DEF n
    <3>1. CASE k < i
      <4>1. k \in 1 .. n /\ k # i /\ waitList'[k] = waitList[k]
        BY <1>2, <1>5, <3>1
      <4>. QED  BY <1>2, <2>0, <3>0, <4>1
    <3>2. CASE k >= i
      <4>1. k + 1 \in 1 .. n /\ k + 1 # i /\ waitList'[k] = waitList[k + 1]
        BY <1>2, <1>5, <3>2
      <4>. QED  BY <1>2, <2>0, <3>0, <4>1
    <3>. QED  BY <1>2, <3>1, <3>2
  <2>2. \A k \in 1 .. (n - 1) : pc'[waitList'[k]] = "asleep"
    BY <1>a, <2>1
  <2>3. \A k, l \in 1 .. (n - 1) : waitList'[k] = waitList'[l] => k = l
    BY <1>2, <1>5, <2>0
  <2>4. ASSUME NEW u \in Thread, pc'[u] = "asleep"
        PROVE  \E k \in 1 .. (n - 1) : waitList'[k] = u
    <3>1. pc[u] = "asleep" /\ u # t
      BY <1>a, <2>4
    <3>2. PICK k \in 1 .. n : waitList[k] = u
      BY <2>0, <3>1
    <3>3. CASE k < i
      BY <1>2, <1>5, <3>2, <3>3
    <3>4. CASE k > i
      <4>1. k - 1 \in 1 .. (n - 1) /\ waitList'[k - 1] = waitList[k]
        BY <1>2, <1>5, <3>4
      <4>. QED  BY <3>2, <4>1
    <3>5. k # i
      BY <1>1, <3>1, <3>2
    <3>. QED  BY <1>2, <3>3, <3>4, <3>5
  <2>. QED  BY <1>a, <1>5, <2>0, <2>2, <2>3, <2>4 DEF ListInv
<1>. QED  BY <1>6, <1>8, <1>9

\* The owner sets and clears what only it may touch.
LEMMA OwnerKeepsIInv ==
    ASSUME IInv, NEW t \in Thread, SetOwner(t) \/ ClearOwner(t) \/ Lower(t)
    PROVE  IInv'
<1>. USE DEF IInv
<1>a. /\ pc \in [Thread -> Pc] /\ UNCHANGED <<count, eventSignal, waitList>>
      /\ pc[t] \in {"acquired", "holding", "lower"}
  BY DEF TypeOK, SetOwner, ClearOwner, Lower, eventVars
<1>1. Involved' = Involved /\ Tokens' = Tokens
  BY <1>a DEF SetOwner, ClearOwner, Lower, Goto, Involved, Tokens
<1>2. TokenInv' /\ CountInv'
  BY <1>a, <1>1 DEF TokenInv, CountInv
<1>3. ListInv'
  BY <1>a DEF ListInv, SetOwner, ClearOwner, Lower, Goto, TypeOK
<1>4. CASE SetOwner(t)
  <2>1. saved[t] = entry[t] /\ entry[t] \in Irql \cup {"unsafe"} /\ oldIrql \in Irql
    BY <1>4 DEF IrqlInv, SetOwner, TypeOK
  <2>2. TypeOK'
    BY <1>4, <2>1 DEF TypeOK, SetOwner, eventVars, Goto, Pc
  <2>3. \A u \in Thread : pc[u] = "holding" => u = t
    BY <1>4 DEF TokenInv, Tokens, SetOwner
  <2>4. IrqlInv'
    BY <1>4, <1>a, <2>1, <2>3 DEF IrqlInv, SetOwner, Goto
  <2>. QED  BY <1>2, <1>3, <2>2, <2>4
<1>5. CASE ClearOwner(t)
  <2>1. TypeOK'
    BY <1>5 DEF TypeOK, ClearOwner, eventVars, Goto, Pc
  <2>2. IrqlInv'
    BY <1>5 DEF IrqlInv, ClearOwner, Goto, TypeOK
  <2>. QED  BY <1>2, <1>3, <2>1, <2>2
<1>6. CASE Lower(t)
  <2>1. TypeOK'
    BY <1>6 DEF TypeOK, Lower, eventVars, Goto, Pc
  <2>2. IrqlInv'
    BY <1>6 DEF IrqlInv, Lower, Goto, TypeOK
  <2>. QED  BY <1>2, <1>3, <2>1, <2>2
<1>. QED  BY <1>4, <1>5, <1>6

\* The owner gives the mutex up and signals if anybody else is involved.
LEMMA ReleaseKeepsIInv ==
    ASSUME IInv, NEW t \in Thread, Release(t)
    PROVE  IInv'
<1>. USE DEF IInv
<1>a. /\ pc \in [Thread -> Pc] /\ pc[t] = "release" /\ count \in Int
      /\ count' = count + 1
      /\ pc' = [pc EXCEPT ![t] = IF count + 1 <= 0 THEN "signal" ELSE "lower"]
      /\ UNCHANGED <<owner, oldIrql, eventSignal, waitList, entry, saved>>
  BY DEF TypeOK, Release, Goto, SomeoneWaits, eventVars
<1>1. Involved' = Involved \ {t} /\ t \in Involved /\ t \in Tokens
  BY <1>a DEF Involved, Tokens
<1>2. Cardinality(Involved') = Cardinality(Involved) - 1
  BY <1>1, FiniteInvolved, FS_RemoveElement
<1>3. IsFiniteSet(Involved') /\ Cardinality(Involved') \in Nat
  BY <1>1, FiniteInvolved, FS_RemoveElement, FS_CardinalityType
<1>4. CountInv' /\ count' <= 1
  BY <1>a, <1>2, <1>3, FiniteInvolved DEF CountInv
<1>5. TypeOK'
  BY <1>a, <1>4 DEF TypeOK, Pc
<1>6. count' = 1 <=> Involved' = {}
  BY <1>3, <1>4, FS_EmptySet DEF CountInv
<1>7. TokenInv'
  <2>1. Tokens = {t} /\ ~eventSignal
    BY <1>1 DEF TokenInv
  <2>2. CASE count + 1 <= 0
    <3>1. Tokens' = {t}
      BY <1>a, <2>1, <2>2 DEF Tokens
    <3>. QED  BY <1>a, <1>6, <2>1, <2>2, <3>1 DEF TokenInv
  <2>3. CASE ~(count + 1 <= 0)
    <3>1. Tokens' = {}
      BY <1>a, <2>1, <2>3 DEF Tokens
    <3>. QED  BY <1>a, <1>4, <1>6, <2>1, <2>3, <3>1 DEF TokenInv
  <2>. QED  BY <2>2, <2>3
<1>8. ListInv' /\ IrqlInv'
  BY <1>a DEF ListInv, IrqlInv, TypeOK
<1>. QED  BY <1>4, <1>5, <1>7, <1>8

\* The mutex is handed over, or left to whoever is about to wait.
LEMMA SignalKeepsIInv ==
    ASSUME IInv, NEW t \in Thread, Signal(t)
    PROVE  IInv'
<1>. USE DEF IInv
<1>a. /\ pc \in [Thread -> Pc] /\ pc[t] = "signal" /\ waitList \in Seq(Thread)
      /\ UNCHANGED <<count, owner, oldIrql, entry, saved>>
  BY DEF TypeOK, Signal
<1>b. Tokens = {t} /\ ~eventSignal
  BY <1>a DEF TokenInv, Tokens
<1>1. CASE waitList = << >>
  <2>1. /\ eventSignal' = TRUE /\ waitList' = waitList
        /\ pc' = [pc EXCEPT ![t] = "lower"]
    BY <1>1 DEF Signal, Goto
  <2>2. Tokens' = {} /\ Involved' = Involved
    BY <1>a, <1>b, <2>1 DEF Tokens, Involved
  <2>3. TypeOK' /\ TokenInv' /\ CountInv' /\ IrqlInv'
    BY <1>a, <1>b, <2>1, <2>2 DEF TypeOK, Pc, TokenInv, CountInv, IrqlInv
  <2>4. ListInv'
    BY <1>a, <1>1, <2>1 DEF ListInv
  <2>. QED  BY <2>3, <2>4
<1>2. CASE waitList # << >>
  <2> DEFINE h == Head(waitList)
  <2>1. /\ eventSignal' = eventSignal /\ waitList' = Tail(waitList)
        /\ pc' = [pc EXCEPT ![t] = "lower", ![h] = "acquired"]
    BY <1>2 DEF Signal
  <2>2. /\ h \in Thread /\ h = waitList[1] /\ Len(waitList) \in Nat \ {0}
        /\ waitList' \in Seq(Thread) /\ Len(waitList') = Len(waitList) - 1
        /\ \A i \in 1 .. Len(waitList') : waitList'[i] = waitList[i + 1]
    BY <1>a, <1>2, <2>1
  <2>3. pc[h] = "asleep" /\ h # t
    BY <1>a, <2>2 DEF ListInv
  <2> HIDE DEF h
  <2>4. Tokens' = {h} /\ Involved' = Involved
    BY <1>a, <1>b, <2>1, <2>2, <2>3 DEF Tokens, Involved
  <2>5. TypeOK' /\ TokenInv' /\ CountInv'
    BY <1>a, <1>b, <2>1, <2>2, <2>4 DEF TypeOK, Pc, TokenInv, CountInv
  <2>6. IrqlInv'
    BY <1>a, <2>1, <2>2, <2>3 DEF IrqlInv
  <2>7. ListInv'
    <3>1. \A i \in 1 .. Len(waitList') : i + 1 \in 1 .. Len(waitList)
      BY <2>2
    <3>2. \A i \in 1 .. Len(waitList') :
             waitList'[i] \in Thread /\ waitList'[i] # h /\ pc[waitList'[i]] = "asleep"
      BY <1>a, <2>2, <3>1 DEF ListInv
    <3>3. \A i \in 1 .. Len(waitList') : pc'[waitList'[i]] = "asleep"
      BY <1>a, <2>1, <3>2
    <3>4. \A i, j \in 1 .. Len(waitList') : waitList'[i] = waitList'[j] => i = j
      BY <2>2, <3>1 DEF ListInv
    <3>5. ASSUME NEW u \in Thread, pc'[u] = "asleep"
          PROVE  \E i \in 1 .. Len(waitList') : waitList'[i] = u
      <4>1. pc[u] = "asleep" /\ u # h
        BY <1>a, <2>1, <2>2, <2>3, <3>5
      <4>2. PICK k \in 1 .. Len(waitList) : waitList[k] = u
        BY <4>1 DEF ListInv
      <4>3. k # 1 /\ k - 1 \in 1 .. Len(waitList') /\ waitList'[k - 1] = waitList[k]
        BY <2>2, <4>1, <4>2
      <4>. QED  BY <4>2, <4>3
    <3>. QED  BY <1>b, <2>1, <3>3, <3>4, <3>5 DEF ListInv
  <2>. QED  BY <2>5, <2>6, <2>7
<1>. QED  BY <1>1, <1>2

LEMMA NextIInv == IInv /\ [Next]_vars => IInv'
<1>. SUFFICES ASSUME IInv, [Next]_vars PROVE IInv'
  OBVIOUS
<1>1. CASE UNCHANGED vars
  BY <1>1 DEF vars, IInv, TypeOK, TokenInv, ListInv, IrqlInv, CountInv,
              Involved, Tokens
<1>2. ASSUME NEW t \in Thread, Step(t) PROVE IInv'
  BY <1>2, AcquireKeepsIInv, WaitKeepsIInv, ApcKeepsIInv, OwnerKeepsIInv,
     ReleaseKeepsIInv, SignalKeepsIInv DEF Step
<1>. QED  BY <1>1, <1>2 DEF Next

-----------------------------------------------------------------------------
(* The theorems *)

\* The invariant holds in every behaviour of the routines.
THEOREM Invariance == Spec => []IInv
<1>1. Init => IInv  BY InitIInv
<1>2. IInv /\ [Next]_vars => IInv'  BY NextIInv
<1>. QED  BY <1>1, <1>2, PTL DEF Spec

\* Count never exceeds one, and every local variable keeps its type.
THEOREM TypeCorrect == Spec => []TypeOK
<1>1. IInv => TypeOK  BY DEF IInv
<1>. QED  BY <1>1, Invariance, PTL

\* Every thread leaves the safe routines at the IRQL it came in with.
THEOREM IrqlCorrect == Spec => []IrqlRestored
<1>1. IInv => IrqlRestored  BY DEF IInv, IrqlInv, IrqlRestored
<1>. QED  BY <1>1, Invariance, PTL

\* Count is exact at every step.
THEOREM CountCorrect == Spec => []CountExact
<1>1. IInv => CountExact  BY DEF IInv, CountInv, CountExact, Involved
<1>. QED  BY <1>1, Invariance, PTL

\* No sleeper is left behind.
THEOREM NoWakeupLost == Spec => []NoLostWakeup
<1>1. ASSUME IInv, \A t \in Thread : pc[t] \in {"idle", "asleep"}
      PROVE  \A t \in Thread : pc[t] # "asleep"
  <2>1. Tokens = {}
    BY <1>1 DEF Tokens
  <2>2. CASE eventSignal
    BY <1>1, <2>2 DEF IInv, ListInv
  <2>3. CASE ~eventSignal
    <3>1. Involved = {}
      BY <1>1, <2>1, <2>3 DEF IInv, TokenInv
    <3>. QED  BY <3>1 DEF Involved
  <2>. QED  BY <2>2, <2>3
<1>2. IInv => NoLostWakeup
  BY <1>1 DEF NoLostWakeup
<1>. QED  BY <1>2, Invariance, PTL

\* A step of the routines is a step of the mutex, or invisible to it.
LEMMA NextContract ==
    ASSUME IInv, [Next]_vars
    PROVE  [Contract!ContractNext]_Holders
<1>. SUFFICES ASSUME Holders' # Holders PROVE Contract!ContractNext
  OBVIOUS
<1>. USE DEF IInv
<1>0. IInv'
  BY NextIInv
<1>1. PICK t \in Thread : Step(t)
  BY DEF Next, vars, Holders
<1>2. \A u, v \in Holders : u = v
  BY DEF TokenInv, Tokens, Holders
<1>3. \A u, v \in Holders' : u = v
  BY <1>0 DEF TokenInv, Tokens, Holders
<1>4. CASE Holders = {}
  <2>1. PICK u \in Thread : u \in Holders'
    BY <1>4 DEF Holders
  <2>2. Holders' = {u}
    BY <1>3, <2>1
  <2>. QED  BY <1>4, <2>2 DEF Contract!ContractNext, Contract!Enter
<1>5. CASE Holders # {}
  <2>1. PICK u \in Thread : u \in Holders
    BY <1>5 DEF Holders
  <2>2. Holders = {u} /\ Tokens = {u} /\ ~eventSignal
    BY <1>2, <2>1 DEF TokenInv, Tokens, Holders
  <2>3. pc[t] # "signal" /\ count # 1
    <3>1. u \in Involved
      BY <2>1 DEF Involved, Holders
    <3>2. Cardinality(Involved) # 0
      BY <3>1, FiniteInvolved, FS_EmptySet
    <3>. QED
      BY <2>1, <2>2, <3>2, FiniteInvolved DEF Tokens, CountInv, Holders
  <2>4. Holders' \subseteq Holders
    <3>0. pc \in [Thread -> Pc] /\ count \in Int
      BY DEF TypeOK
    <3>1. CASE Acquire(t)
      <4>1. pc' = [pc EXCEPT ![t] = "wait"]
        BY <2>3, <3>0, <3>1 DEF Acquire, Goto, GotIt
      <4>. QED  BY <3>0, <4>1 DEF Holders
    <3>2. CASE TryToAcquire(t) \/ Signal(t)
      BY <2>3, <3>2 DEF TryToAcquire, Signal
    <3>3. CASE WaitForEvent(t) \/ KernelApc(t)
      <4>1. PICK p \in {"asleep", "wait"} : pc' = [pc EXCEPT ![t] = p]
        BY <2>2, <3>3 DEF WaitForEvent, KernelApc, Goto
      <4>. QED  BY <3>0, <4>1 DEF Holders
    <3>4. CASE SetOwner(t) \/ ClearOwner(t)
      <4>1. t \in Holders /\ \E p \in Pc : pc' = [pc EXCEPT ![t] = p]
        BY <3>4 DEF SetOwner, ClearOwner, Goto, Holders, Pc
      <4>. QED  BY <3>0, <4>1 DEF Holders
    <3>5. CASE Release(t) \/ Lower(t)
      <4>1. PICK p \in {"signal", "lower", "idle"} : pc' = [pc EXCEPT ![t] = p]
        BY <3>5 DEF Release, Lower, Goto
      <4>. QED  BY <3>0, <4>1 DEF Holders
    <3>. QED  BY <1>1, <3>1, <3>2, <3>3, <3>4, <3>5 DEF Step
  <2>5. Holders' = {}
    BY <2>2, <2>4
  <2>. QED  BY <2>2, <2>5 DEF Contract!ContractNext, Contract!Leave
<1>. QED  BY <1>4, <1>5

\* The fast mutex implements a mutex.
THEOREM MutualExclusion == Spec => ImplementsMutex
<1>1. Init => Contract!ContractInit
  BY DEF Init, Contract!ContractInit, Holders
<1>2. IInv /\ [Next]_vars => [Contract!ContractNext]_Holders
  BY NextContract
<1>. QED
  BY <1>1, <1>2, Invariance, PTL DEF Spec, ImplementsMutex, Contract!ContractSpec
=============================================================================
