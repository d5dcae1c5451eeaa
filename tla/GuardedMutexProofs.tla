------------------------ MODULE GuardedMutexProofs ------------------------
(***************************************************************************)
(* Guarded mutexes are correct for any finite set of threads.              *)
(*                                                                         *)
(* Mutual exclusion only needs the lock bit.  That no wake-up is lost      *)
(* rests on what the other fields of Count mean at every step: the woken   *)
(* bit is a token that exactly one party holds, and the waiters are        *)
(* counted exactly.                                                        *)
(***************************************************************************)
EXTENDS GuardedMutex, FiniteSetTheorems, TLAPS

\* The lock bit is set exactly when nobody holds the mutex.
LockInv == /\ Free(count) <=> Holders = {}
           /\ \A t, u \in Holders : t = u

\* The gate's list holds the sleepers, each once, and only while it is closed.
GateInv == /\ \A i \in 1 .. Len(gateList) : pc[gateList[i]] = "asleep"
           /\ \A i, j \in 1 .. Len(gateList) : gateList[i] = gateList[j] => i = j
           /\ \A t \in Thread : pc[t] = "asleep" =>
                 \E i \in 1 .. Len(gateList) : gateList[i] = t
           /\ gateSignal => gateList = << >>

\* The woken bit is a token: it is set exactly when a wake-up is under way,
\* and at most one is.
TokenInv == /\ \A t, u \in InTransit : t = u
            /\ gateSignal => InTransit = {}
            /\ Woken(count) <=> gateSignal \/ InTransit # {}

\* What threads still know about the value they read.
OldInv == \A t \in Thread :
             /\ pc[t] = "change" /\ woken[t] => Woken(old[t])
             /\ pc[t] = "wakeOne" => /\ Free(old[t]) /\ ~Woken(old[t])
                                     /\ old[t] # 1

\* A wake-up that has left the count but not yet reached a waiter.
WaitSet == {t \in Thread : pc[t] \in {"wait", "asleep"}}
Pending == gateSignal \/ \E t \in Thread : pc[t] = "signal"

WaitInv == Cardinality(WaitSet) = Waiters(count) + (IF Pending THEN 1 ELSE 0)

\* A free mutex with waiters has a thread about to wake one of them.
ChosenInv == Free(count) /\ ~Woken(count) /\ count # 1 =>
                \E t \in Thread : pc[t] = "wakeOne" /\ old[t] = count

IInv == /\ TypeOK
        /\ LockInv
        /\ OwnerIsHolder
        /\ GateInv
        /\ TokenInv
        /\ OldInv
        /\ WaitInv
        /\ ChosenInv

-----------------------------------------------------------------------------
(* Arithmetic on Count *)

\* Taking the lock bit leaves the other fields alone.
LEMMA LockBit ==
    ASSUME NEW v \in Nat, Free(v)
    PROVE  /\ v - 1 \in Nat /\ ~Free(v - 1)
           /\ Woken(v - 1) <=> Woken(v)
           /\ Waiters(v - 1) = Waiters(v)
BY DEF Free, Woken, Waiters

\* Giving it back does too.
LEMMA UnlockBit ==
    ASSUME NEW v \in Nat, ~Free(v)
    PROVE  /\ v + 1 \in Nat /\ Free(v + 1)
           /\ Woken(v + 1) <=> Woken(v)
           /\ Waiters(v + 1) = Waiters(v)
           /\ v + 1 = 1 <=> v = 0
BY DEF Free, Woken, Waiters

\* A new waiter is counted.
LEMMA NewWaiter ==
    ASSUME NEW v \in Nat, ~Free(v)
    PROVE  /\ v + 4 \in Nat /\ ~Free(v + 4)
           /\ Woken(v + 4) <=> Woken(v)
           /\ Waiters(v + 4) = Waiters(v) + 1
BY DEF Free, Woken, Waiters

\* Adding the woken bit where it is set carries into the waiters.
LEMMA WokenCarry ==
    ASSUME NEW v \in Nat, ~Free(v), Woken(v)
    PROVE  /\ v + 2 \in Nat /\ ~Free(v + 2)
           /\ ~Woken(v + 2)
           /\ Waiters(v + 2) = Waiters(v) + 1
BY DEF Free, Woken, Waiters

\* The woken waiter takes the lock and drops its bit.
LEMMA WokenLock ==
    ASSUME NEW v \in Nat, Free(v), Woken(v)
    PROVE  /\ v - 3 \in Nat /\ ~Free(v - 3)
           /\ ~Woken(v - 3)
           /\ Waiters(v - 3) = Waiters(v)
BY DEF Free, Woken, Waiters

\* Choosing a waiter borrows it from the waiters for the woken bit.
LEMMA ChooseWaiter ==
    ASSUME NEW v \in Nat, Free(v), ~Woken(v), v # 1
    PROVE  /\ v - 2 \in Nat /\ Free(v - 2)
           /\ Woken(v - 2)
           /\ Waiters(v - 2) = Waiters(v) - 1
BY DEF Free, Woken, Waiters

LEMMA WaitersNat == ASSUME NEW v \in Nat PROVE Waiters(v) \in Nat
BY DEF Waiters

\* There are finitely many waiters.
LEMMA FiniteWaitSet == IsFiniteSet(WaitSet) /\ Cardinality(WaitSet) \in Nat
<1>1. WaitSet \in SUBSET Thread
  BY DEF WaitSet
<1>. QED  BY <1>1, ThreadAssumption, FS_Subset, FS_CardinalityType

-----------------------------------------------------------------------------
(* The invariant is inductive *)

LEMMA InitIInv == Init => IInv
<1>. SUFFICES ASSUME Init PROVE IInv
  OBVIOUS
<1>. USE DEF Init, GM_LOCK_BIT
<1>0. Free(1) /\ ~Woken(1) /\ Waiters(1) = 0
  BY DEF Free, Woken, Waiters
<1>1. TypeOK
  <2>1. gateList \in Seq(Thread)
    OBVIOUS
  <2>. QED  BY <2>1 DEF TypeOK, Pc
<1>5. OwnerIsHolder /\ OldInv /\ ChosenInv
  BY <1>0 DEF OwnerIsHolder, OldInv, ChosenInv
<1>4. GateInv
  BY DEF GateInv
<1>2. Holders = {} /\ InTransit = {} /\ WaitSet = {} /\ ~Pending
  BY DEF Holders, InTransit, WaitSet, Pending
<1>3. LockInv /\ TokenInv /\ WaitInv
  BY <1>0, <1>2, FS_EmptySet DEF LockInv, TokenInv, WaitInv
<1>. QED  BY <1>1, <1>3, <1>4, <1>5 DEF IInv

\* Steps that only move a thread along, without touching Count or the gate.
LEMMA QuietKeepsIInv ==
    ASSUME IInv, NEW t \in Thread, Contend(t) \/ SetOwner(t) \/ ClearOwner(t)
    PROVE  IInv'
<1>. USE DEF IInv
<1>1. UNCHANGED <<count, gateSignal, gateList, woken>>
  BY DEF Contend, SetOwner, ClearOwner, gateVars
<1>2. TypeOK'
  BY DEF TypeOK, Pc, Contend, SetOwner, ClearOwner, gateVars, Goto
<1>3. Holders' = Holders /\ InTransit' = InTransit /\ WaitSet' = WaitSet
  BY DEF TypeOK, Contend, SetOwner, ClearOwner, gateVars, Goto,
         Holders, InTransit, WaitSet
<1>4. Pending' = Pending
  BY DEF TypeOK, Contend, SetOwner, ClearOwner, gateVars, Goto, Pending
<1>5. LockInv' /\ TokenInv' /\ WaitInv'
  BY <1>1, <1>3, <1>4 DEF LockInv, TokenInv, WaitInv
<1>6. OwnerIsHolder'
  <2>1. \A u \in Thread : pc[u] = "holding" => u \in Holders
    BY DEF Holders
  <2>2. t \in Holders \/ UNCHANGED owner
    BY DEF Contend, SetOwner, ClearOwner, Holders
  <2>. QED
    BY <2>1, <2>2
    DEF OwnerIsHolder, LockInv, TypeOK, Contend, SetOwner, ClearOwner, Goto
<1>7. GateInv'
  <2>1. \A u \in Thread : pc'[u] = "asleep" <=> pc[u] = "asleep"
    BY DEF TypeOK, Contend, SetOwner, ClearOwner, Goto
  <2>2. \A i \in 1 .. Len(gateList) : gateList[i] \in Thread
    BY DEF TypeOK
  <2>. QED  BY <1>1, <2>1, <2>2 DEF GateInv
<1>8. OldInv'
  BY <1>1 DEF OldInv, TokenInv, InTransit, TypeOK, Contend, SetOwner, ClearOwner, Goto
<1>9. ChosenInv'
  BY <1>1 DEF ChosenInv, TypeOK, Contend, SetOwner, ClearOwner, Goto
<1>. QED  BY <1>2, <1>5, <1>6, <1>7, <1>8, <1>9

\* A thread takes the lock bit and, if it was the woken waiter, its bit.
LEMMA LockKeepsIInv ==
    ASSUME IInv, NEW t \in Thread,
           pc[t] = "idle" \/ pc[t] = "change",
           pc[t] = "idle" => count' = count - 1,
           pc[t] = "change" => count = old[t] /\ count' = RemoveBits(count, woken[t]),
           Free(count), Goto(t, "acquired"),
           UNCHANGED <<owner, gateSignal, gateList, old, woken>>
    PROVE  IInv'
<1>. USE DEF IInv
<1>a. count \in Nat /\ pc \in [Thread -> Pc] /\ woken[t] \in BOOLEAN
  BY DEF TypeOK
<1>b. pc' = [pc EXCEPT ![t] = "acquired"]
  BY DEF Goto
<1>1. /\ count' \in Nat /\ ~Free(count') /\ Waiters(count') = Waiters(count)
      /\ Woken(count') <=> Woken(count) /\ ~(pc[t] = "change" /\ woken[t])
  <2>1. CASE pc[t] = "change" /\ woken[t]
    <3>1. Woken(count)
      BY <2>1 DEF OldInv
    <3>. QED
      BY <1>a, <2>1, <3>1, WokenLock DEF RemoveBits, GM_LOCK_BIT, GM_LOCK_WAITER_WOKEN
  <2>2. CASE ~(pc[t] = "change" /\ woken[t])
    <3>1. count' = count - 1
      BY <2>2 DEF RemoveBits, GM_LOCK_BIT
    <3>. QED  BY <1>a, <2>2, <3>1, LockBit
  <2>. QED  BY <2>1, <2>2
<1>2. TypeOK'
  BY <1>1, <1>b DEF TypeOK, Pc
<1>3. LockInv'
  <2>1. Holders' = {t}
    BY <1>a, <1>b DEF LockInv, Holders
  <2>. QED  BY <1>1, <2>1 DEF LockInv
<1>4. OwnerIsHolder'
  BY <1>a, <1>b DEF OwnerIsHolder
<1>5. GateInv'
  BY <1>a, <1>b DEF GateInv, TypeOK
<1>6. TokenInv'
  <2>1. InTransit' = InTransit \ {t}
    BY <1>a, <1>b DEF InTransit
  <2>2. t \in InTransit <=> pc[t] = "change" /\ woken[t]
    BY DEF InTransit
  <2>. QED  BY <1>1, <2>1, <2>2 DEF TokenInv
<1>7. OldInv'
  BY <1>a, <1>b DEF OldInv
<1>8. WaitInv'
  <2>1. WaitSet' = WaitSet
    BY <1>a, <1>b DEF WaitSet
  <2>2. Pending' = Pending
    BY <1>a, <1>b DEF Pending
  <2>. QED  BY <1>1, <2>1, <2>2 DEF WaitInv
<1>9. ChosenInv'
  BY <1>1 DEF ChosenInv
<1>. QED  BY <1>2, <1>3, <1>4, <1>5, <1>6, <1>7, <1>8, <1>9

\* A contender joins the waiters.
LEMMA JoinKeepsIInv ==
    ASSUME IInv, NEW t \in Thread, pc[t] = "change", count = old[t],
           ~Free(count), count' = count + BitsToAdd(woken[t]), Goto(t, "wait"),
           UNCHANGED <<owner, gateSignal, gateList, old, woken>>
    PROVE  IInv'
<1>. USE DEF IInv
<1>a. count \in Nat /\ pc \in [Thread -> Pc] /\ woken[t] \in BOOLEAN
  BY DEF TypeOK
<1>b. pc' = [pc EXCEPT ![t] = "wait"]
  BY DEF Goto
<1>1. /\ count' \in Nat /\ ~Free(count') /\ Waiters(count') = Waiters(count) + 1
      /\ Woken(count') <=> Woken(count) /\ ~woken[t]
  <2>1. CASE woken[t]
    <3>1. Woken(count)
      BY <2>1 DEF OldInv
    <3>. QED
      BY <1>a, <2>1, <3>1, WokenCarry DEF BitsToAdd, GM_LOCK_WAITER_WOKEN
  <2>2. CASE ~woken[t]
    BY <1>a, <2>2, NewWaiter DEF BitsToAdd, GM_LOCK_WAITER_INC
  <2>. QED  BY <2>1, <2>2
<1>2. TypeOK'
  BY <1>1, <1>b DEF TypeOK, Pc
<1>3. LockInv'
  <2>1. Holders' = Holders
    BY <1>a, <1>b DEF Holders
  <2>. QED  BY <1>1, <2>1 DEF LockInv
<1>4. OwnerIsHolder'
  BY <1>a, <1>b DEF OwnerIsHolder
<1>5. GateInv'
  BY <1>a, <1>b DEF GateInv, TypeOK
<1>6. TokenInv'
  <2>1. InTransit' = InTransit \ {t}
    BY <1>a, <1>b DEF InTransit
  <2>2. t \in InTransit <=> woken[t]
    BY DEF InTransit
  <2>. QED  BY <1>1, <2>1, <2>2 DEF TokenInv
<1>7. OldInv'
  BY <1>a, <1>b DEF OldInv
<1>8. WaitInv'
  <2>1. WaitSet' = WaitSet \cup {t} /\ t \notin WaitSet
    BY <1>a, <1>b DEF WaitSet
  <2>2. Pending' = Pending
    BY <1>a, <1>b DEF Pending
  <2>3. Cardinality(WaitSet') = Cardinality(WaitSet) + 1
    BY <2>1, FiniteWaitSet, FS_AddElement
  <2>. QED  BY <1>a, <1>1, <2>2, <2>3, WaitersNat DEF WaitInv
<1>9. ChosenInv'
  BY <1>1 DEF ChosenInv
<1>. QED  BY <1>2, <1>3, <1>4, <1>5, <1>6, <1>7, <1>8, <1>9

\* A thread enters the contended case, or reads the count again.
LEMMA RetryKeepsIInv ==
    ASSUME IInv, NEW t \in Thread,
           \/ /\ pc[t] = "idle" /\ Goto(t, "contend")
              /\ woken' = [woken EXCEPT ![t] = FALSE] /\ UNCHANGED old
           \/ /\ pc[t] = "change" /\ old' = [old EXCEPT ![t] = count]
              /\ UNCHANGED <<pc, woken>>,
           UNCHANGED <<count, owner, gateSignal, gateList>>
    PROVE  IInv'
<1>. USE DEF IInv, Goto
<1>1. TypeOK'
  BY DEF TypeOK, Pc
<1>2. /\ Holders' = Holders /\ InTransit' = InTransit /\ WaitSet' = WaitSet
      /\ Pending' = Pending
  BY DEF TypeOK, Holders, InTransit, WaitSet, Pending
<1>3. LockInv' /\ TokenInv' /\ WaitInv'
  BY <1>2 DEF LockInv, TokenInv, WaitInv
<1>4. OwnerIsHolder' /\ GateInv'
  BY DEF OwnerIsHolder, GateInv, TypeOK
<1>5. OldInv' /\ ChosenInv'
  BY DEF OldInv, ChosenInv, TokenInv, InTransit, TypeOK
<1>. QED  BY <1>1, <1>3, <1>4, <1>5

\* A waiter at the gate passes through it or goes to sleep.
LEMMA GateKeepsIInv ==
    ASSUME IInv, NEW t \in Thread, WaitForGate(t)
    PROVE  IInv'
<1>. USE DEF IInv
<1>a. /\ count \in Nat /\ pc \in [Thread -> Pc] /\ woken \in [Thread -> BOOLEAN]
      /\ gateList \in Seq(Thread) /\ gateSignal \in BOOLEAN /\ pc[t] = "wait"
      /\ UNCHANGED <<count, owner, old>>
  BY DEF TypeOK, WaitForGate
<1>1. CASE gateSignal
  <2>1. /\ ~gateSignal' /\ gateList' = gateList
        /\ pc' = [pc EXCEPT ![t] = "contend"] /\ woken' = [woken EXCEPT ![t] = TRUE]
    BY <1>1 DEF WaitForGate, Goto
  <2>2. InTransit = {} /\ InTransit' = {t} /\ Woken(count)
    BY <1>a, <1>1, <2>1 DEF TokenInv, InTransit
  <2>3. TypeOK'
    BY <1>1, <1>a DEF TypeOK, Pc, WaitForGate, Goto
  <2>4. TokenInv'
    BY <1>a, <2>1, <2>2 DEF TokenInv
  <2>5. WaitSet' = WaitSet \ {t} /\ t \in WaitSet
    BY <1>a, <2>1 DEF WaitSet
  <2>6. Pending /\ ~Pending'
    BY <1>a, <1>1, <2>1, <2>2 DEF Pending, InTransit
  <2>7. Cardinality(WaitSet') = Cardinality(WaitSet) - 1
    BY <2>5, FiniteWaitSet, FS_RemoveElement
  <2>8. WaitInv'
    BY <1>a, <2>6, <2>7, WaitersNat DEF WaitInv
  <2>9. Holders' = Holders
    BY <1>a, <2>1 DEF Holders
  <2>10. LockInv' /\ OwnerIsHolder'
    BY <1>a, <2>1, <2>9 DEF LockInv, OwnerIsHolder
  <2>11. GateInv'
    BY <1>a, <2>1 DEF GateInv
  <2>12. OldInv' /\ ChosenInv'
    BY <1>a, <2>1 DEF OldInv, ChosenInv
  <2>. QED  BY <2>3, <2>4, <2>8, <2>10, <2>11, <2>12
<1>2. CASE ~gateSignal
  <2>1. /\ gateSignal' = gateSignal /\ gateList' = Append(gateList, t)
        /\ pc' = [pc EXCEPT ![t] = "asleep"] /\ woken' = woken
    BY <1>2 DEF WaitForGate, Goto
  <2>2. TypeOK'
    <3>1. gateList' \in Seq(Thread)
      BY <1>a, <2>1
    <3>. QED  BY <1>a, <2>1, <3>1 DEF TypeOK, Pc
  <2>3. /\ Holders' = Holders /\ InTransit' = InTransit /\ WaitSet' = WaitSet
        /\ Pending' = Pending
    BY <1>a, <1>2, <2>1 DEF Holders, InTransit, WaitSet, Pending
  <2>4. LockInv' /\ TokenInv' /\ WaitInv'
    BY <1>a, <1>2, <2>1, <2>3 DEF LockInv, TokenInv, WaitInv
  <2>5. OwnerIsHolder' /\ OldInv' /\ ChosenInv'
    BY <1>a, <2>1 DEF OwnerIsHolder, OldInv, ChosenInv
  <2>6. GateInv'
    <3>1. \A i \in 1 .. Len(gateList) : gateList[i] # t /\ gateList[i] \in Thread
      BY <1>a DEF GateInv
    <3>2. /\ Len(gateList') = Len(gateList) + 1 /\ Len(gateList) \in Nat
          /\ gateList'[Len(gateList) + 1] = t
          /\ \A i \in 1 .. Len(gateList) : gateList'[i] = gateList[i]
      BY <1>a, <2>1
    <3>3. 1 .. Len(gateList') = 1 .. Len(gateList) \cup {Len(gateList) + 1}
      BY <3>2
    <3>4. \A i \in 1 .. Len(gateList') : pc'[gateList'[i]] = "asleep"
      BY <1>a, <2>1, <3>1, <3>2, <3>3 DEF GateInv
    <3>5. \A i, j \in 1 .. Len(gateList') : gateList'[i] = gateList'[j] => i = j
      BY <3>1, <3>2, <3>3 DEF GateInv
    <3>6. \A u \in Thread : pc'[u] = "asleep" =>
             \E i \in 1 .. Len(gateList') : gateList'[i] = u
      BY <1>a, <2>1, <3>2, <3>3 DEF GateInv
    <3>. QED  BY <1>2, <2>1, <3>4, <3>5, <3>6 DEF GateInv
  <2>. QED  BY <2>2, <2>4, <2>5, <2>6
<1>. QED  BY <1>1, <1>2

\* The owner gives the lock bit back.
LEMMA ReleaseKeepsIInv ==
    ASSUME IInv, NEW t \in Thread, Release(t)
    PROVE  IInv'
<1>. USE DEF IInv
<1>a. /\ count \in Nat /\ pc \in [Thread -> Pc] /\ old \in [Thread -> Nat]
      /\ pc[t] = "release" /\ UNCHANGED <<owner, gateSignal, gateList, woken>>
      /\ count' = count + 1 /\ old' = [old EXCEPT ![t] = count + 1]
      /\ pc' = [pc EXCEPT ![t] = IF HasToWake(count) THEN "wakeOne" ELSE "idle"]
  BY DEF TypeOK, Release, Goto, gateVars, GM_LOCK_BIT
<1>1. t \in Holders /\ ~Free(count)
  BY <1>a DEF Holders, LockInv
<1>2. /\ count' \in Nat /\ Free(count') /\ Waiters(count') = Waiters(count)
      /\ Woken(count') <=> Woken(count)
      /\ count' = 1 <=> count = 0
  BY <1>a, <1>1, UnlockBit
<1>3. TypeOK'
  BY <1>a, <1>2 DEF TypeOK, Pc
<1>4. LockInv'
  <2>1. Holders' = Holders \ {t}
    BY <1>a DEF Holders
  <2>. QED  BY <1>1, <1>2, <2>1 DEF LockInv
<1>5. InTransit' = InTransit /\ WaitSet' = WaitSet /\ Pending' = Pending
  BY <1>a DEF InTransit, WaitSet, Pending
<1>6. TokenInv' /\ WaitInv'
  BY <1>a, <1>2, <1>5 DEF TokenInv, WaitInv
<1>7. OwnerIsHolder' /\ GateInv'
  BY <1>a DEF OwnerIsHolder, GateInv, TypeOK
<1>8. OldInv'
  BY <1>a, <1>2 DEF OldInv, HasToWake
<1>9. ChosenInv'
  BY <1>a, <1>2 DEF ChosenInv, HasToWake
<1>. QED  BY <1>3, <1>4, <1>6, <1>7, <1>8, <1>9

\* A waiter is chosen, unless the count has changed.
LEMMA WakeOneKeepsIInv ==
    ASSUME IInv, NEW t \in Thread, WakeOne(t)
    PROVE  IInv'
<1>. USE DEF IInv
<1>a. /\ count \in Nat /\ pc \in [Thread -> Pc] /\ old \in [Thread -> Nat]
      /\ gateSignal \in BOOLEAN
      /\ pc[t] = "wakeOne" /\ UNCHANGED <<owner, gateSignal, gateList, old, woken>>
  BY DEF TypeOK, WakeOne, gateVars
<1>1. CASE count = old[t]
  <2>1. count' = count - 2 /\ pc' = [pc EXCEPT ![t] = "signal"]
    BY <1>a, <1>1 DEF WakeOne, Goto, GM_LOCK_WAITER_WOKEN, GM_LOCK_WAITER_INC
  <2>2. Free(count) /\ ~Woken(count) /\ count # 1
    BY <1>a, <1>1 DEF OldInv
  <2>3. /\ count' \in Nat /\ Free(count') /\ Woken(count')
        /\ Waiters(count') = Waiters(count) - 1
    BY <1>a, <2>1, <2>2, ChooseWaiter
  <2>4. TypeOK'
    BY <1>a, <2>1, <2>3 DEF TypeOK, Pc
  <2>5. Holders' = Holders /\ WaitSet' = WaitSet
    BY <1>a, <2>1 DEF Holders, WaitSet
  <2>6. ~gateSignal /\ InTransit = {} /\ InTransit' = {t}
    BY <1>a, <2>1, <2>2 DEF TokenInv, InTransit
  <2>7. ~Pending /\ Pending'
    BY <1>a, <2>1, <2>6 DEF Pending, InTransit
  <2>8. LockInv'
    BY <2>2, <2>3, <2>5 DEF LockInv
  <2>9. TokenInv'
    BY <1>a, <2>3, <2>6 DEF TokenInv
  <2>10. WaitInv'
    BY <1>a, <2>3, <2>5, <2>7, WaitersNat DEF WaitInv
  <2>11. OwnerIsHolder' /\ GateInv'
    BY <1>a, <2>1 DEF OwnerIsHolder, GateInv, TypeOK
  <2>12. OldInv' /\ ChosenInv'
    BY <1>a, <2>1, <2>3 DEF OldInv, ChosenInv
  <2>. QED  BY <2>4, <2>8, <2>9, <2>10, <2>11, <2>12
<1>2. CASE count # old[t]
  <2>1. count' = count /\ pc' = [pc EXCEPT ![t] = "idle"]
    BY <1>2 DEF WakeOne, Goto
  <2>2. TypeOK'
    BY <1>a, <2>1 DEF TypeOK, Pc
  <2>3. /\ Holders' = Holders /\ InTransit' = InTransit /\ WaitSet' = WaitSet
        /\ Pending' = Pending
    BY <1>a, <2>1 DEF Holders, InTransit, WaitSet, Pending
  <2>4. LockInv' /\ TokenInv' /\ WaitInv'
    BY <1>a, <2>1, <2>3 DEF LockInv, TokenInv, WaitInv
  <2>5. OwnerIsHolder' /\ GateInv' /\ OldInv' /\ ChosenInv'
    BY <1>a, <1>2, <2>1 DEF OwnerIsHolder, GateInv, OldInv, ChosenInv, TypeOK
  <2>. QED  BY <2>2, <2>4, <2>5
<1>. QED  BY <1>1, <1>2

\* The chosen waiter is woken, or the gate left open for it.
LEMMA SignalKeepsIInv ==
    ASSUME IInv, NEW t \in Thread, Signal(t)
    PROVE  IInv'
<1>. USE DEF IInv
<1>a. /\ count \in Nat /\ pc \in [Thread -> Pc] /\ woken \in [Thread -> BOOLEAN]
      /\ gateList \in Seq(Thread) /\ gateSignal \in BOOLEAN /\ pc[t] = "signal"
      /\ UNCHANGED <<count, owner, old>>
  BY DEF TypeOK, Signal
<1>b. t \in InTransit /\ ~gateSignal /\ InTransit = {t} /\ Woken(count)
  BY <1>a DEF TokenInv, InTransit
<1>c. Pending
  BY <1>a DEF Pending
<1>1. CASE gateList # << >>
  <2> DEFINE h == Head(gateList)
  <2>1. /\ gateSignal' = gateSignal /\ gateList' = Tail(gateList)
        /\ pc' = [pc EXCEPT ![t] = "idle", ![h] = "contend"]
        /\ woken' = [woken EXCEPT ![h] = TRUE]
    BY <1>1, <1>b DEF Signal
  <2>2. /\ h \in Thread /\ h = gateList[1] /\ Len(gateList) \in Nat \ {0}
        /\ gateList' \in Seq(Thread) /\ Len(gateList') = Len(gateList) - 1
        /\ \A i \in 1 .. Len(gateList') : gateList'[i] = gateList[i + 1]
    BY <1>a, <1>1, <2>1
  <2>3. pc[h] = "asleep" /\ h # t
    BY <1>a, <2>2 DEF GateInv
  <2> HIDE DEF h
  <2>4. TypeOK'
    BY <1>a, <2>1, <2>2 DEF TypeOK, Pc
  <2>5. Holders' = Holders /\ WaitSet' = WaitSet \ {h} /\ h \in WaitSet
    BY <1>a, <2>1, <2>2, <2>3 DEF Holders, WaitSet
  <2>6. InTransit' = {h}
    BY <1>a, <1>b, <2>1, <2>2, <2>3 DEF InTransit
  <2>7. ~Pending'
    BY <1>a, <1>b, <2>1, <2>2, <2>3 DEF Pending, InTransit
  <2>8. Cardinality(WaitSet') = Cardinality(WaitSet) - 1
    BY <2>5, FiniteWaitSet, FS_RemoveElement
  <2>9. WaitInv'
    BY <1>a, <1>c, <2>7, <2>8, WaitersNat DEF WaitInv
  <2>10. LockInv'
    BY <1>a, <2>5 DEF LockInv
  <2>11. TokenInv'
    BY <1>a, <1>b, <2>1, <2>6 DEF TokenInv
  <2>12. OwnerIsHolder' /\ OldInv' /\ ChosenInv'
    BY <1>a, <2>1, <2>2, <2>3 DEF OwnerIsHolder, OldInv, ChosenInv
  <2>13. GateInv'
    <3>1. \A i \in 1 .. Len(gateList') : i + 1 \in 1 .. Len(gateList)
      BY <2>2
    <3>2. \A i \in 1 .. Len(gateList') :
             gateList'[i] \in Thread /\ gateList'[i] # h /\ pc[gateList'[i]] = "asleep"
      BY <1>a, <2>2, <3>1 DEF GateInv
    <3>3. \A i \in 1 .. Len(gateList') : pc'[gateList'[i]] = "asleep"
      BY <1>a, <2>1, <3>2
    <3>4. \A i, j \in 1 .. Len(gateList') : gateList'[i] = gateList'[j] => i = j
      BY <2>2, <3>1 DEF GateInv
    <3>5. ASSUME NEW u \in Thread, pc'[u] = "asleep"
          PROVE  \E i \in 1 .. Len(gateList') : gateList'[i] = u
      <4>1. pc[u] = "asleep" /\ u # h
        BY <1>a, <2>1, <2>2, <2>3, <3>5
      <4>2. PICK k \in 1 .. Len(gateList) : gateList[k] = u
        BY <4>1 DEF GateInv
      <4>3. k # 1 /\ k - 1 \in 1 .. Len(gateList') /\ gateList'[k - 1] = gateList[k]
        BY <2>2, <4>1, <4>2
      <4>. QED  BY <4>2, <4>3
    <3>. QED  BY <1>b, <2>1, <3>3, <3>4, <3>5 DEF GateInv
  <2>. QED  BY <2>4, <2>9, <2>10, <2>11, <2>12, <2>13
<1>2. CASE gateList = << >>
  <2>1. /\ gateSignal' /\ UNCHANGED <<gateList, woken>>
        /\ gateSignal' = TRUE /\ pc' = [pc EXCEPT ![t] = "idle"]
    BY <1>2 DEF Signal, Goto
  <2>2. TypeOK'
    BY <1>a, <2>1 DEF TypeOK, Pc
  <2>3. Holders' = Holders /\ WaitSet' = WaitSet /\ InTransit' = InTransit \ {t}
    BY <1>a, <2>1 DEF Holders, WaitSet, InTransit
  <2>4. Pending'
    BY <2>1 DEF Pending
  <2>5. LockInv' /\ TokenInv' /\ WaitInv'
    BY <1>a, <1>b, <1>c, <2>1, <2>3, <2>4 DEF LockInv, TokenInv, WaitInv
  <2>6. OwnerIsHolder' /\ OldInv' /\ ChosenInv'
    BY <1>a, <2>1 DEF OwnerIsHolder, OldInv, ChosenInv
  <2>7. GateInv'
    BY <1>a, <1>2, <2>1 DEF GateInv
  <2>. QED  BY <2>2, <2>5, <2>6, <2>7
<1>. QED  BY <1>1, <1>2

LEMMA NextIInv == IInv /\ [Next]_vars => IInv'
<1>. SUFFICES ASSUME IInv, [Next]_vars PROVE IInv'
  OBVIOUS
<1>1. CASE UNCHANGED vars
  BY <1>1 DEF vars, IInv, TypeOK, LockInv, OwnerIsHolder, GateInv, TokenInv,
              OldInv, WaitInv, ChosenInv, Holders, InTransit, WaitSet, Pending
<1>2. ASSUME NEW t \in Thread, Step(t) PROVE IInv'
  <2>1. CASE Acquire(t)
    <3>1. CASE Free(count)
      BY <2>1, <3>1, LockKeepsIInv DEF Acquire, gateVars, GM_LOCK_BIT
    <3>2. CASE ~Free(count)
      BY <2>1, <3>2, RetryKeepsIInv DEF Acquire, gateVars
    <3>. QED  BY <3>1, <3>2
  <2>2. CASE TryToAcquire(t)
    BY <2>2, LockKeepsIInv DEF TryToAcquire, gateVars, GM_LOCK_BIT
  <2>3. CASE Change(t)
    <3>1. CASE count = old[t] /\ Free(old[t])
      BY <2>3, <3>1, LockKeepsIInv DEF Change, gateVars
    <3>2. CASE count = old[t] /\ ~Free(old[t])
      BY <2>3, <3>2, JoinKeepsIInv DEF Change, gateVars
    <3>3. CASE count # old[t]
      BY <2>3, <3>3, RetryKeepsIInv DEF Change, gateVars
    <3>. QED  BY <3>1, <3>2, <3>3
  <2>4. CASE Contend(t) \/ SetOwner(t) \/ ClearOwner(t)
    BY <2>4, QuietKeepsIInv
  <2>. QED
    BY <1>2, <2>1, <2>2, <2>3, <2>4, GateKeepsIInv, ReleaseKeepsIInv,
       WakeOneKeepsIInv, SignalKeepsIInv DEF Step
<1>. QED  BY <1>1, <1>2 DEF Next

-----------------------------------------------------------------------------
(* The theorems *)

\* The invariant holds in every behaviour of the routines.
THEOREM Invariance == Spec => []IInv
<1>1. Init => IInv  BY InitIInv
<1>2. IInv /\ [Next]_vars => IInv'  BY NextIInv
<1>. QED  BY <1>1, <1>2, PTL DEF Spec

\* Count stays a number of fields, whatever is added to and taken from it.
THEOREM TypeCorrect == Spec => []TypeOK
<1>1. IInv => TypeOK  BY DEF IInv
<1>. QED  BY <1>1, Invariance, PTL

\* The Owner field names the holder.
THEOREM OwnerCorrect == Spec => []OwnerIsHolder
<1>1. IInv => OwnerIsHolder  BY DEF IInv
<1>. QED  BY <1>1, Invariance, PTL

\* The ASSERTs of KiAcquireGuardedMutex about the woken bit hold.
THEOREM FieldsCorrect == Spec => []FieldsExact
<1>1. IInv => WokenBitSet
  BY DEF IInv, WokenBitSet, TokenInv, OldInv, InTransit
<1>2. ASSUME IInv PROVE WaitersExact
  <2>. DEFINE Signalling == {t \in Thread : pc[t] = "signal"}
  <2>. USE <1>2 DEF IInv
  <2>0. Cardinality(WaitSet) \in Nat /\ Waiters(count) \in Nat
    BY FiniteWaitSet, WaitersNat DEF TypeOK
  <2>1. CASE \E t \in Thread : pc[t] = "signal"
    <3>1. PICK t \in Thread : pc[t] = "signal"
      BY <2>1
    <3>2. Signalling = {t} /\ ~gateSignal /\ Pending
      BY <3>1 DEF TokenInv, InTransit, Pending
    <3>3. Cardinality(Signalling) = 1
      BY <3>2, FS_Singleton
    <3>. QED  BY <2>0, <3>2, <3>3 DEF WaitInv, WaitersExact, WaitSet
  <2>2. CASE ~\E t \in Thread : pc[t] = "signal"
    <3>1. Signalling = {}
      BY <2>2
    <3>2. Cardinality(Signalling) = 0
      BY <3>1, FS_EmptySet
    <3>3. Pending <=> gateSignal
      BY <2>2 DEF Pending
    <3>. QED  BY <2>0, <3>2, <3>3 DEF WaitInv, WaitersExact, WaitSet
  <2>. QED  BY <2>1, <2>2
<1>. QED  BY <1>1, <1>2, Invariance, PTL DEF FieldsExact

\* No sleeper is left behind by a free mutex.
THEOREM NoWakeupLost == Spec => []NoLostWakeup
<1>1. ASSUME IInv, Free(count), \A t \in Thread : pc[t] \in {"idle", "asleep"}
      PROVE  \A t \in Thread : pc[t] # "asleep"
  <2>1. InTransit = {}
    BY <1>1 DEF InTransit
  <2>2. CASE gateSignal
    BY <1>1, <2>2 DEF IInv, GateInv
  <2>3. CASE ~gateSignal
    <3>1. count = 1
      BY <1>1, <2>1, <2>3 DEF IInv, ChosenInv, TokenInv
    <3>2. Waiters(count) = 0 /\ ~Pending
      BY <1>1, <2>3, <3>1 DEF Waiters, Pending
    <3>3. WaitSet = {}
      BY <1>1, <3>2, FiniteWaitSet, FS_EmptySet DEF IInv, WaitInv
    <3>. QED  BY <3>3 DEF WaitSet
  <2>. QED  BY <2>2, <2>3
<1>2. IInv => NoLostWakeup
  BY <1>1 DEF NoLostWakeup
<1>. QED  BY <1>2, Invariance, PTL

\* A step of the routines is a step of the mutex, or invisible to it.
LEMMA NextContract ==
    ASSUME IInv, [Next]_vars
    PROVE  [Contract!ContractNext]_Holders
<1>. SUFFICES ASSUME IInv', Holders' # Holders PROVE Contract!ContractNext
  BY NextIInv
<1>. USE DEF IInv
<1>1. ~UNCHANGED vars
  BY DEF vars, Holders
<1>2. PICK t \in Thread : Step(t)
  BY <1>1 DEF Next
<1>3. CASE Release(t)
  <2>1. t \in Holders /\ Holders' = Holders \ {t}
    BY <1>3 DEF Release, Goto, Holders, TypeOK
  <2>2. Holders = {t} /\ Holders' = {}
    BY <2>1 DEF LockInv
  <2>. QED  BY <2>2 DEF Contract!ContractNext, Contract!Leave
<1>4. CASE /\ Goto(t, "acquired") /\ Free(count)
           /\ Acquire(t) \/ TryToAcquire(t) \/ Change(t)
  <2>1. Holders = {}
    BY <1>4 DEF LockInv
  <2>2. Holders' = {t}
    BY <1>4, <2>1 DEF Goto, Holders, TypeOK
  <2>. QED  BY <2>1, <2>2 DEF Contract!ContractNext, Contract!Enter
<1>5. CASE /\ ~Release(t)
           /\ ~(/\ Goto(t, "acquired") /\ Free(count)
                /\ Acquire(t) \/ TryToAcquire(t) \/ Change(t))
  <2>1. CASE Signal(t)
    <3>1. CASE gateList # << >>
      <4>1. gateList \in Seq(Thread) /\ pc \in [Thread -> Pc]
        BY DEF TypeOK
      <4>2. Head(gateList) = gateList[1] /\ 1 \in 1 .. Len(gateList)
        BY <3>1, <4>1
      <4>3. pc[Head(gateList)] = "asleep" /\ Head(gateList) \in Thread
        BY <4>1, <4>2 DEF GateInv
      <4>4. Holders' = Holders
        BY <2>1, <4>1, <4>3 DEF Signal, Goto, Holders
      <4>. QED  BY <4>4
    <3>2. CASE gateList = << >>
      BY <2>1, <3>2 DEF Signal, Goto, Holders, TypeOK
    <3>. QED  BY <3>1, <3>2
  <2>2. CASE ~Signal(t)
    <3>1. Holders' = Holders
      BY <1>2, <1>5, <2>2
      DEF Step, Acquire, TryToAcquire, Contend, Change, WaitForGate, SetOwner,
          ClearOwner, WakeOne, Goto, Holders, TypeOK
    <3>. QED  BY <3>1
  <2>. QED  BY <2>1, <2>2
<1>. QED  BY <1>3, <1>4, <1>5

\* The guarded mutex implements a mutex.
THEOREM MutualExclusion == Spec => ImplementsMutex
<1>1. Init => Contract!ContractInit
  BY DEF Init, Contract!ContractInit, Holders
<1>2. IInv /\ [Next]_vars => [Contract!ContractNext]_Holders
  BY NextContract
<1>. QED
  BY <1>1, <1>2, Invariance, PTL DEF Spec, ImplementsMutex, Contract!ContractSpec
=============================================================================
