--------------------------- MODULE RundownProofs ---------------------------
(***************************************************************************)
(* Run-down protection is correct for any finite sets of threads and       *)
(* references.  IInv is the inductive invariant; it says what the shared   *)
(* word means at each stage of the owner's wait, and what a client may     *)
(* still believe about the value it read some steps ago.                   *)
(***************************************************************************)
EXTENDS Rundown, FiniteSetTheorems, TLAPS

Acquiring == {"acquireFast", "acquireSlow", "acquireLoop"}
Releasing == {"releaseFast", "releaseSlow", "releaseLoop"}

\* What the word means: it counts the references until the owner has put its
\* wait block in place; from then on the block counts them.
OwnerInv ==
    /\ ownerPc \in {"live", "waitSlow", "waitLoop"}
           => runRef = Counted(Cardinality(held))
    /\ ownerPc = "waitLoop" => ownerVal = Counted(ownerVal.count)
    /\ ownerPc = "waiting" => /\ runRef = Blocked
                              /\ waitBlock.live
                              /\ waitBlock.count = Cardinality(held)
                              /\ waitBlock.signaled => held = {}
    /\ ownerPc \in {"drained", "completed"} => /\ held = {}
                                               /\ runRef \in {Active, Blocked}
    /\ ownerPc = "completed" => runRef = Active

\* What a client knows while it is inside a call.
ClientInv(t) ==
    /\ pc[t] \in Acquiring => refs[t] \subseteq TicketsOf(t) \ held
    /\ pc[t] \in Releasing => /\ refs[t] \subseteq TicketsOf(t) \cap held
                              /\ refs[t] # {}
    /\ pc[t] \in {"acquireFast", "releaseFast"} => ~value[t].active
    /\ pc[t] = "releaseLoop" =>
          IF value[t].active THEN ownerPc = "waiting"
          ELSE value[t].count >= Cardinality(refs[t])
    /\ pc[t] = "releaseSignal" =>
          ownerPc = "waiting" /\ held = {} /\ ~waitBlock.signaled

\* Only one client can have brought the block's count to zero.
OneSignal == \A t, u \in Thread :
                pc[t] = "releaseSignal" /\ pc[u] = "releaseSignal" => t = u

IInv == /\ TypeOK
        /\ OwnerInv
        /\ \A t \in Thread : ClientInv(t)
        /\ OneSignal

-----------------------------------------------------------------------------
(* Finite sets of references *)

\* There are finitely many references, so every set of them can be counted.
LEMMA FiniteReferences ==
    ASSUME NEW S \in SUBSET Reference
    PROVE  IsFiniteSet(S) /\ Cardinality(S) \in Nat
<1>1. IsFiniteSet(Reference)
  BY FS_Product, ThreadAssumption, TicketAssumption DEF Reference
<1>2. IsFiniteSet(S)
  BY <1>1, FS_Subset
<1>. QED  BY <1>2, FS_CardinalityType

\* Adding references that are not out yet adds their number.
LEMMA AddReferences ==
    ASSUME NEW S \in SUBSET Reference, NEW T \in SUBSET Reference,
           S \cap T = {}
    PROVE  Cardinality(S \cup T) = Cardinality(S) + Cardinality(T)
<1>1. IsFiniteSet(S) /\ IsFiniteSet(T)
  BY FiniteReferences
<1>2. Cardinality(S \cup T) = Cardinality(S) + Cardinality(T) - 0
  BY <1>1, FS_Union, FS_EmptySet
<1>. QED  BY <1>2, FiniteReferences

\* Taking away references that are out subtracts their number.
LEMMA RemoveReferences ==
    ASSUME NEW S \in SUBSET Reference, NEW T \in SUBSET S
    PROVE  /\ Cardinality(S \ T) = Cardinality(S) - Cardinality(T)
           /\ Cardinality(T) <= Cardinality(S)
<1>1. S = (S \ T) \cup T /\ (S \ T) \cap T = {}
  OBVIOUS
<1>2. Cardinality(S) = Cardinality(S \ T) + Cardinality(T)
  BY <1>1, AddReferences
<1>. QED  BY <1>2, FiniteReferences

\* A set of references is empty exactly when its number is zero.
LEMMA NoReferences ==
    ASSUME NEW S \in SUBSET Reference
    PROVE  Cardinality(S) = 0 <=> S = {}
BY FiniteReferences, FS_EmptySet

\* Two threads never hold the same reference.
LEMMA TicketsApart ==
    ASSUME NEW t \in Thread, NEW u \in Thread, t # u
    PROVE  TicketsOf(t) \cap TicketsOf(u) = {}
BY DEF TicketsOf

-----------------------------------------------------------------------------
(* The invariant is inductive *)

LEMMA InitIInv == Init => IInv
<1>. SUFFICES ASSUME Init PROVE IInv
  OBVIOUS
<1>1. TypeOK
  BY DEF Init, TypeOK, Word, Counted, ClientPc, OwnerPc
<1>2. OwnerInv
  BY FS_EmptySet DEF Init, OwnerInv, Counted
<1>3. (\A t \in Thread : ClientInv(t)) /\ OneSignal
  BY DEF Init, ClientInv, OneSignal, Acquiring, Releasing
<1>. QED  BY <1>1, <1>2, <1>3 DEF IInv

\* A client hands itself references by compare-exchange on a word that still
\* counts them.
LEMMA TakeKeepsIInv ==
    ASSUME IInv, NEW t \in Thread, pc[t] \in Acquiring, ~value[t].active,
           TakeReferences(t)
    PROVE  IInv'
<1>. USE DEF IInv
<1>1. ~runRef.active /\ refs[t] \in SUBSET Reference /\ held \in SUBSET Reference
  BY DEF TakeReferences, TypeOK
<1>2. ownerPc \in {"live", "waitSlow", "waitLoop"}
  BY <1>1 DEF OwnerInv, TypeOK, OwnerPc, Active, Blocked
<1>3. runRef = Counted(Cardinality(held))
  BY <1>2 DEF OwnerInv
<1>4. refs[t] \subseteq TicketsOf(t) \ held
  BY DEF ClientInv
<1>5. Cardinality(held \cup refs[t]) = Cardinality(held) + Cardinality(refs[t])
  BY <1>1, <1>4, AddReferences
<1>6. runRef' = Counted(Cardinality(held'))
  <2>1. runRef.count = Cardinality(held)
    BY <1>3 DEF Counted
  <2>2. runRef' = Counted(runRef.count + Cardinality(refs[t]))
    BY <1>3 DEF TakeReferences, Plus, Counted
  <2>3. held' = held \cup refs[t]
    BY DEF TakeReferences
  <2>. QED  BY <1>5, <2>1, <2>2, <2>3
<1>7. TypeOK'
  <2>1. held' \in SUBSET Reference
    BY <1>1 DEF TakeReferences
  <2>2. Cardinality(held') \in Nat
    BY <2>1, FiniteReferences
  <2>3. runRef' \in Word
    BY <1>6, <2>2 DEF Word, Counted
  <2>. QED
    BY <2>1, <2>3 DEF TypeOK, TakeReferences, Return, ownerVars, ClientPc, Word, Counted
<1>8. OwnerInv'
  BY <1>2, <1>6 DEF OwnerInv, TakeReferences, ownerVars
<1>9. ASSUME NEW u \in Thread PROVE ClientInv(u)'
  <2>1. CASE u = t
    BY <2>1 DEF TypeOK, ClientInv, TakeReferences, Return, Acquiring, Releasing
  <2>2. CASE u # t
    <3>1. UNCHANGED <<pc[u], value[u], refs[u], ownerPc, waitBlock>>
      BY <2>2 DEF TypeOK, TakeReferences, Return, ownerVars
    <3>2. ClientInv(u) /\ pc[u] # "releaseSignal"
      BY <1>2 DEF ClientInv
    <3>3. TicketsOf(t) \cap TicketsOf(u) = {}
      BY <2>2, TicketsApart
    <3>4. held' = held \cup refs[t]
      BY DEF TakeReferences
    <3>. QED
      BY <1>4, <3>1, <3>2, <3>3, <3>4 DEF ClientInv, TicketsOf
  <2>. QED  BY <2>1, <2>2
<1>10. OneSignal'
  BY DEF TypeOK, OneSignal, TakeReferences, Return
<1>. QED  BY <1>7, <1>8, <1>9, <1>10

\* A client gives references back by compare-exchange on a word that still
\* counts them.
LEMMA DropKeepsIInv ==
    ASSUME IInv, NEW t \in Thread, pc[t] \in Releasing, ~value[t].active,
           DropReferences(t)
    PROVE  IInv'
<1>. USE DEF IInv
<1>1. ~runRef.active /\ held \in SUBSET Reference
  BY DEF DropReferences, TypeOK
<1>2. ownerPc \in {"live", "waitSlow", "waitLoop"}
  BY <1>1 DEF OwnerInv, TypeOK, OwnerPc, Active, Blocked
<1>3. runRef = Counted(Cardinality(held))
  BY <1>2 DEF OwnerInv
<1>4. refs[t] \subseteq TicketsOf(t) \cap held
  BY DEF ClientInv
<1>5. Cardinality(held \ refs[t]) = Cardinality(held) - Cardinality(refs[t])
  BY <1>1, <1>4, RemoveReferences
<1>6. runRef' = Counted(Cardinality(held'))
  <2>1. runRef.count = Cardinality(held)
    BY <1>3 DEF Counted
  <2>2. runRef' = Counted(runRef.count - Cardinality(refs[t]))
    BY <1>3 DEF DropReferences, Minus, Counted
  <2>3. held' = held \ refs[t]
    BY DEF DropReferences
  <2>. QED  BY <1>5, <2>1, <2>2, <2>3
<1>7. TypeOK'
  <2>1. held' \in SUBSET Reference
    BY <1>1 DEF DropReferences
  <2>2. Cardinality(held') \in Nat
    BY <2>1, FiniteReferences
  <2>3. runRef' \in Word
    BY <1>6, <2>2 DEF Word, Counted
  <2>. QED
    BY <2>1, <2>3 DEF TypeOK, DropReferences, Return, ownerVars, ClientPc, Word, Counted
<1>8. OwnerInv'
  BY <1>2, <1>6 DEF OwnerInv, DropReferences, ownerVars
<1>9. ASSUME NEW u \in Thread PROVE ClientInv(u)'
  <2>1. CASE u = t
    BY <2>1 DEF TypeOK, ClientInv, DropReferences, Return, Acquiring, Releasing
  <2>2. CASE u # t
    <3>1. UNCHANGED <<pc[u], value[u], refs[u], ownerPc, waitBlock>>
      BY <2>2 DEF TypeOK, DropReferences, Return, ownerVars
    <3>2. ClientInv(u) /\ pc[u] # "releaseSignal"
      BY <1>2 DEF ClientInv
    <3>3. TicketsOf(t) \cap TicketsOf(u) = {}
      BY <2>2, TicketsApart
    <3>4. held' = held \ refs[t]
      BY DEF DropReferences
    <3>. QED
      BY <1>4, <3>1, <3>2, <3>3, <3>4 DEF ClientInv, TicketsOf
  <2>. QED  BY <2>1, <2>2
<1>10. OneSignal'
  BY DEF TypeOK, OneSignal, DropReferences, Return
<1>. QED  BY <1>7, <1>8, <1>9, <1>10

\* A step of one client that leaves the shared state alone.
LEMMA LocalKeepsIInv ==
    ASSUME IInv, NEW t \in Thread,
           NEW p \in ClientPc \ {"releaseSignal"}, NEW v \in Word,
           NEW S \in SUBSET Reference,
           pc' = [pc EXCEPT ![t] = p], value' = [value EXCEPT ![t] = v],
           refs' = [refs EXCEPT ![t] = S],
           UNCHANGED <<runRef, held, ownerVars, waitBlock>>,
           ClientInv(t)'
    PROVE  IInv'
<1>. USE DEF IInv
<1>1. TypeOK'
  BY DEF TypeOK, ownerVars
<1>2. OwnerInv'
  BY DEF OwnerInv, ownerVars
<1>3. ASSUME NEW u \in Thread, u # t PROVE ClientInv(u)'
  <2>1. UNCHANGED <<pc[u], value[u], refs[u], held, ownerPc, waitBlock>>
    BY <1>3 DEF TypeOK, ownerVars
  <2>. QED  BY <2>1 DEF ClientInv, TicketsOf
<1>4. OneSignal'
  BY DEF OneSignal, TypeOK
<1>. QED  BY <1>1, <1>2, <1>3, <1>4

\* Every path that returns without touching the shared state.
LEMMA ReturnKeepsIInv ==
    ASSUME IInv, NEW t \in Thread, Return(t),
           UNCHANGED <<runRef, held, ownerVars, waitBlock>>
    PROVE  IInv'
<1>1. ClientInv(t)'
  BY DEF IInv, TypeOK, Return, ClientInv, Acquiring, Releasing
<1>2. Counted(0) \in Word /\ {} \in SUBSET Reference
  BY DEF Counted, Word
<1>. QED
  BY <1>1, <1>2, LocalKeepsIInv DEF Return, ClientPc

\* A value read from the word while this client still has references to
\* release: either it counts them, or the owner is waiting for them.
LEMMA ReadWhileReleasing ==
    ASSUME IInv, NEW S \in SUBSET held, S # {}
    PROVE  IF runRef.active THEN ownerPc = "waiting"
           ELSE runRef.count >= Cardinality(S)
<1>. USE DEF IInv
<1>1. held \in SUBSET Reference
  BY DEF TypeOK
<1>2. CASE runRef.active
  BY <1>2 DEF OwnerInv, TypeOK, OwnerPc, Counted
<1>3. CASE ~runRef.active
  <2>1. runRef = Counted(Cardinality(held))
    BY <1>3 DEF OwnerInv, TypeOK, OwnerPc, Active, Blocked
  <2>2. Cardinality(S) <= Cardinality(held)
    BY <1>1, RemoveReferences
  <2>3. Cardinality(S) \in Nat /\ Cardinality(held) \in Nat
    BY <1>1, FiniteReferences
  <2>. QED  BY <1>3, <2>1, <2>2, <2>3 DEF Counted
<1>. QED  BY <1>2, <1>3, Zenon DEF TypeOK, Word

LEMMA AcquireKeepsIInv ==
    ASSUME IInv, NEW t \in Thread, AcquireStep(t)
    PROVE  IInv'
<1>. USE DEF IInv
<1>. /\ runRef \in Word /\ value[t] \in Word /\ refs[t] \in SUBSET Reference
     /\ pc[t] \in ClientPc
  BY DEF TypeOK
<1>a. TicketsOf(t) \subseteq Reference
  BY DEF TicketsOf, Reference
<1>1. CASE AcquireFast(t)
  <2>1. PICK r \in TicketsOf(t) \ held : refs' = [refs EXCEPT ![t] = {r}]
    BY <1>1 DEF AcquireFast
  <2>2. MaskActive(runRef) \in Word /\ ~MaskActive(runRef).active
    BY DEF MaskActive, Word
  <2>3. ClientInv(t)'
    BY <1>1, <2>1, <2>2
    DEF AcquireFast, ClientInv, TypeOK, Acquiring, Releasing, TicketsOf
  <2>4. {r} \in SUBSET Reference
    BY <1>a
  <2>. QED
    BY <1>1, <2>1, <2>2, <2>3, <2>4, LocalKeepsIInv DEF AcquireFast, ClientPc
<1>2. CASE AcquireFastChange(t)
  <2>1. CASE TakeReferences(t)
    BY <1>2, <2>1, TakeKeepsIInv DEF AcquireFastChange, ClientInv, Acquiring
  <2>2. CASE ~TakeReferences(t)
    <3>1. ClientInv(t)'
      BY <1>2, <2>2
      DEF AcquireFastChange, ClientInv, TypeOK, Acquiring, Releasing, TicketsOf
    <3>2. value' = [value EXCEPT ![t] = value[t]] /\ refs' = [refs EXCEPT ![t] = refs[t]]
      BY <1>2, <2>2 DEF AcquireFastChange, TypeOK
    <3>. QED
      BY <1>2, <2>2, <3>1, <3>2, LocalKeepsIInv DEF AcquireFastChange, ClientPc
  <2>. QED  BY <2>1, <2>2
<1>3. CASE ExfAcquire(t)
  <2>1. ClientInv(t)'
    BY <1>3 DEF ExfAcquire, ClientInv, TypeOK, Acquiring, Releasing, TicketsOf
  <2>2. refs' = [refs EXCEPT ![t] = refs[t]]
    BY <1>3 DEF ExfAcquire, TypeOK
  <2>. QED
    BY <1>3, <2>1, <2>2, LocalKeepsIInv DEF ExfAcquire, ClientPc
<1>4. CASE ExfAcquireEx(t)
  <2>1. PICK S \in SUBSET (TicketsOf(t) \ held) : refs' = [refs EXCEPT ![t] = S]
    BY <1>4 DEF ExfAcquireEx
  <2>2. ClientInv(t)'
    BY <1>4, <2>1
    DEF ExfAcquireEx, ClientInv, TypeOK, Acquiring, Releasing, TicketsOf
  <2>. QED
    BY <1>a, <1>4, <2>1, <2>2, LocalKeepsIInv DEF ExfAcquireEx, ClientPc
<1>5. CASE AcquireLoop(t)
  <2>1. CASE Return(t) /\ UNCHANGED <<runRef, held, ownerVars, waitBlock>>
    BY <2>1, ReturnKeepsIInv
  <2>2. CASE ~RefusedBy(value[t]) /\ TakeReferences(t)
    BY <1>5, <2>2, TakeKeepsIInv DEF AcquireLoop, Acquiring, RefusedBy
  <2>3. CASE /\ value' = [value EXCEPT ![t] = runRef]
             /\ UNCHANGED <<runRef, held, pc, refs, ownerVars, waitBlock>>
    <3>1. ClientInv(t)'
      BY <1>5, <2>3
      DEF AcquireLoop, ClientInv, TypeOK, Acquiring, Releasing, TicketsOf
    <3>2. pc' = [pc EXCEPT ![t] = pc[t]] /\ refs' = [refs EXCEPT ![t] = refs[t]]
      BY <2>3 DEF TypeOK
    <3>3. pc[t] # "releaseSignal"
      BY <1>5 DEF AcquireLoop
    <3>. QED  BY <2>3, <3>1, <3>2, <3>3, LocalKeepsIInv
  <2>. QED  BY <1>5, <2>1, <2>2, <2>3 DEF AcquireLoop
<1>. QED  BY <1>1, <1>2, <1>3, <1>4, <1>5 DEF AcquireStep

\* A client takes its references off the wait block's count.
LEMMA BlockReleaseKeepsIInv ==
    ASSUME IInv, NEW t \in Thread, ReleaseLoop(t), value[t].active
    PROVE  IInv'
<1>. USE DEF IInv
<1>1. /\ ownerPc = "waiting"
      /\ refs[t] \subseteq TicketsOf(t) \cap held /\ refs[t] # {}
  BY DEF ReleaseLoop, ClientInv, Releasing
<1>2. held \in SUBSET Reference /\ waitBlock.count = Cardinality(held)
  BY <1>1 DEF OwnerInv, TypeOK
<1>3. /\ held' = held \ refs[t]
      /\ waitBlock' = [waitBlock EXCEPT !.count = @ - Cardinality(refs[t])]
      /\ UNCHANGED <<runRef, ownerVars>>
  BY DEF ReleaseLoop
<1>4. Cardinality(held') = Cardinality(held) - Cardinality(refs[t])
  BY <1>1, <1>2, <1>3, RemoveReferences
<1>5. held' \in SUBSET Reference /\ Cardinality(held') \in Nat
  BY <1>2, <1>3, FiniteReferences
<1>6. /\ waitBlock'.count = Cardinality(held')
      /\ waitBlock'.live = waitBlock.live
      /\ waitBlock'.signaled = waitBlock.signaled
      /\ waitBlock' \in [count : Nat, signaled : BOOLEAN, live : BOOLEAN]
  BY <1>2, <1>3, <1>4, <1>5 DEF TypeOK
<1>7. ~waitBlock.signaled
  BY <1>1 DEF OwnerInv
<1>8. pc[t] = "releaseLoop" /\ \A u \in Thread : pc[u] # "releaseSignal"
  BY <1>1 DEF ReleaseLoop, ClientInv
<1>9. OwnerInv'
  BY <1>1, <1>3, <1>6, <1>7 DEF OwnerInv, ownerVars
<1>10. ASSUME NEW u \in Thread, u # t,
              UNCHANGED <<pc[u], value[u], refs[u]>>
       PROVE  ClientInv(u)'
  <2>1. ClientInv(u) /\ ownerPc' = ownerPc
    BY <1>3 DEF ownerVars
  <2>2. TicketsOf(t) \cap TicketsOf(u) = {}
    BY <1>10, TicketsApart
  <2>. QED
    BY <1>1, <1>3, <1>8, <1>10, <2>1, <2>2 DEF ClientInv, TicketsOf
<1>11. CASE LastOne(waitBlock'.count)
  <2>1. pc' = [pc EXCEPT ![t] = "releaseSignal"] /\ UNCHANGED <<value, refs>>
    BY <1>11 DEF ReleaseLoop
  <2>2. held' = {}
    BY <1>5, <1>6, <1>11, NoReferences DEF LastOne
  <2>3. TypeOK'
    BY <1>3, <1>5, <1>6, <2>1 DEF TypeOK, ownerVars, ClientPc
  <2>4. ClientInv(t)'
    BY <1>1, <1>3, <1>6, <1>7, <2>1, <2>2
    DEF ClientInv, TypeOK, ownerVars, Acquiring, Releasing
  <2>5. \A u \in Thread : u # t => ClientInv(u)'
    BY <1>10, <2>1 DEF TypeOK
  <2>6. OneSignal'
    BY <1>8, <2>1 DEF OneSignal, TypeOK
  <2>. QED  BY <1>9, <2>3, <2>4, <2>5, <2>6
<1>12. CASE ~LastOne(waitBlock'.count)
  <2>1. Return(t)
    BY <1>12 DEF ReleaseLoop
  <2>2. TypeOK'
    BY <1>3, <1>5, <1>6, <2>1 DEF TypeOK, ownerVars, ClientPc, Return, Counted, Word
  <2>3. ClientInv(t)'
    BY <2>1 DEF ClientInv, TypeOK, Return, Acquiring, Releasing
  <2>4. \A u \in Thread : u # t => ClientInv(u)'
    BY <1>10, <2>1 DEF TypeOK, Return
  <2>5. OneSignal'
    BY <1>8, <2>1 DEF OneSignal, TypeOK, Return
  <2>. QED  BY <1>9, <2>2, <2>3, <2>4, <2>5
<1>. QED  BY <1>11, <1>12

LEMMA ReleaseKeepsIInv ==
    ASSUME IInv, NEW t \in Thread, ReleaseStep(t)
    PROVE  IInv'
<1>. USE DEF IInv
<1>. /\ runRef \in Word /\ value[t] \in Word /\ refs[t] \in SUBSET Reference
     /\ pc[t] \in ClientPc
  BY DEF TypeOK
<1>a. TicketsOf(t) \subseteq Reference
  BY DEF TicketsOf, Reference
<1>1. CASE ReleaseFast(t)
  <2>1. PICK r \in TicketsOf(t) \cap held : refs' = [refs EXCEPT ![t] = {r}]
    BY <1>1 DEF ReleaseFast
  <2>2. MaskActive(runRef) \in Word /\ ~MaskActive(runRef).active
    BY DEF MaskActive, Word
  <2>3. ClientInv(t)'
    BY <1>1, <2>1, <2>2
    DEF ReleaseFast, ClientInv, TypeOK, Acquiring, Releasing, TicketsOf
  <2>4. {r} \in SUBSET Reference
    BY <1>a
  <2>. QED
    BY <1>1, <2>1, <2>2, <2>3, <2>4, LocalKeepsIInv DEF ReleaseFast, ClientPc
<1>2. CASE ReleaseFastChange(t)
  <2>1. CASE DropReferences(t)
    BY <1>2, <2>1, DropKeepsIInv DEF ReleaseFastChange, ClientInv, Releasing
  <2>2. CASE ~DropReferences(t)
    <3>1. ClientInv(t)'
      BY <1>2, <2>2
      DEF ReleaseFastChange, ClientInv, TypeOK, Acquiring, Releasing, TicketsOf
    <3>2. value' = [value EXCEPT ![t] = value[t]] /\ refs' = [refs EXCEPT ![t] = refs[t]]
      BY <1>2, <2>2 DEF ReleaseFastChange, TypeOK
    <3>. QED
      BY <1>2, <2>2, <3>1, <3>2, LocalKeepsIInv DEF ReleaseFastChange, ClientPc
  <2>. QED  BY <2>1, <2>2
<1>3. CASE ExfRelease(t)
  <2>1. refs[t] \subseteq TicketsOf(t) \cap held /\ refs[t] # {}
    BY <1>3 DEF ExfRelease, ClientInv, Releasing
  <2>2. IF runRef.active THEN ownerPc = "waiting" ELSE runRef.count >= Cardinality(refs[t])
    BY <2>1, ReadWhileReleasing
  <2>3. refs' = [refs EXCEPT ![t] = refs[t]]
    BY <1>3 DEF ExfRelease, TypeOK
  <2>4. ClientInv(t)'
    BY <1>3, <2>1, <2>2
    DEF ExfRelease, ClientInv, TypeOK, ownerVars, Acquiring, Releasing, TicketsOf
  <2>. QED
    BY <1>3, <2>3, <2>4, LocalKeepsIInv DEF ExfRelease, ClientPc
<1>4. CASE ExfReleaseEx(t)
  <2>1. PICK S \in SUBSET (TicketsOf(t) \cap held) :
              S # {} /\ refs' = [refs EXCEPT ![t] = S]
    BY <1>4 DEF ExfReleaseEx
  <2>2. IF runRef.active THEN ownerPc = "waiting" ELSE runRef.count >= Cardinality(S)
    BY <2>1, ReadWhileReleasing
  <2>3. ClientInv(t)'
    BY <1>4, <2>1, <2>2
    DEF ExfReleaseEx, ClientInv, TypeOK, ownerVars, Acquiring, Releasing, TicketsOf
  <2>. QED
    BY <1>a, <1>4, <2>1, <2>3, LocalKeepsIInv DEF ExfReleaseEx, ClientPc
<1>5. CASE ReleaseLoop(t)
  <2>1. CASE value[t].active
    BY <1>5, <2>1, BlockReleaseKeepsIInv
  <2>2. CASE ~value[t].active /\ DropReferences(t)
    BY <1>5, <2>2, DropKeepsIInv DEF ReleaseLoop, Releasing
  <2>3. CASE /\ value' = [value EXCEPT ![t] = runRef]
             /\ UNCHANGED <<runRef, held, pc, refs, ownerVars, waitBlock>>
    <3>1. refs[t] \subseteq TicketsOf(t) \cap held /\ refs[t] # {}
      BY <1>5 DEF ReleaseLoop, ClientInv, Releasing
    <3>2. IF runRef.active THEN ownerPc = "waiting" ELSE runRef.count >= Cardinality(refs[t])
      BY <3>1, ReadWhileReleasing
    <3>3. ClientInv(t)'
      BY <1>5, <2>3, <3>1, <3>2
      DEF ReleaseLoop, ClientInv, TypeOK, ownerVars, Acquiring, Releasing, TicketsOf
    <3>4. pc' = [pc EXCEPT ![t] = pc[t]] /\ refs' = [refs EXCEPT ![t] = refs[t]]
      BY <2>3 DEF TypeOK
    <3>5. pc[t] # "releaseSignal"
      BY <1>5 DEF ReleaseLoop
    <3>. QED  BY <2>3, <3>3, <3>4, <3>5, LocalKeepsIInv
  <2>. QED  BY <1>5, <2>1, <2>2, <2>3 DEF ReleaseLoop
<1>6. CASE ReleaseSignal(t)
  <2>1. pc[t] = "releaseSignal" /\ ownerPc = "waiting" /\ held = {}
    BY <1>6 DEF ReleaseSignal, ClientInv
  <2>2. /\ waitBlock' \in [count : Nat, signaled : BOOLEAN, live : BOOLEAN]
        /\ waitBlock'.count = waitBlock.count /\ waitBlock'.live = waitBlock.live
    BY <1>6 DEF ReleaseSignal, TypeOK
  <2>3. TypeOK'
    BY <1>6, <2>2 DEF TypeOK, ReleaseSignal, Return, ownerVars, ClientPc, Counted, Word
  <2>4. OwnerInv'
    BY <1>6, <2>1, <2>2 DEF OwnerInv, ReleaseSignal, ownerVars
  <2>5. \A u \in Thread : u # t => pc'[u] = pc[u] /\ pc[u] # "releaseSignal"
    BY <1>6, <2>1 DEF OneSignal, ReleaseSignal, Return, TypeOK
  <2>6. ASSUME NEW u \in Thread PROVE ClientInv(u)'
    <3>1. CASE u = t
      BY <1>6, <3>1 DEF ClientInv, TypeOK, ReleaseSignal, Return, Acquiring, Releasing
    <3>2. CASE u # t
      <4>1. UNCHANGED <<pc[u], value[u], refs[u], held, ownerPc>>
        BY <1>6, <3>2 DEF TypeOK, ReleaseSignal, Return, ownerVars
      <4>. QED  BY <2>5, <3>2, <4>1 DEF ClientInv, TicketsOf
    <3>. QED  BY <3>1, <3>2
  <2>7. OneSignal'
    BY <1>6, <2>5 DEF OneSignal, ReleaseSignal, Return, TypeOK
  <2>. QED  BY <2>3, <2>4, <2>6, <2>7
<1>. QED  BY <1>1, <1>2, <1>3, <1>4, <1>5, <1>6 DEF ReleaseStep

\* A step of the owner leaves the clients alone: what each of them knows
\* survives if the owner only stops waiting once the event was signalled.
LEMMA OwnerKeepsIInv ==
    ASSUME IInv, OwnerStep
    PROVE  IInv'
<1>. USE DEF IInv
<1>1. UNCHANGED <<held, pc, value, refs>>
  BY DEF OwnerStep, WaitFast, MarkActive, ExfWait, ExfWaitSetBlock,
         ExfWaitWake, RundownCompleted, ReInitialize, clientVars
<1>2. OneSignal'
  BY <1>1 DEF OneSignal
<1>3. ownerPc = "waiting" =>
        ownerPc' = "waiting" \/ (held = {} /\ waitBlock.signaled)
  BY DEF OwnerStep, WaitFast, ExfWait, ExfWaitSetBlock, ExfWaitWake,
         RundownCompleted, ReInitialize, OwnerInv
<1>4. ownerPc = "waiting" => waitBlock' = waitBlock \/ waitBlock.signaled
  BY DEF OwnerStep, WaitFast, MarkActive, ExfWait, ExfWaitSetBlock, ExfWaitWake,
         RundownCompleted, ReInitialize
<1>5. ASSUME NEW t \in Thread PROVE ClientInv(t)'
  BY <1>1, <1>3, <1>4 DEF ClientInv, TicketsOf, Acquiring, Releasing
<1>6. held \in SUBSET Reference /\ Cardinality(held) \in Nat
  BY FiniteReferences DEF TypeOK
<1>7. CASE MarkActive /\ ownerPc # "waiting"
  <2>1. held = {}
    BY <1>6, <1>7, NoReferences
    DEF MarkActive, OwnerInv, TypeOK, OwnerPc, Counted, Active
  <2>2. TypeOK'
    BY <1>7 DEF TypeOK, MarkActive, clientVars, OwnerPc, Word, Active
  <2>3. OwnerInv'
    BY <1>7, <2>1 DEF MarkActive, OwnerInv
  <2>. QED  BY <1>2, <1>5, <2>2, <2>3
<1>8. CASE WaitFast /\ ~MarkActive
  <2>1. TypeOK'
    BY <1>8 DEF TypeOK, WaitFast, clientVars, OwnerPc
  <2>2. OwnerInv'
    BY <1>8 DEF WaitFast, OwnerInv
  <2>. QED  BY <1>2, <1>5, <2>1, <2>2
<1>9. CASE ExfWait /\ ~MarkActive
  <2>1. TypeOK'
    BY <1>9 DEF TypeOK, ExfWait, clientVars, OwnerPc
  <2>2. OwnerInv'
    BY <1>9 DEF ExfWait, OwnerInv, Counted
  <2>. QED  BY <1>2, <1>5, <2>1, <2>2
<1>10. CASE ExfWaitSetBlock
  <2>1. CASE runRef = ownerVal
    <3>1. /\ runRef' = Blocked /\ ownerVal' = ownerVal
          /\ waitBlock' = [count |-> ownerVal.count, signaled |-> FALSE,
                           live |-> ownerVal.count # 0]
          /\ ownerPc' = IF ownerVal.count = 0 THEN "drained" ELSE "waiting"
      BY <1>10, <2>1 DEF ExfWaitSetBlock, SavedCount
    <3>2. ownerVal.count = Cardinality(held)
      BY <1>10, <2>1 DEF ExfWaitSetBlock, OwnerInv, Counted
    <3>3. TypeOK'
      BY <1>1, <1>6, <3>1, <3>2 DEF TypeOK, OwnerPc, Word, Blocked
    <3>4. OwnerInv'
      BY <1>1, <1>6, <3>1, <3>2, NoReferences DEF OwnerInv
    <3>. QED  BY <1>2, <1>5, <3>3, <3>4
  <2>2. CASE runRef # ownerVal
    <3>1. TypeOK'
      BY <1>10, <2>2 DEF TypeOK, ExfWaitSetBlock, clientVars
    <3>2. OwnerInv'
      BY <1>10, <2>2 DEF ExfWaitSetBlock, OwnerInv, Counted
    <3>. QED  BY <1>2, <1>5, <3>1, <3>2
  <2>. QED  BY <2>1, <2>2
<1>11. CASE ExfWaitWake
  <2>1. waitBlock' \in [count : Nat, signaled : BOOLEAN, live : BOOLEAN]
    BY <1>11 DEF ExfWaitWake, TypeOK
  <2>2. TypeOK'
    BY <1>11, <2>1 DEF TypeOK, ExfWaitWake, clientVars, OwnerPc
  <2>3. OwnerInv'
    BY <1>11 DEF ExfWaitWake, OwnerInv
  <2>. QED  BY <1>2, <1>5, <2>2, <2>3
<1>12. CASE RundownCompleted
  <2>1. TypeOK'
    BY <1>12 DEF TypeOK, RundownCompleted, clientVars, OwnerPc, Active, Word
  <2>2. OwnerInv'
    BY <1>12 DEF RundownCompleted, OwnerInv
  <2>. QED  BY <1>2, <1>5, <2>1, <2>2
<1>13. CASE ReInitialize
  <2>1. TypeOK'
    BY <1>13 DEF TypeOK, ReInitialize, clientVars, OwnerPc, Counted, Word
  <2>2. OwnerInv'
    BY <1>13, FS_EmptySet DEF ReInitialize, OwnerInv
  <2>. QED  BY <1>2, <1>5, <2>1, <2>2
<1>. QED
  BY <1>7, <1>8, <1>9, <1>10, <1>11, <1>12, <1>13
  DEF OwnerStep, WaitFast, ExfWait

LEMMA NextIInv == IInv /\ [Next]_vars => IInv'
<1>. SUFFICES ASSUME IInv, [Next]_vars PROVE IInv'
  OBVIOUS
<1>1. CASE UNCHANGED vars
  BY <1>1 DEF vars, IInv, TypeOK, OwnerInv, ClientInv, OneSignal
<1>2. ASSUME NEW t \in Thread, AcquireStep(t) \/ ReleaseStep(t) PROVE IInv'
  BY <1>2, AcquireKeepsIInv, ReleaseKeepsIInv
<1>3. CASE OwnerStep
  BY <1>3, OwnerKeepsIInv
<1>. QED  BY <1>1, <1>2, <1>3 DEF Next

\* The invariant excludes a failing ASSERT.
LEMMA IInvAsserts ==
    ASSUME IInv
    PROVE  SanityChecks
<1>. USE DEF IInv
<1>1. ASSUME NEW t \in Thread, pc[t] = "releaseFast", runRef = value[t]
      PROVE  value[t].count >= 1
  <2>1. refs[t] \in SUBSET held /\ refs[t] # {} /\ ~runRef.active
    BY <1>1 DEF ClientInv, Releasing
  <2>2. runRef.count >= Cardinality(refs[t])
    BY <2>1, ReadWhileReleasing
  <2>3. Cardinality(refs[t]) \in Nat \ {0}
    BY <2>1, FiniteReferences, NoReferences DEF TypeOK
  <2>. QED  BY <1>1, <2>2, <2>3 DEF TypeOK, Word
<1>2. ASSUME NEW t \in Thread, pc[t] = "releaseLoop", ~value[t].active
      PROVE  value[t].count >= Cardinality(refs[t])
  BY <1>2 DEF ClientInv
<1>3. ASSUME NEW t \in Thread, pc[t] = "releaseLoop", value[t].active
      PROVE  waitBlock.count >= Cardinality(refs[t])
  <2>1. held \in SUBSET Reference /\ refs[t] \in SUBSET held
    BY <1>3 DEF ClientInv, Releasing, TypeOK
  <2>2. Cardinality(refs[t]) <= Cardinality(held)
    BY <2>1, RemoveReferences
  <2>3. waitBlock.count = Cardinality(held)
    BY <1>3 DEF ClientInv, OwnerInv
  <2>4. Cardinality(refs[t]) \in Nat /\ Cardinality(held) \in Nat
    BY <2>1, FiniteReferences
  <2>. QED  BY <2>2, <2>3, <2>4
<1>4. ownerPc = "waitLoop" => ~ownerVal.active
  BY DEF OwnerInv, Counted
<1>5. ownerPc = "waiting" /\ waitBlock.signaled => waitBlock.count = 0
  BY FS_EmptySet DEF OwnerInv
<1>. QED  BY <1>1, <1>2, <1>3, <1>4, <1>5 DEF SanityChecks

-----------------------------------------------------------------------------
(* The theorems *)

\* The invariant holds in every behaviour of the routines.
THEOREM Invariance == Spec => []IInv
<1>1. Init => IInv  BY InitIInv
<1>2. IInv /\ [Next]_vars => IInv'  BY NextIInv
<1>. QED  BY <1>1, <1>2, PTL DEF Spec

\* The word, the wait block and all local variables keep their types; in
\* particular no count ever goes below zero.
THEOREM TypeCorrect == Spec => []TypeOK
<1>1. IInv => TypeOK  BY DEF IInv
<1>. QED  BY <1>1, Invariance, PTL

\* When the wait has returned, nobody is left inside the structure.
THEOREM Safety == Spec => []RundownSafe
<1>1. IInv => RundownSafe  BY DEF IInv, OwnerInv, RundownSafe
<1>. QED  BY <1>1, Invariance, PTL

\* Clients only touch the wait block while the owner's stack frame is there.
THEOREM BlockLifetime == Spec => []WaitBlockAlive
<1>1. IInv => WaitBlockAlive
  BY DEF IInv, OwnerInv, ClientInv, WaitBlockAlive
<1>. QED  BY <1>1, Invariance, PTL

\* None of the routines' ASSERTs can fail.
THEOREM AssertsHold == Spec => []SanityChecks
<1>1. IInv => SanityChecks  BY IInvAsserts
<1>. QED  BY <1>1, Invariance, PTL

-----------------------------------------------------------------------------
(* Refinement *)

LEMMA InitContract == Init => Contract!ContractInit
BY DEF Init, Contract!ContractInit, Phase, Counted

\* Every step of the routines is a step of the contract, or invisible to it.
LEMMA NextContract ==
    ASSUME IInv, [Next]_vars
    PROVE  [Contract!ContractNext]_(Contract!contractVars)
<1>. USE DEF IInv, Contract!contractVars, Contract!ContractNext
<1>a. held \in SUBSET Reference
  BY DEF TypeOK
<1>1. CASE UNCHANGED <<runRef, held, ownerPc>>
  BY <1>1 DEF Phase
<1>2. ASSUME NEW t \in Thread, TakeReferences(t), ~value[t].active
      PROVE  Contract!Grant
  <2>1. Phase = "live" /\ Phase' = "live"
    BY <1>2 DEF TakeReferences, Plus, Phase
  <2>3. refs[t] \in SUBSET Reference /\ held' = held \cup refs[t]
    BY <1>2 DEF TakeReferences, TypeOK
  <2>4. held' = held \cup (refs[t] \ held) /\ refs[t] \ held \in SUBSET (Reference \ held)
    BY <2>3
  <2>. QED  BY <2>1, <2>4 DEF Contract!Grant
<1>3. ASSUME NEW t \in Thread, DropReferences(t)
      PROVE  Contract!GiveBack
  <2>1. Phase' = Phase
    BY <1>3 DEF DropReferences, Minus, Phase, ownerVars
  <2>2. held' = held \ (refs[t] \cap held) /\ refs[t] \cap held \in SUBSET held
    BY <1>3 DEF DropReferences
  <2>. QED  BY <2>1, <2>2 DEF Contract!GiveBack
<1>4. ASSUME NEW t \in Thread, ReleaseLoop(t), value[t].active
      PROVE  Contract!GiveBack
  <2>1. Phase' = Phase /\ held' = held \ refs[t]
    BY <1>4 DEF ReleaseLoop, Phase, ownerVars
  <2>2. held' = held \ (refs[t] \cap held) /\ refs[t] \cap held \in SUBSET held
    BY <2>1
  <2>. QED  BY <2>1, <2>2 DEF Contract!GiveBack
<1>5. ASSUME NEW t \in Thread, AcquireStep(t)
      PROVE  Contract!Grant \/ UNCHANGED <<runRef, held, ownerPc>>
  <2>1. CASE TakeReferences(t) /\ ~value[t].active
    BY <1>2, <2>1
  <2>2. CASE ~(TakeReferences(t) /\ ~value[t].active)
    <3>1. pc[t] = "acquireFast" => ~value[t].active
      BY DEF ClientInv
    <3>. QED
      BY <1>5, <2>2, <3>1
      DEF AcquireStep, AcquireFast, AcquireFastChange, ExfAcquire, ExfAcquireEx,
          AcquireLoop, RefusedBy, ownerVars
  <2>. QED  BY <2>1, <2>2
<1>6. ASSUME NEW t \in Thread, ReleaseStep(t)
      PROVE  Contract!GiveBack \/ UNCHANGED <<runRef, held, ownerPc>>
  <2>1. CASE DropReferences(t) \/ (ReleaseLoop(t) /\ value[t].active)
    BY <1>3, <1>4, <2>1
  <2>2. CASE ~(DropReferences(t) \/ (ReleaseLoop(t) /\ value[t].active))
    BY <1>6, <2>2
    DEF ReleaseStep, ReleaseFast, ReleaseFastChange, ExfRelease, ExfReleaseEx,
        ReleaseLoop, ReleaseSignal, ownerVars
  <2>. QED  BY <2>1, <2>2
<1>7. ASSUME OwnerStep
      PROVE  \/ Contract!BeginRundown \/ Contract!FinishRundown
             \/ Contract!Restart \/ UNCHANGED <<held, Phase>>
  <2>0. held' = held /\ IInv'
    BY <1>7, OwnerKeepsIInv
    DEF OwnerStep, WaitFast, MarkActive, ExfWait, ExfWaitSetBlock,
        ExfWaitWake, RundownCompleted, ReInitialize
  <2>2. Phase' = "down" => held = {}
    BY <2>0 DEF OwnerInv, Phase
  <2>3. Phase \in {"live", "draining", "down"} /\ Phase' \in {"live", "draining", "down"}
    BY DEF Phase
  <2>4. Phase = "draining" => Phase' # "live"
    BY <1>7 DEF OwnerStep, WaitFast, MarkActive, ExfWait, ExfWaitSetBlock,
        ExfWaitWake, RundownCompleted, ReInitialize, Phase, Active, Blocked, OwnerInv, Counted
  <2>5. Phase = "down" => Phase' # "draining"
    BY <1>7 DEF OwnerStep, WaitFast, MarkActive, ExfWait, ExfWaitSetBlock,
        ExfWaitWake, RundownCompleted, ReInitialize, Phase, Active, Blocked, OwnerInv, Counted
  <2>. QED
    BY <2>0, <2>2, <2>3, <2>4, <2>5
    DEF Contract!BeginRundown, Contract!FinishRundown, Contract!Restart
<1>. QED
  BY <1>1, <1>5, <1>6, <1>7 DEF Next, vars

\* The routines implement the contract: references are granted only while
\* the descriptor is live, and it is down only when none is left.
THEOREM Refinement == Spec => ImplementsContract
<1>1. Init => Contract!ContractInit  BY InitContract
<1>2. IInv /\ [Next]_vars => [Contract!ContractNext]_(Contract!contractVars)
  BY NextContract
<1>. QED
  BY <1>1, <1>2, Invariance, PTL DEF Spec, ImplementsContract, Contract!ContractSpec
=============================================================================
