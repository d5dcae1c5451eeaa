---------------------- MODULE CacheAwareRundownProofs ----------------------
(***************************************************************************)
(* Cache-aware run-down protection for any finite sets of threads and      *)
(* references, any number of processors and any bound on the words, with   *)
(* the test of the source alone or with the opposite one besides it, up to *)
(* the first wait that returns with references outstanding.                *)
(***************************************************************************)
EXTENDS CacheAwareRundown, FiniteSetTheorems, TLAPS

Bounded == \A c \in Processor : runRefs[c].count \in -MaxSkew .. MaxSkew

InWait == {"sweep", "swept", "add", "waiting"}

\* The words at each place of the owner: active behind the sweep, counting
\* ahead of it.
WordsInv ==
    \A c \in Processor :
        /\ ownerPc = "live" => ~runRefs[c].active
        /\ ownerPc = "sweep" => (runRefs[c].active <=> c < current)
        /\ ownerPc = "reinit" => (runRefs[c].active <=> c >= current)
        /\ ownerPc \notin {"live", "sweep", "reinit"} => runRefs[c].active
        /\ runRefs[c].active => runRefs[c].count = 0
        /\ ownerPc = "reinit" => runRefs[c].count = 0

\* What adds up to the references that are out.
CountInv ==
    /\ ownerPc = "live" => Cardinality(held) = Unswept
    /\ ownerPc \in {"sweep", "swept", "add"} =>
          Cardinality(held) = Unswept + total + waitBlock.count
    /\ ownerPc = "waiting" => Cardinality(held) = waitBlock.count
    /\ ownerPc \notin InWait \cup {"live"} => held = {}

\* Until the owner adds the total, the block's count only went down from zero,
\* so that no release takes itself for the last one.
BlockInv ==
    /\ waitBlock.live <=> ownerPc \in InWait
    /\ ownerPc \in {"sweep", "swept", "add"} => waitBlock.count <= 0
    /\ ownerPc \in {"add", "waiting"} => waitBlock.ready
    /\ waitBlock.signaled => ownerPc = "waiting" /\ held = {}

ClientInv(t) ==
    /\ pc[t] = "releaseBlock" => /\ refs[t] \subseteq TicketsOf(t) \cap held
                                 /\ refs[t] # {}
                                 /\ ownerPc \in InWait
    /\ pc[t] = "releaseSignal" =>
          ownerPc = "waiting" /\ held = {} /\ ~waitBlock.signaled

\* Only one client can have brought the block's count to zero.
OneSignal == \A t, u \in Thread :
                pc[t] = "releaseSignal" /\ pc[u] = "releaseSignal" => t = u

SafeInv == /\ WordsInv
           /\ CountInv
           /\ BlockInv
           /\ \A t \in Thread : ClientInv(t)
           /\ OneSignal

IInv == TypeOK /\ Bounded /\ (leaked = {} => SafeInv)

-----------------------------------------------------------------------------
(* Finite sets of references *)

\* There are finitely many references, so every set of them can be counted.
LEMMA FiniteReferences ==
    ASSUME NEW S \in SUBSET Reference
    PROVE  /\ IsFiniteSet(S) /\ Cardinality(S) \in Nat
           /\ Cardinality(S) = 0 <=> S = {}
<1>1. IsFiniteSet(Reference)
  BY FS_Product, ThreadAssumption, TicketAssumption DEF Reference
<1>2. IsFiniteSet(S)
  BY <1>1, FS_Subset
<1>. QED  BY <1>2, FS_CardinalityType, FS_EmptySet

\* Adding references that are not out yet adds their number.
LEMMA AddReferences ==
    ASSUME NEW S \in SUBSET Reference, NEW T \in SUBSET Reference, S \cap T = {}
    PROVE  Cardinality(S \cup T) = Cardinality(S) + Cardinality(T)
<1>1. IsFiniteSet(S) /\ IsFiniteSet(T)
  BY FiniteReferences
<1>2. Cardinality(S \cup T) = Cardinality(S) + Cardinality(T) - 0
  BY <1>1, FS_Union, FS_EmptySet
<1>. QED  BY <1>2, FiniteReferences

\* Taking away references that are out subtracts their number.
LEMMA RemoveReferences ==
    ASSUME NEW S \in SUBSET Reference, NEW T \in SUBSET S
    PROVE  Cardinality(S \ T) = Cardinality(S) - Cardinality(T)
<1>1. S = (S \ T) \cup T /\ (S \ T) \cap T = {}
  OBVIOUS
<1>2. Cardinality(S) = Cardinality(S \ T) + Cardinality(T)
  BY <1>1, AddReferences
<1>. QED  BY <1>2, FiniteReferences

-----------------------------------------------------------------------------
(* The sum of the words *)

Positive(n) == IF n > 0 THEN n ELSE 0

\* The units of one word.
LEMMA WordUnits ==
    ASSUME NEW c, NEW n \in Int
    PROVE  /\ IsFiniteSet({c} \X (1 .. n))
           /\ Cardinality({c} \X (1 .. n)) = Positive(n)
<1>1. IsFiniteSet(1 .. n) /\ Cardinality(1 .. n) = Positive(n)
  <2>1. 1 \in Int
    OBVIOUS
  <2>2. IsFiniteSet(1 .. n) /\ Cardinality(1 .. n) = IF 1 > n THEN 0 ELSE n - 1 + 1
    BY <2>1, FS_Interval, Zenon
  <2>. QED  BY <2>2 DEF Positive
<1>2. IsFiniteSet({c}) /\ Cardinality({c}) = 1
  BY FS_Singleton
<1>3. /\ IsFiniteSet({c} \X (1 .. n))
      /\ Cardinality({c} \X (1 .. n)) = Cardinality({c}) * Cardinality(1 .. n)
  BY <1>1, <1>2, FS_Product, Zenon
<1>. QED  BY <1>1, <1>2, <1>3 DEF Positive

\* A word contributes its units to those of all words.
LEMMA UnitsChange ==
    ASSUME NEW f \in [Processor -> -MaxSkew .. MaxSkew],
           NEW g \in [Processor -> -MaxSkew .. MaxSkew],
           NEW c \in Processor, \A d \in Processor \ {c} : g[d] = f[d]
    PROVE  /\ Cardinality(Units(f)) \in Nat
           /\ Cardinality(Units(g)) = Cardinality(Units(f)) - Positive(f[c]) + Positive(g[c])
<1> DEFINE R == UNION {{d} \X (1 .. f[d]) : d \in Processor \ {c}}
           M(n) == {c} \X (1 .. n)
<1>1. /\ Units(f) = R \cup M(f[c]) /\ Units(g) = R \cup M(g[c])
      /\ R \cap M(f[c]) = {} /\ R \cap M(g[c]) = {}
  BY DEF Units
<1>2. IsFiniteSet(R)
  <2>1. 0 \in Int /\ 1 \in Int /\ MaxSkew \in Int /\ Number - 1 \in Int
    BY MaxSkewAssumption, NumberAssumption
  <2>2. IsFiniteSet(1 .. MaxSkew) /\ IsFiniteSet(Processor)
    BY <2>1, FS_Interval, Zenon DEF Processor
  <2>3. IsFiniteSet(Processor \X (1 .. MaxSkew))
    BY <2>2, FS_Product, Zenon
  <2>4. \A d \in Processor \ {c} : {d} \X (1 .. f[d]) \subseteq Processor \X (1 .. MaxSkew)
    BY MaxSkewAssumption
  <2>5. R \subseteq Processor \X (1 .. MaxSkew)
    BY <2>4, Zenon
  <2>. QED  BY <2>3, <2>5, FS_Subset
<1>3. f[c] \in Int /\ g[c] \in Int
  BY MaxSkewAssumption
<1>4. ASSUME NEW n \in Int, R \cap M(n) = {}
      PROVE  Cardinality(R \cup M(n)) = Cardinality(R) + Positive(n)
  <2>0. IsFiniteSet(M(n)) /\ Cardinality(M(n)) = Positive(n)
    BY WordUnits
  <2> HIDE DEF R, M
  <2>1. Cardinality(R \cup M(n)) = Cardinality(R) + Cardinality(M(n)) - Cardinality(R \cap M(n))
    BY <1>2, <2>0, FS_Union
  <2>2. Cardinality(R \cap M(n)) = 0
    BY <1>4, FS_EmptySet
  <2>. QED  BY <1>2, <2>0, <2>1, <2>2, FS_CardinalityType DEF Positive
<1> HIDE DEF R, M
<1>5. /\ Cardinality(Units(f)) = Cardinality(R) + Positive(f[c])
      /\ Cardinality(Units(g)) = Cardinality(R) + Positive(g[c])
  BY <1>1, <1>3, <1>4
<1>. QED  BY <1>2, <1>3, <1>5, FS_CardinalityType DEF Positive

\* Changing one word changes the sum by as much.
LEMMA UnsweptChange ==
    ASSUME Bounded, Bounded', NEW c \in Processor,
           \A d \in Processor \ {c} : runRefs'[d].count = runRefs[d].count
    PROVE  /\ Unswept \in Int
           /\ Unswept' = Unswept - runRefs[c].count + runRefs'[c].count
<1> DEFINE f == [d \in Processor |-> runRefs[d].count]
           g == [d \in Processor |-> runRefs'[d].count]
           nf == [d \in Processor |-> -runRefs[d].count]
           ng == [d \in Processor |-> -runRefs'[d].count]
<1>1. /\ f \in [Processor -> -MaxSkew .. MaxSkew] /\ g \in [Processor -> -MaxSkew .. MaxSkew]
      /\ f[c] \in Int /\ g[c] \in Int
  BY MaxSkewAssumption DEF Bounded
<1>2. nf \in [Processor -> -MaxSkew .. MaxSkew] /\ ng \in [Processor -> -MaxSkew .. MaxSkew]
  BY MaxSkewAssumption DEF Bounded
<1>3. \A d \in Processor \ {c} : g[d] = f[d] /\ ng[d] = nf[d]
  OBVIOUS
<1>4. nf[c] = -f[c] /\ ng[c] = -g[c] /\ f[c] = runRefs[c].count /\ g[c] = runRefs'[c].count
  OBVIOUS
<1>5. /\ Unswept = Cardinality(Units(f)) - Cardinality(Units(nf))
      /\ Unswept' = Cardinality(Units(g)) - Cardinality(Units(ng))
  BY DEF Unswept, Above, Below, Units
<1> HIDE DEF f, g, nf, ng
<1>6. /\ Cardinality(Units(f)) \in Nat
      /\ Cardinality(Units(g)) = Cardinality(Units(f)) - Positive(f[c]) + Positive(g[c])
  BY <1>1, <1>3, UnitsChange
<1>7. /\ Cardinality(Units(nf)) \in Nat
      /\ Cardinality(Units(ng)) = Cardinality(Units(nf)) - Positive(nf[c]) + Positive(ng[c])
  BY <1>2, <1>3, UnitsChange
<1>. QED  BY <1>1, <1>4, <1>5, <1>6, <1>7, SMTT(30) DEF Positive

\* Words that are all empty add up to nothing.
LEMMA NothingUnswept ==
    ASSUME \A c \in Processor : runRefs[c].count = 0
    PROVE  Unswept = 0
<1>1. Above = {} /\ Below = {}
  BY DEF Above, Below, Units
<1>. QED  BY <1>1, FS_EmptySet DEF Unswept

-----------------------------------------------------------------------------
(* The initial state *)

LEMMA InitIInv == ASSUME Init PROVE IInv
<1>1. TypeOK /\ Bounded
  BY NumberAssumption, MaxSkewAssumption
     DEF Init, TypeOK, Bounded, Word, Counted, OwnerPc, NoBlock, Processor
<1>2. WordsInv /\ BlockInv /\ OneSignal /\ \A t \in Thread : ClientInv(t)
  BY DEF Init, WordsInv, BlockInv, OneSignal, ClientInv, Counted, NoBlock, InWait
<1>3. Unswept = 0
  BY NothingUnswept DEF Init, Counted
<1>4. CountInv
  BY <1>3, FS_EmptySet DEF Init, CountInv, InWait
<1>. QED  BY <1>1, <1>2, <1>4 DEF IInv, SafeInv

-----------------------------------------------------------------------------
(* The clients *)

LEMMA AcquireKeepsIInv == ASSUME IInv, NEW t \in Thread, Acquire(t) PROVE IInv'
<1>. PICK c \in Processor, S \in (SUBSET (TicketsOf(t) \ held)) \ {{}} :
           /\ ~runRefs[c].active
           /\ runRefs[c].count + Cardinality(S) <= MaxSkew
           /\ runRefs' = [runRefs EXCEPT ![c] = Plus(@, Cardinality(S))]
           /\ held' = held \cup S
  BY DEF Acquire
<1>0. /\ ownerPc # "reinit" /\ UNCHANGED <<pc, refs, ownerPc, current, total, waitBlock, leaked>>
      /\ runRefs \in [Processor -> Word] /\ held \in SUBSET Reference /\ S \in SUBSET Reference
      /\ S \cap held = {} /\ waitBlock.count \in Int /\ total \in Int
  BY DEF Acquire, CallersKeptOut, clientVars, ownerVars, IInv, TypeOK, TicketsOf, Reference
<1>1. Cardinality(S) \in Nat /\ Cardinality(held) \in Nat
      /\ Cardinality(held') = Cardinality(held) + Cardinality(S)
  BY <1>0, FiniteReferences, AddReferences
<1>2. /\ runRefs[c].count \in Int /\ runRefs'[c].count = runRefs[c].count + Cardinality(S)
      /\ runRefs'[c].active = runRefs[c].active
      /\ runRefs' \in [Processor -> Word]
      /\ \A d \in Processor \ {c} : runRefs'[d] = runRefs[d]
  BY <1>0, <1>1 DEF Plus, Word
<1>3. TypeOK'
  BY <1>0, <1>2 DEF IInv, TypeOK
<1>4. Bounded'
  BY <1>1, <1>2, MaxSkewAssumption DEF IInv, Bounded
<1>5. ASSUME leaked' = {} PROVE SafeInv'
  <2>1. SafeInv /\ ownerPc \in {"live", "sweep"}
    BY <1>0, <1>5 DEF IInv, TypeOK, SafeInv, WordsInv, OwnerPc
  <2>2. Unswept \in Int /\ Unswept' = Unswept + Cardinality(S)
    <3>1. Unswept \in Int /\ Unswept' = Unswept - runRefs[c].count + runRefs'[c].count
      BY <1>2, <1>4, UnsweptChange DEF IInv
    <3>. QED  BY <1>1, <1>2, <3>1
  <2>3. WordsInv'
    BY <1>0, <1>2, <2>1 DEF SafeInv, WordsInv
  <2>4. CountInv'
    BY <1>0, <1>1, <2>1, <2>2 DEF SafeInv, CountInv, InWait
  <2>5. BlockInv'
    BY <1>0, <2>1 DEF SafeInv, BlockInv
  <2>6. (\A u \in Thread : ClientInv(u)') /\ OneSignal'
    BY <1>0, <2>1 DEF SafeInv, ClientInv, OneSignal
  <2>. QED  BY <2>3, <2>4, <2>5, <2>6 DEF SafeInv
<1>. QED  BY <1>3, <1>4, <1>5 DEF IInv

LEMMA ReleaseKeepsIInv == ASSUME IInv, NEW t \in Thread, Release(t) PROVE IInv'
<1>. PICK c \in Processor, S \in (SUBSET (TicketsOf(t) \cap held)) \ {{}} :
        \/ /\ ~runRefs[c].active
           /\ runRefs[c].count - Cardinality(S) >= -MaxSkew
           /\ runRefs' = [runRefs EXCEPT ![c] = Minus(@, Cardinality(S))]
           /\ held' = held \ S
           /\ UNCHANGED clientVars
        \/ /\ runRefs[c].active
           /\ pc' = [pc EXCEPT ![t] = "releaseBlock"]
           /\ refs' = [refs EXCEPT ![t] = S]
           /\ UNCHANGED <<runRefs, held>>
  BY DEF Release
<1>0. /\ pc[t] = "idle" /\ UNCHANGED <<ownerPc, current, total, waitBlock, leaked>>
      /\ runRefs \in [Processor -> Word] /\ held \in SUBSET Reference /\ S \in SUBSET Reference
      /\ S \in SUBSET held /\ waitBlock.count \in Int /\ total \in Int
      /\ pc \in [Thread -> {"idle", "releaseBlock", "releaseSignal"}]
      /\ refs \in [Thread -> SUBSET Reference]
      /\ S # {}
  BY DEF Release, ownerVars, IInv, TypeOK, TicketsOf, Reference
<1>1. /\ Cardinality(S) \in Nat /\ Cardinality(held) \in Nat
      /\ Cardinality(held \ S) = Cardinality(held) - Cardinality(S)
  BY <1>0, FiniteReferences, RemoveReferences
<1>2. CASE ~runRefs[c].active
  <2>0. /\ runRefs[c].count - Cardinality(S) >= -MaxSkew
        /\ runRefs' = [runRefs EXCEPT ![c] = Minus(@, Cardinality(S))]
        /\ held' = held \ S /\ UNCHANGED <<pc, refs>>
    BY <1>2 DEF clientVars
  <2>1. /\ runRefs[c].count \in Int /\ runRefs'[c].count = runRefs[c].count - Cardinality(S)
        /\ runRefs'[c].active = runRefs[c].active
        /\ runRefs' \in [Processor -> Word]
        /\ \A d \in Processor \ {c} : runRefs'[d] = runRefs[d]
    BY <1>0, <1>1, <2>0 DEF Minus, Word
  <2>2. TypeOK'
    BY <1>0, <2>0, <2>1 DEF IInv, TypeOK
  <2>3. Bounded'
    BY <1>1, <2>0, <2>1, MaxSkewAssumption DEF IInv, Bounded
  <2>4. ASSUME leaked' = {} PROVE SafeInv'
    <3>1. SafeInv /\ ownerPc \in {"live", "sweep"}
      BY <1>0, <1>2, <2>4 DEF IInv, TypeOK, SafeInv, WordsInv, CountInv, InWait, OwnerPc
    <3>2. Unswept \in Int /\ Unswept' = Unswept - Cardinality(S)
      <4>1. Unswept \in Int /\ Unswept' = Unswept - runRefs[c].count + runRefs'[c].count
        BY <2>1, <2>3, UnsweptChange DEF IInv
      <4>. QED  BY <1>1, <2>1, <4>1
    <3>3. WordsInv'
      BY <1>0, <2>1, <3>1 DEF SafeInv, WordsInv
    <3>4. CountInv'
      BY <1>0, <1>1, <2>0, <3>1, <3>2 DEF SafeInv, CountInv, InWait
    <3>5. BlockInv'
      BY <1>0, <3>1 DEF SafeInv, BlockInv
    <3>6. (\A u \in Thread : ClientInv(u)') /\ OneSignal'
      BY <1>0, <2>0, <3>1 DEF SafeInv, ClientInv, OneSignal, TicketsOf
    <3>. QED  BY <3>3, <3>4, <3>5, <3>6 DEF SafeInv
  <2>. QED  BY <2>2, <2>3, <2>4 DEF IInv
<1>3. CASE runRefs[c].active
  <2>0. /\ pc' = [pc EXCEPT ![t] = "releaseBlock"] /\ refs' = [refs EXCEPT ![t] = S]
        /\ UNCHANGED <<runRefs, held>>
    BY <1>3
  <2>1. TypeOK' /\ Bounded'
    BY <1>0, <2>0 DEF IInv, TypeOK, Bounded
  <2>2. ASSUME leaked' = {} PROVE SafeInv'
    <3>1. SafeInv /\ ownerPc \in InWait
      BY <1>0, <1>3, <2>2 DEF IInv, SafeInv, WordsInv, CountInv
    <3>2. WordsInv' /\ CountInv' /\ BlockInv'
      BY <1>0, <2>0, <3>1
         DEF SafeInv, WordsInv, CountInv, BlockInv, Unswept, Above, Below
    <3>3. (\A u \in Thread : ClientInv(u)') /\ OneSignal'
      BY <1>0, <2>0, <3>1 DEF SafeInv, ClientInv, OneSignal
    <3>. QED  BY <3>2, <3>3 DEF SafeInv
  <2>. QED  BY <2>1, <2>2 DEF IInv
<1>. QED  BY <1>2, <1>3

LEMMA ReleaseBlockKeepsIInv ==
    ASSUME IInv, NEW t \in Thread, ReleaseBlock(t) PROVE IInv'
<1>0. /\ pc[t] = "releaseBlock" /\ UNCHANGED <<runRefs, ownerPc, current, total, leaked>>
      /\ held' = held \ refs[t] /\ held \in SUBSET Reference
      /\ waitBlock' = IF waitBlock.live
                      THEN [waitBlock EXCEPT !.count = @ - Cardinality(refs[t])]
                      ELSE waitBlock
      /\ total \in Int
      /\ waitBlock \in [count : Int, ready : BOOLEAN, signaled : BOOLEAN, live : BOOLEAN]
      /\ pc \in [Thread -> {"idle", "releaseBlock", "releaseSignal"}]
      /\ refs \in [Thread -> SUBSET Reference]
  BY DEF ReleaseBlock, ownerVars, IInv, TypeOK
<1>1. \/ /\ waitBlock.live /\ waitBlock'.count = 0
         /\ pc' = [pc EXCEPT ![t] = "releaseSignal"] /\ refs' = refs
      \/ /\ ~(waitBlock.live /\ waitBlock'.count = 0)
         /\ pc' = [pc EXCEPT ![t] = "idle"] /\ refs' = [refs EXCEPT ![t] = {}]
  BY DEF ReleaseBlock, Return, LastOne
<1>2. Cardinality(refs[t]) \in Nat /\ Cardinality(held) \in Nat
  BY <1>0, FiniteReferences
<1>3. TypeOK' /\ Bounded'
  <2>1. waitBlock' \in [count : Int, ready : BOOLEAN, signaled : BOOLEAN, live : BOOLEAN]
    BY <1>0, <1>2
  <2>2. pc' \in [Thread -> {"idle", "releaseBlock", "releaseSignal"}]
        /\ refs' \in [Thread -> SUBSET Reference]
    BY <1>0, <1>1
  <2>. QED  BY <1>0, <2>1, <2>2 DEF IInv, TypeOK, Bounded
<1>4. ASSUME leaked' = {} PROVE SafeInv'
  <2>1. /\ SafeInv /\ ownerPc \in InWait /\ waitBlock.live
        /\ refs[t] \in SUBSET held /\ refs[t] # {} /\ refs[t] \subseteq TicketsOf(t)
    BY <1>0, <1>4 DEF IInv, SafeInv, ClientInv, BlockInv
  <2>2. /\ Cardinality(held') = Cardinality(held) - Cardinality(refs[t])
        /\ Cardinality(refs[t]) > 0
        /\ Cardinality(held') = 0 <=> held' = {}
    BY <1>0, <1>2, <2>1, FiniteReferences, RemoveReferences
  <2>3. /\ waitBlock'.count = waitBlock.count - Cardinality(refs[t])
        /\ waitBlock.count \in Int /\ waitBlock'.live = waitBlock.live
        /\ waitBlock'.ready = waitBlock.ready /\ waitBlock'.signaled = waitBlock.signaled
    BY <1>0, <2>1
  <2>4. WordsInv' /\ Unswept' = Unswept
    BY <1>0, <2>1 DEF SafeInv, WordsInv, Unswept, Above, Below
  <2>5. Unswept \in Int
    <3>1. 0 \in Processor
      BY NumberAssumption DEF Processor
    <3>. QED  BY <1>0, <1>3, <3>1, UnsweptChange DEF IInv
  <2>6. CountInv'
    BY <1>0, <1>2, <2>1, <2>2, <2>3, <2>4, <2>5 DEF SafeInv, CountInv, InWait
  <2>7. BlockInv'
    BY <1>0, <1>2, <2>1, <2>3 DEF SafeInv, BlockInv, InWait
  <2>8. ~waitBlock.signaled /\ \A u \in Thread : pc[u] # "releaseSignal"
    BY <2>1 DEF SafeInv, BlockInv, ClientInv
  <2>9. waitBlock'.count = 0 => ownerPc = "waiting" /\ held' = {}
    BY <1>0, <1>2, <2>1, <2>2, <2>3 DEF SafeInv, BlockInv, CountInv, InWait
  <2>10. \A u \in Thread \ {t} : /\ pc'[u] = pc[u] /\ refs'[u] = refs[u]
                                 /\ pc[u] = "releaseBlock" => refs[u] \subseteq held'
    BY <1>0, <1>1, <2>1 DEF SafeInv, ClientInv, TicketsOf
  <2>11. ClientInv(t)'
    BY <1>0, <1>1, <2>3, <2>8, <2>9 DEF ClientInv
  <2>12. \A u \in Thread : ClientInv(u)'
    BY <1>0, <2>1, <2>8, <2>10, <2>11 DEF SafeInv, ClientInv
  <2>13. OneSignal'
    BY <2>8, <2>10 DEF OneSignal
  <2>. QED  BY <2>4, <2>6, <2>7, <2>12, <2>13 DEF SafeInv
<1>. QED  BY <1>3, <1>4 DEF IInv

LEMMA ReleaseSignalKeepsIInv ==
    ASSUME IInv, NEW t \in Thread, ReleaseSignal(t) PROVE IInv'
<1>0. /\ pc[t] = "releaseSignal"
      /\ UNCHANGED <<runRefs, held, ownerPc, current, total, leaked>>
      /\ waitBlock' = [waitBlock EXCEPT !.signaled = waitBlock.live]
      /\ pc' = [pc EXCEPT ![t] = "idle"] /\ refs' = [refs EXCEPT ![t] = {}]
      /\ waitBlock \in [count : Int, ready : BOOLEAN, signaled : BOOLEAN, live : BOOLEAN]
      /\ pc \in [Thread -> {"idle", "releaseBlock", "releaseSignal"}]
      /\ refs \in [Thread -> SUBSET Reference]
  BY DEF ReleaseSignal, Return, ownerVars, IInv, TypeOK
<1>1. TypeOK' /\ Bounded'
  BY <1>0 DEF IInv, TypeOK, Bounded
<1>2. ASSUME leaked' = {} PROVE SafeInv'
  <2>1. SafeInv /\ ownerPc = "waiting" /\ held = {}
    BY <1>0, <1>2 DEF IInv, SafeInv, ClientInv
  <2>2. /\ waitBlock'.count = waitBlock.count /\ waitBlock'.live = waitBlock.live
        /\ waitBlock'.ready = waitBlock.ready
    BY <1>0
  <2>3. WordsInv' /\ CountInv' /\ BlockInv'
    BY <1>0, <2>1, <2>2 DEF SafeInv, WordsInv, CountInv, BlockInv, Unswept, Above, Below, InWait
  <2>4. \A u \in Thread : pc'[u] \notin {"releaseBlock", "releaseSignal"}
    BY <1>0, <2>1 DEF SafeInv, ClientInv, OneSignal
  <2>5. (\A u \in Thread : ClientInv(u)') /\ OneSignal'
    BY <2>4 DEF ClientInv, OneSignal
  <2>. QED  BY <2>3, <2>5 DEF SafeInv
<1>. QED  BY <1>1, <1>2 DEF IInv

-----------------------------------------------------------------------------
(* The owner *)

\* The sum of the words is a number.
LEMMA UnsweptType == ASSUME Bounded PROVE Unswept \in Int
<1>1. 0 \in Processor
  BY NumberAssumption DEF Processor
<1>2. /\ [c \in Processor |-> runRefs[c].count] \in [Processor -> -MaxSkew .. MaxSkew]
      /\ [c \in Processor |-> -runRefs[c].count] \in [Processor -> -MaxSkew .. MaxSkew]
  BY MaxSkewAssumption DEF Bounded
<1>3. Cardinality(Above) \in Nat /\ Cardinality(Below) \in Nat
  BY <1>1, <1>2, UnitsChange DEF Above, Below
<1>. QED  BY <1>3 DEF Unswept

LEMMA WaitKeepsIInv == ASSUME IInv, Wait PROVE IInv'
<1>0. /\ ownerPc = "live" /\ ownerPc' = "sweep" /\ current' = 0 /\ total' = 0
      /\ waitBlock' = [NoBlock EXCEPT !.live = TRUE]
      /\ UNCHANGED <<runRefs, held, pc, refs, leaked>>
  BY DEF Wait, clientVars
<1>1. TypeOK' /\ Bounded'
  <2>1. 0 \in Processor /\ 0 \in 0 .. Number
    BY NumberAssumption DEF Processor
  <2>2. waitBlock' \in [count : Int, ready : BOOLEAN, signaled : BOOLEAN, live : BOOLEAN]
    <3>1. waitBlock' = [count |-> 0, ready |-> FALSE, signaled |-> FALSE, live |-> TRUE]
      BY <1>0 DEF NoBlock
    <3>. QED  BY <3>1
  <2>. QED  BY <1>0, <2>1, <2>2 DEF IInv, TypeOK, Bounded, OwnerPc
<1>2. ASSUME leaked' = {} PROVE SafeInv'
  <2>1. SafeInv
    BY <1>0, <1>2 DEF IInv
  <2>2. WordsInv'
    BY <1>0, <2>1 DEF SafeInv, WordsInv, Processor
  <2>3. Unswept' = Unswept /\ Unswept \in Int
    BY <1>0, UnsweptType DEF IInv, Unswept, Above, Below
  <2>4. CountInv'
    BY <1>0, <2>1, <2>3 DEF SafeInv, CountInv, NoBlock, InWait
  <2>5. BlockInv'
    BY <1>0 DEF BlockInv, NoBlock, InWait
  <2>6. (\A u \in Thread : ClientInv(u)') /\ OneSignal'
    BY <1>0, <2>1 DEF SafeInv, ClientInv, OneSignal, InWait
  <2>. QED  BY <2>2, <2>4, <2>5, <2>6 DEF SafeInv
<1>. QED  BY <1>1, <1>2 DEF IInv

LEMMA SweepKeepsIInv == ASSUME IInv, Sweep PROVE IInv'
<1>0. /\ ownerPc = "sweep" /\ current \in Processor /\ current' = current + 1
      /\ total' = total + runRefs[current].count
      /\ runRefs' = [runRefs EXCEPT ![current] = Blocked]
      /\ ownerPc' = IF current + 1 = Number THEN "swept" ELSE "sweep"
      /\ UNCHANGED <<held, pc, refs, waitBlock, leaked>>
      /\ runRefs \in [Processor -> Word] /\ total \in Int /\ waitBlock.count \in Int
  BY DEF Sweep, TotalWith, LastWord, clientVars, IInv, TypeOK
<1>1. /\ runRefs'[current].count = 0 /\ runRefs'[current].active
      /\ runRefs[current].count \in Int
      /\ \A d \in Processor \ {current} : runRefs'[d] = runRefs[d]
  BY <1>0 DEF Blocked, Word
<1>2. TypeOK'
  <2>1. runRefs' \in [Processor -> Word] /\ total' \in Int
    BY <1>0, <1>1 DEF Blocked, Word
  <2>2. current' \in 0 .. Number /\ (ownerPc' = "sweep" => current' \in Processor)
    BY <1>0, NumberAssumption DEF Processor
  <2>. QED  BY <1>0, <2>1, <2>2 DEF IInv, TypeOK, OwnerPc
<1>3. Bounded'
  BY <1>0, <1>1, MaxSkewAssumption DEF IInv, Bounded
<1>4. ASSUME leaked' = {} PROVE SafeInv'
  <2>1. SafeInv
    BY <1>0, <1>4 DEF IInv
  <2>2. WordsInv'
    BY <1>0, <1>1, <2>1, NumberAssumption DEF SafeInv, WordsInv, Processor
  <2>3. Unswept \in Int /\ Unswept' = Unswept - runRefs[current].count
    <3>1. /\ Unswept \in Int
          /\ Unswept' = Unswept - runRefs[current].count + runRefs'[current].count
      BY <1>0, <1>1, <1>3, UnsweptChange DEF IInv
    <3>. QED  BY <1>1, <3>1
  <2>4. CountInv'
    BY <1>0, <1>1, <2>1, <2>3 DEF SafeInv, CountInv, InWait
  <2>5. BlockInv'
    BY <1>0, <2>1 DEF SafeInv, BlockInv, InWait
  <2>6. (\A u \in Thread : ClientInv(u)') /\ OneSignal'
    BY <1>0, <2>1 DEF SafeInv, ClientInv, OneSignal, InWait
  <2>. QED  BY <2>2, <2>4, <2>5, <2>6 DEF SafeInv
<1>. QED  BY <1>2, <1>3, <1>4 DEF IInv

\* The wait returns: what is asked of the new state holds unless references
\* are outstanding.
LEMMA WaitReturnsKeepsIInv ==
    ASSUME IInv, WaitReturns, ownerPc \in {"swept", "add", "waiting"},
           ownerPc = "waiting" => waitBlock.signaled,
           UNCHANGED <<runRefs, held, clientVars, current, total>>
    PROVE  IInv'
<1>0. /\ ownerPc' = "returned" /\ waitBlock' = NoBlock /\ leaked' = leaked \cup held
      /\ UNCHANGED <<runRefs, held, pc, refs, current, total>>
  BY DEF WaitReturns, clientVars
<1>1. TypeOK' /\ Bounded'
  BY <1>0 DEF IInv, TypeOK, Bounded, OwnerPc, NoBlock
<1>2. ASSUME leaked' = {} PROVE SafeInv'
  <2>1. SafeInv /\ held = {}
    BY <1>0, <1>2 DEF IInv
  <2>2. WordsInv' /\ CountInv' /\ BlockInv'
    BY <1>0, <2>1 DEF SafeInv, WordsInv, CountInv, BlockInv, NoBlock, InWait
  <2>3. \A u \in Thread : pc[u] \notin {"releaseBlock", "releaseSignal"}
    BY <2>1 DEF SafeInv, ClientInv
  <2>4. (\A u \in Thread : ClientInv(u)') /\ OneSignal'
    BY <1>0, <2>3 DEF ClientInv, OneSignal
  <2>. QED  BY <2>2, <2>4 DEF SafeInv
<1>. QED  BY <1>1, <1>2 DEF IInv

LEMMA SweptKeepsIInv == ASSUME IInv, Swept PROVE IInv'
<1>1. CASE total = 0
  BY <1>1, WaitReturnsKeepsIInv DEF Swept
<1>2. CASE total # 0
  <2>0. /\ ownerPc = "swept" /\ ownerPc' = "add"
        /\ waitBlock' = [waitBlock EXCEPT !.ready = TRUE, !.signaled = FALSE]
        /\ waitBlock \in [count : Int, ready : BOOLEAN, signaled : BOOLEAN, live : BOOLEAN]
        /\ UNCHANGED <<runRefs, held, pc, refs, current, total, leaked>>
    BY <1>2 DEF Swept, clientVars, IInv, TypeOK
  <2>1. TypeOK' /\ Bounded'
    BY <2>0 DEF IInv, TypeOK, Bounded, OwnerPc
  <2>2. /\ waitBlock'.count = waitBlock.count /\ waitBlock'.live = waitBlock.live
        /\ waitBlock'.signaled = FALSE /\ waitBlock'.ready = TRUE
    BY <2>0
  <2>3. ASSUME leaked' = {} PROVE SafeInv'
    <3>1. SafeInv
      BY <2>0, <2>3 DEF IInv
    <3>2. WordsInv' /\ CountInv' /\ BlockInv'
      BY <2>0, <2>2, <3>1
         DEF SafeInv, WordsInv, CountInv, BlockInv, Unswept, Above, Below, InWait
    <3>3. (\A u \in Thread : ClientInv(u)') /\ OneSignal'
      BY <2>0, <3>1 DEF SafeInv, ClientInv, OneSignal, InWait
    <3>. QED  BY <3>2, <3>3 DEF SafeInv
  <2>. QED  BY <2>1, <2>3 DEF IInv
<1>. QED  BY <1>1, <1>2

\* Behind the sweep the words count nothing any more.
LEMMA AllSwept ==
    ASSUME SafeInv, ownerPc \in {"swept", "add"}
    PROVE  Unswept = 0 /\ Cardinality(held) = 0 + total + waitBlock.count
<1>1. \A c \in Processor : runRefs[c].count = 0
  BY DEF SafeInv, WordsInv
<1>2. Unswept = 0
  BY <1>1, NothingUnswept
<1>. QED  BY <1>2 DEF SafeInv, CountInv

LEMMA AddKeepsIInv == ASSUME IInv, Add PROVE IInv'
<1>. PICK test \in Tests :
          \/ /\ HaveToWait(test, waitBlock.count)
             /\ waitBlock' = [waitBlock EXCEPT !.count = @ + total]
             /\ ownerPc' = "waiting"
             /\ UNCHANGED leaked
          \/ /\ ~HaveToWait(test, waitBlock.count)
             /\ WaitReturns
  BY DEF Add
<1>1. CASE ~HaveToWait(test, waitBlock.count)
  BY <1>1, WaitReturnsKeepsIInv DEF Add
<1>2. CASE HaveToWait(test, waitBlock.count)
  <2>0. /\ ownerPc = "add" /\ ownerPc' = "waiting"
        /\ waitBlock' = [waitBlock EXCEPT !.count = @ + total] /\ total \in Int
        /\ waitBlock \in [count : Int, ready : BOOLEAN, signaled : BOOLEAN, live : BOOLEAN]
        /\ UNCHANGED <<runRefs, held, pc, refs, current, total, leaked>>
    BY <1>2 DEF Add, clientVars, IInv, TypeOK
  <2>1. TypeOK' /\ Bounded'
    BY <2>0 DEF IInv, TypeOK, Bounded, OwnerPc
  <2>2. /\ waitBlock'.count = waitBlock.count + total /\ waitBlock'.live = waitBlock.live
        /\ waitBlock'.signaled = waitBlock.signaled /\ waitBlock'.ready = waitBlock.ready
        /\ waitBlock.count \in Int
    BY <2>0
  <2>3. ASSUME leaked' = {} PROVE SafeInv'
    <3>1. SafeInv
      BY <2>0, <2>3 DEF IInv
    <3>2. Cardinality(held) = total + waitBlock.count
      BY <2>0, <2>2, <3>1, AllSwept
    <3>3. WordsInv' /\ CountInv'
      BY <2>0, <2>2, <3>1, <3>2 DEF SafeInv, WordsInv, CountInv, InWait
    <3>4. BlockInv'
      BY <2>0, <2>2, <3>1 DEF SafeInv, BlockInv, InWait
    <3>5. (\A u \in Thread : ClientInv(u)') /\ OneSignal'
      BY <2>0, <3>1 DEF SafeInv, ClientInv, OneSignal, InWait
    <3>. QED  BY <3>3, <3>4, <3>5 DEF SafeInv
  <2>. QED  BY <2>1, <2>3 DEF IInv
<1>. QED  BY <1>1, <1>2

LEMMA WakeKeepsIInv == ASSUME IInv, Wake PROVE IInv'
BY WaitReturnsKeepsIInv DEF Wake

\* One of the two loops over the words begins.
LEMMA SetAllKeepsIInv ==
    ASSUME IInv, NEW loop \in {"completing", "reinit"}, SetAll(loop) PROVE IInv'
<1>0. /\ ownerPc = "returned" /\ ownerPc' = loop /\ current' = 0
      /\ UNCHANGED <<runRefs, held, pc, refs, total, waitBlock, leaked>>
  BY DEF SetAll, clientVars
<1>1. TypeOK' /\ Bounded'
  BY <1>0, NumberAssumption DEF IInv, TypeOK, Bounded, OwnerPc, Processor
<1>2. ASSUME leaked' = {} PROVE SafeInv'
  <2>1. SafeInv
    BY <1>0, <1>2 DEF IInv
  <2>2. WordsInv'
    BY <1>0, <2>1 DEF SafeInv, WordsInv, Processor
  <2>3. CountInv' /\ BlockInv'
    BY <1>0, <2>1 DEF SafeInv, CountInv, BlockInv, InWait
  <2>4. (\A u \in Thread : ClientInv(u)') /\ OneSignal'
    BY <1>0, <2>1 DEF SafeInv, ClientInv, OneSignal, InWait
  <2>. QED  BY <2>2, <2>3, <2>4 DEF SafeInv
<1>. QED  BY <1>1, <1>2 DEF IInv

LEMMA SetOneKeepsIInv ==
    ASSUME IInv, NEW loop, NEW word, NEW after, SetOne(loop, word, after),
           \/ loop = "completing" /\ word = Active /\ after = "returned"
           \/ loop = "reinit" /\ word = Counted(0) /\ after = "live"
    PROVE  IInv'
<1>0. /\ ownerPc = loop /\ current \in Processor /\ current' = current + 1
      /\ runRefs' = [runRefs EXCEPT ![current] = word]
      /\ ownerPc' = IF current + 1 = Number THEN after ELSE loop
      /\ UNCHANGED <<held, pc, refs, total, waitBlock, leaked>>
      /\ runRefs \in [Processor -> Word] /\ total \in Int /\ waitBlock.count \in Int
  BY DEF SetOne, LastWord, clientVars, IInv, TypeOK
<1>1. /\ runRefs'[current].count = 0 /\ runRefs'[current].active = word.active
      /\ word.active <=> loop = "completing"
      /\ word \in Word
      /\ \A d \in Processor \ {current} : runRefs'[d] = runRefs[d]
  <2>1. word.count = 0 /\ word \in Word /\ (word.active <=> loop = "completing")
    <3>1. CASE loop = "completing" /\ word = Active
      BY <3>1 DEF Active, Word
    <3>2. CASE loop = "reinit" /\ word = Counted(0)
      BY <3>2 DEF Counted, Word
    <3>. QED  BY <3>1, <3>2
  <2>. QED  BY <1>0, <2>1
<1>2. TypeOK'
  <2>1. runRefs' \in [Processor -> Word]
    BY <1>0, <1>1
  <2>2. /\ current' \in 0 .. Number /\ ownerPc' \in OwnerPc
        /\ (ownerPc' \in {"sweep", "completing", "reinit"} => current' \in Processor)
    BY <1>0, NumberAssumption DEF Processor, OwnerPc
  <2>. QED  BY <1>0, <2>1, <2>2 DEF IInv, TypeOK
<1>3. Bounded'
  BY <1>0, <1>1, MaxSkewAssumption DEF IInv, Bounded
<1>4. ASSUME leaked' = {} PROVE SafeInv'
  <2>1. SafeInv /\ held = {}
    BY <1>0, <1>4 DEF IInv, SafeInv, CountInv, InWait
  <2>2. WordsInv'
    BY <1>0, <1>1, <2>1, NumberAssumption DEF SafeInv, WordsInv, Processor
  <2>3. Unswept' = 0
    <3>1. \A c \in Processor : runRefs[c].count = 0
      BY <1>0, <2>1 DEF SafeInv, WordsInv
    <3>2. Unswept = 0
      BY <3>1, NothingUnswept
    <3>3. Unswept' = Unswept - runRefs[current].count + runRefs'[current].count
      BY <1>0, <1>1, <1>3, UnsweptChange DEF IInv
    <3>. QED  BY <1>0, <1>1, <3>1, <3>2, <3>3
  <2>4. CountInv'
    BY <1>0, <2>1, <2>3, FS_EmptySet DEF CountInv, InWait
  <2>5. BlockInv'
    BY <1>0, <2>1 DEF SafeInv, BlockInv, InWait
  <2>6. (\A u \in Thread : ClientInv(u)') /\ OneSignal'
    BY <1>0, <2>1 DEF SafeInv, ClientInv, OneSignal, InWait
  <2>. QED  BY <2>2, <2>4, <2>5, <2>6 DEF SafeInv
<1>. QED  BY <1>2, <1>3, <1>4 DEF IInv

-----------------------------------------------------------------------------
(* The theorems *)

LEMMA NextKeepsIInv == ASSUME IInv, [Next]_vars PROVE IInv'
<1>1. CASE UNCHANGED vars
  <2>1. TypeOK' /\ Bounded' /\ leaked' = leaked
    BY <1>1 DEF vars, IInv, TypeOK, Bounded
  <2>2. SafeInv => SafeInv'
    BY <1>1 DEF vars, SafeInv, WordsInv, CountInv, BlockInv, ClientInv, OneSignal,
                Unswept, Above, Below
  <2>. QED  BY <2>1, <2>2 DEF IInv
<1>2. ASSUME NEW t \in Thread, ClientStep(t) PROVE IInv'
  BY <1>2, AcquireKeepsIInv, ReleaseKeepsIInv, ReleaseBlockKeepsIInv,
     ReleaseSignalKeepsIInv DEF ClientStep
<1>3. CASE RundownCompleted \/ ReInitialize
  BY <1>3, SetAllKeepsIInv, SetOneKeepsIInv DEF RundownCompleted, ReInitialize
<1>4. CASE OwnerStep
  BY <1>3, <1>4, WaitKeepsIInv, SweepKeepsIInv, SweptKeepsIInv, AddKeepsIInv, WakeKeepsIInv
     DEF OwnerStep
<1>. QED  BY <1>1, <1>2, <1>4 DEF Next

\* The inductive invariant holds in every reachable state.
THEOREM Invariance == Spec => []IInv
<1>1. Init => IInv
  BY InitIInv
<1>2. IInv /\ [Next]_vars => IInv'
  BY NextKeepsIInv
<1>. QED  BY <1>1, <1>2, PTL DEF Spec

\* Every variable keeps its type; the owner's loops stay within the words.
THEOREM TypeCorrect == Spec => []TypeOK
<1>1. IInv => TypeOK
  BY DEF IInv
<1>. QED  BY <1>1, Invariance, PTL

\* The words of all processors, TotalCount and the wait block's count add up to
\* the references that are out, and the ASSERT on TotalCount holds.
THEOREM ReferencesCounted == Spec => []Accounting
<1>1. IInv => Accounting
  <2>. SUFFICES ASSUME IInv, leaked = {} PROVE
         /\ ownerPc = "live" => Cardinality(held) = Unswept
         /\ ownerPc \in {"sweep", "swept", "add"} =>
               Cardinality(held) = Unswept + total + waitBlock.count
         /\ ownerPc = "waiting" => Cardinality(held) = waitBlock.count
         /\ ownerPc = "swept" => total >= 0
    BY DEF Accounting
  <2>1. SafeInv
    BY DEF IInv
  <2>2. Cardinality(held) \in Nat /\ total \in Int /\ waitBlock.count \in Int
    BY FiniteReferences DEF IInv, TypeOK
  <2>3. ownerPc = "swept" => total >= 0
    BY <2>1, <2>2, AllSwept DEF SafeInv, BlockInv
  <2>. QED  BY <2>1, <2>3 DEF SafeInv, CountInv
<1>. QED  BY <1>1, Invariance, PTL

\* Nobody signals the wait block's event before the owner has initialised it,
\* although clients reach the block from the first word of the sweep on.
THEOREM SignalAfterInitialization == Spec => []NoEarlySignal
<1>1. IInv => NoEarlySignal
  BY DEF IInv, SafeInv, ClientInv, BlockInv, NoEarlySignal
<1>. QED  BY <1>1, Invariance, PTL

\* A sweep that counted nothing found every reference given back: none is out,
\* and no client is inside the wait block that goes with the stack frame.
THEOREM EmptySweepIsSafe == Spec => []SweptEmpty
<1>1. IInv => SweptEmpty
  <2>. SUFFICES ASSUME IInv, leaked = {}, ownerPc = "swept", total = 0
                PROVE  held = {} /\ \A t \in Thread : pc[t] = "idle"
    BY DEF SweptEmpty
  <2>1. SafeInv /\ held \in SUBSET Reference /\ waitBlock.count \in Int
    BY DEF IInv, TypeOK
  <2>2. Cardinality(held) = waitBlock.count /\ waitBlock.count <= 0
    BY <2>1, AllSwept DEF SafeInv, BlockInv
  <2>3. held = {}
    BY <2>1, <2>2, FiniteReferences
  <2>4. \A t \in Thread : pc[t] \notin {"releaseBlock", "releaseSignal"}
    BY <2>1, <2>3 DEF SafeInv, ClientInv
  <2>. QED  BY <2>3, <2>4 DEF IInv, TypeOK
<1>. QED  BY <1>1, Invariance, PTL
=============================================================================
