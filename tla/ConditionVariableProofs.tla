---------------------- MODULE ConditionVariableProofs ----------------------
(***************************************************************************)
(* Condition variables and keyed events are correct for any set of         *)
(* threads, sleepers, wakers and timeouts.                                 *)
(***************************************************************************)
EXTENDS ConditionVariable, FiniteSetTheorems, TLAPS

\* Nothing is on the list twice.
Once(s) == \A i, j \in 1 .. Len(s) : s[i] = s[j] => i = j

\* Keyed events: who is on which list, and when.
KeyedInv ==
    /\ \A s \in Side : Once(lists[s])
    /\ ToSet(lists["wait"]) \cap ToSet(lists["release"]) = {}
    /\ \A s \in Side : \A u \in ToSet(lists[s]) : kpc[u] \in {"waiting", "failed"}
    /\ \A u \in ToSet(lists["wait"]), v \in ToSet(lists["release"]) : key[u] # key[v]
    /\ \A t \in Thread : kpc[t] = "waiting" =>
          ((\E s \in Side : t \in ToSet(lists[s])) <=> ~semaphore[t])

\* Whoever is at one of these places has the lock bit.
Holding == {"inserted", "unlinkSelf", "unlockSelf", "release", "releasing",
            "unlinkWake", "unlockWake"}

LockInv == /\ \A t, u \in Thread : pc[t] \in Holding /\ pc[u] \in Holding => t = u
           /\ locked <=> \E t \in Thread : pc[t] \in Holding

\* The list, and what a thread has been told of its entry.
ListInv == /\ Once(list)
           /\ ToSet(list) \subseteq Alive
           /\ \A t \in Alive : t \in ToSet(list) <=> ~handled[t]
           /\ \A t \in Thread : /\ pc[t] = "insert" => ~handled[t]
                                /\ pc[t] = "unlockSelf" => handled[t]

\* What the owner of the lock bit has in its hands.
WalkInv == \A t \in Thread :
    /\ pc[t] = "release" => entry[t] \in ToSet(list)
    /\ pc[t] = "releasing" =>
          \E i \in 1 .. Len(list) : /\ entry[t] = list[i]
                                    /\ next[t] = IF i = 1 THEN Null ELSE list[i - 1]
    /\ next[t] # Null => pc[t] = "releasing"
    /\ drop[t] # Null => pc[t] \in {"unlinkSelf", "unlinkWake"} /\ drop[t] \in ToSet(list)
    /\ pc[t] = "unlinkSelf" => drop[t] = IF handled[t] THEN Null ELSE t

CondInv == LockInv /\ ListInv /\ WalkInv

IInv == TypeOK /\ KeyedInv /\ CondInv

-----------------------------------------------------------------------------
(* Sequences without repetitions *)

LEMMA ToSetDef ==
    ASSUME NEW S, NEW s \in Seq(S)
    PROVE  /\ ToSet(s) \subseteq S /\ Len(s) \in Nat
           /\ \A e : e \in ToSet(s) <=> \E i \in 1 .. Len(s) : s[i] = e
BY DEF ToSet

LEMMA AppendFacts ==
    ASSUME NEW S, NEW s \in Seq(S), NEW e \in S, Once(s), e \notin ToSet(s)
    PROVE  /\ Append(s, e) \in Seq(S) /\ Once(Append(s, e))
           /\ ToSet(Append(s, e)) = ToSet(s) \cup {e}
<1> DEFINE r == Append(s, e)
<1>1. /\ r \in Seq(S) /\ Len(r) = Len(s) + 1 /\ Len(s) \in Nat
      /\ r[Len(s) + 1] = e /\ \A i \in 1 .. Len(s) : r[i] = s[i]
  OBVIOUS
<1>2. 1 .. Len(r) = (1 .. Len(s)) \cup {Len(s) + 1}
  BY <1>1
<1>3. /\ \A x : x \in ToSet(s) <=> \E i \in 1 .. Len(s) : s[i] = x
      /\ \A x : x \in ToSet(r) <=> \E i \in 1 .. Len(r) : r[i] = x
  BY <1>1, ToSetDef
<1> HIDE DEF r
<1>4. Once(r)
  BY <1>1, <1>2, <1>3 DEF Once
<1>5. \A x : x \in ToSet(r) <=> x \in ToSet(s) \/ x = e
  BY <1>1, <1>2, <1>3
<1>. QED  BY <1>1, <1>4, <1>5 DEF r

LEMMA ConsFacts ==
    ASSUME NEW S, NEW s \in Seq(S), NEW e \in S, Once(s), e \notin ToSet(s)
    PROVE  /\ <<e>> \o s \in Seq(S) /\ Once(<<e>> \o s)
           /\ ToSet(<<e>> \o s) = ToSet(s) \cup {e}
<1> DEFINE r == <<e>> \o s
<1>1. /\ r \in Seq(S) /\ Len(r) = Len(s) + 1 /\ Len(s) \in Nat
      /\ r[1] = e /\ \A i \in 2 .. Len(r) : r[i] = s[i - 1]
  OBVIOUS
<1>3. /\ \A x : x \in ToSet(s) <=> \E i \in 1 .. Len(s) : s[i] = x
      /\ \A x : x \in ToSet(r) <=> \E i \in 1 .. Len(r) : r[i] = x
  BY <1>1, ToSetDef
<1> HIDE DEF r
<1>2. \A i \in 1 .. Len(r) : i = 1 \/ (i \in 2 .. Len(r) /\ i - 1 \in 1 .. Len(s))
  BY <1>1
<1>4. Once(r)
  <2>. SUFFICES ASSUME NEW i \in 1 .. Len(r), NEW j \in 1 .. Len(r), r[i] = r[j]
                PROVE  i = j
    BY DEF Once
  <2>. QED  BY <1>1, <1>2, <1>3 DEF Once
<1>5. ASSUME NEW x PROVE x \in ToSet(r) <=> x \in ToSet(s) \/ x = e
  <2>1. ASSUME x \in ToSet(r) PROVE x \in ToSet(s) \/ x = e
    BY <1>1, <1>2, <1>3, <2>1
  <2>2. ASSUME x \in ToSet(s) PROVE x \in ToSet(r)
    <3>1. PICK i \in 1 .. Len(s) : s[i] = x
      BY <1>3, <2>2
    <3>2. i + 1 \in 2 .. Len(r) /\ (i + 1) - 1 = i
      BY <1>1
    <3>3. r[i + 1] = s[(i + 1) - 1]
      BY <1>1, <3>2
    <3>4. i + 1 \in 1 .. Len(r)
      BY <1>1
    <3>. QED  BY <1>3, <3>1, <3>2, <3>3, <3>4
  <2>3. e \in ToSet(r)
    BY <1>1, <1>3
  <2>. QED  BY <2>1, <2>2, <2>3
<1>. QED  BY <1>1, <1>4, <1>5 DEF r

LEMMA RemoveAtFacts ==
    ASSUME NEW S, NEW s \in Seq(S), NEW k \in 1 .. Len(s), Once(s)
    PROVE  /\ RemoveAt(s, k) \in Seq(S) /\ Once(RemoveAt(s, k))
           /\ ToSet(RemoveAt(s, k)) = ToSet(s) \ {s[k]}
<1> DEFINE n == Len(s)
           a == SubSeq(s, 1, k - 1)
           b == SubSeq(s, k + 1, n)
           r == RemoveAt(s, k)
<1>1. n \in Nat /\ k \in Int /\ 1 <= k /\ k <= n
  OBVIOUS
<1>2. a \in Seq(S) /\ Len(a) = k - 1 /\ \A i \in 1 .. (k - 1) : a[i] = s[i]
  BY <1>1
<1>3. b \in Seq(S) /\ Len(b) = n - k /\ \A i \in 1 .. (n - k) : b[i] = s[i + k]
  BY <1>1
<1>4. r = a \o b
  BY DEF RemoveAt
<1> HIDE DEF a, b, r
<1>5. r \in Seq(S) /\ Len(r) = n - 1
  <2>1. PICK x \in Seq(S), y \in Seq(S) : x = a /\ y = b
    BY <1>2, <1>3
  <2>2. x \o y \in Seq(S) /\ Len(x \o y) = Len(x) + Len(y)
    OBVIOUS
  <2>. QED  BY <1>1, <1>2, <1>3, <1>4, <2>1, <2>2
<1>6. ASSUME NEW i \in 1 .. (n - 1) PROVE r[i] = IF i < k THEN s[i] ELSE s[i + 1]
  <2>1. CASE i < k
    <3>1. r[i] = a[i]
      BY <1>1, <1>2, <1>3, <1>4, <2>1
    <3>. QED  BY <1>1, <1>2, <2>1, <3>1
  <2>2. CASE i >= k
    <3>1. r[i] = b[i - (k - 1)]
      BY <1>1, <1>2, <1>3, <1>4, <2>2
    <3>2. i - (k - 1) \in 1 .. (n - k) /\ (i - (k - 1)) + k = i + 1
      BY <1>1, <2>2
    <3>3. b[i - (k - 1)] = s[(i - (k - 1)) + k]
      BY <1>3, <3>2
    <3>. QED  BY <1>1, <2>2, <3>1, <3>2, <3>3
  <2>. QED  BY <1>1, <2>1, <2>2
<1>7. /\ \A x : x \in ToSet(s) <=> \E i \in 1 .. n : s[i] = x
      /\ \A x : x \in ToSet(r) <=> \E i \in 1 .. Len(r) : r[i] = x
  BY <1>5, ToSetDef
<1>8. \A i, j \in 1 .. n : s[i] = s[j] => i = j
  BY DEF Once
<1> HIDE DEF n
<1>9. Once(r)
  BY <1>1, <1>5, <1>6, <1>8, SMTT(30) DEF Once
<1>10. ASSUME NEW x PROVE x \in ToSet(r) <=> x \in ToSet(s) \ {s[k]}
  <2>1. ASSUME x \in ToSet(r) PROVE x \in ToSet(s) /\ x # s[k]
    <3>1. PICK i \in 1 .. (n - 1) : r[i] = x
      BY <1>5, <1>7, <2>1
    <3>2. CASE i < k
      <4>1. i \in 1 .. n /\ k \in 1 .. n /\ s[i] = x /\ i # k
        BY <1>1, <1>6, <3>1, <3>2
      <4>. QED  BY <1>7, <1>8, <4>1
    <3>3. CASE i >= k
      <4>1. i + 1 \in 1 .. n /\ k \in 1 .. n /\ s[i + 1] = x /\ i + 1 # k
        BY <1>1, <1>6, <3>1, <3>3
      <4>. QED  BY <1>7, <1>8, <4>1
    <3>. QED  BY <1>1, <3>2, <3>3
  <2>2. ASSUME x \in ToSet(s), x # s[k] PROVE x \in ToSet(r)
    <3>1. PICK i \in 1 .. n : s[i] = x
      BY <1>7, <2>2
    <3>2. CASE i < k
      <4>1. i \in 1 .. (n - 1) /\ r[i] = x
        BY <1>1, <1>6, <3>1, <3>2
      <4>. QED  BY <1>5, <1>7, <4>1
    <3>3. CASE i > k
      <4>1. i - 1 \in 1 .. (n - 1) /\ r[i - 1] = x
        BY <1>1, <1>6, <3>1, <3>3
      <4>. QED  BY <1>5, <1>7, <4>1
    <3>. QED  BY <1>1, <2>2, <3>1, <3>2, <3>3
  <2>. QED  BY <2>1, <2>2
<1>. QED  BY <1>5, <1>9, <1>10 DEF r

\* Taking a value off a list, whether it is there or not.
LEMMA RemoveFirstFacts ==
    ASSUME NEW S, NEW s \in Seq(S), NEW e, Once(s)
    PROVE  /\ RemoveFirst(s, e) \in Seq(S) /\ Once(RemoveFirst(s, e))
           /\ ToSet(RemoveFirst(s, e)) = ToSet(s) \ {e}
<1>1. CASE e \notin ToSet(s)
  <2>1. ~\E i \in 1 .. Len(s) : s[i] = e
    BY <1>1, ToSetDef
  <2>2. RemoveFirst(s, e) = s
    BY <2>1 DEF RemoveFirst
  <2>. QED  BY <1>1, <2>2
<1>2. CASE e \in ToSet(s)
  <2>1. PICK k \in 1 .. Len(s) : s[k] = e
    BY <1>2, ToSetDef
  <2>2. {i \in 1 .. Len(s) : s[i] = e} = {k}
    BY <2>1 DEF Once
  <2>3. Min({k}) = k
    BY DEF Min
  <2>4. RemoveFirst(s, e) = RemoveAt(s, k)
    BY <2>1, <2>2, <2>3 DEF RemoveFirst, SelectInSeq
  <2>. QED  BY <2>1, <2>4, RemoveAtFacts
<1>. QED  BY <1>1, <1>2

-----------------------------------------------------------------------------
(* Keyed events *)

\* A thread that is not in a wait is on no list.
LEMMA OffLists ==
    ASSUME KeyedTypeOK, KeyedInv, NEW t \in Thread, kpc[t] \in {"out", "done"}
    PROVE  \A s \in Side : t \notin ToSet(lists[s])
BY DEF KeyedInv

\* The oldest partner is taken off its list and woken.
LEMMA MeetKeepsKeyedInv ==
    ASSUME KeyedTypeOK, KeyedInv, NEW t \in Thread, NEW side \in Side, NEW k \in Key,
           kpc[t] = "out", Meet(t, side, k)
    PROVE  KeyedTypeOK' /\ KeyedInv'
<1> DEFINE o == Other(side)
           l == lists[o]
<1>1. o \in Side /\ l \in Seq(Thread)
  BY DEF KeyedTypeOK, Side, Other
<1>2. PICK i \in DOMAIN l : /\ lists' = [lists EXCEPT ![o] = RemoveAt(l, i)]
                            /\ semaphore' = [semaphore EXCEPT ![l[i]] = TRUE]
                            /\ kpc' = [kpc EXCEPT ![t] = "done"]
                            /\ status' = [status EXCEPT ![t] = "success"]
                            /\ UNCHANGED <<key, timeout>>
  BY DEF Meet, Partners
<1> DEFINE u == l[i]
           r == RemoveAt(l, i)
<1>3. i \in 1 .. Len(l) /\ u \in Thread /\ u \in ToSet(l)
  BY <1>1, <1>2 DEF ToSet
<1>4. r \in Seq(Thread) /\ Once(r) /\ ToSet(r) = ToSet(l) \ {u}
  <2>1. Once(l)
    BY <1>1 DEF KeyedInv
  <2>. QED  BY <1>1, <1>3, <2>1, RemoveAtFacts
<1>5. u # t
  BY <1>1, <1>3, OffLists
<1> HIDE DEF o, l, u, r
<1>6. lists' = [lists EXCEPT ![o] = r] /\ semaphore' = [semaphore EXCEPT ![u] = TRUE]
  BY <1>2 DEF r, l, u
<1>7. KeyedTypeOK'
  BY <1>1, <1>2, <1>3, <1>4, <1>6 DEF KeyedTypeOK
<1>8. \A s \in Side : /\ Once(lists'[s])
                      /\ ToSet(lists'[s]) = ToSet(lists[s]) \ {u}
  <2>1. \A s \in Side : s # o => u \notin ToSet(lists[s])
    BY <1>1, <1>3 DEF KeyedInv, Side, l
  <2>2. \A s \in Side : s # o => lists'[s] = lists[s]
    BY <1>6 DEF KeyedTypeOK
  <2>3. lists'[o] = r
    BY <1>1, <1>6 DEF KeyedTypeOK
  <2>. QED  BY <1>1, <1>4, <2>1, <2>2, <2>3 DEF KeyedInv, l
<1>9. KeyedInv'
  <2>1. \A x \in Thread : x # t => kpc'[x] = kpc[x]
    BY <1>2 DEF KeyedTypeOK
  <2>2. \A s \in Side : ToSet(lists[s]) \subseteq Thread
    BY ToSetDef DEF KeyedTypeOK
  <2>3. \A s \in Side : \A x \in ToSet(lists'[s]) : kpc'[x] \in {"waiting", "failed"}
    BY <1>8, <2>1, <2>2, OffLists DEF KeyedInv
  <2>4. ASSUME NEW x \in Thread, kpc'[x] = "waiting"
        PROVE  (\E s \in Side : x \in ToSet(lists'[s])) <=> ~semaphore'[x]
    <3>1. x # t /\ kpc[x] = "waiting"
      BY <1>2, <2>4 DEF KeyedTypeOK
    <3>2. CASE x = u
      BY <1>3, <1>6, <1>8, <3>2 DEF KeyedTypeOK
    <3>3. CASE x # u
      <4>1. semaphore'[x] = semaphore[x]
        BY <1>6, <3>3 DEF KeyedTypeOK
      <4>. QED  BY <1>8, <3>1, <3>3, <4>1 DEF KeyedInv
    <3>. QED  BY <3>2, <3>3
  <2>5. /\ ToSet(lists'["wait"]) \cap ToSet(lists'["release"]) = {}
        /\ \A x \in ToSet(lists'["wait"]), y \in ToSet(lists'["release"]) : key'[x] # key'[y]
    BY <1>2, <1>8 DEF KeyedInv, Side
  <2>. QED  BY <1>8, <2>3, <2>4, <2>5 DEF KeyedInv
<1>. QED  BY <1>7, <1>9

\* There is no partner: the thread joins its list.
LEMMA JoinKeepsKeyedInv ==
    ASSUME KeyedTypeOK, KeyedInv, NEW t \in Thread, NEW side \in Side, NEW k \in Key,
           NEW time \in {"none", "zero", "some"}, kpc[t] = "out", Join(t, side, k, time)
    PROVE  KeyedTypeOK' /\ KeyedInv'
<1> DEFINE l == lists[side]
           r == Append(l, t)
<1>1. l \in Seq(Thread) /\ Once(l) /\ t \notin ToSet(l)
  BY OffLists DEF KeyedTypeOK, KeyedInv
<1>2. r \in Seq(Thread) /\ Once(r) /\ ToSet(r) = ToSet(l) \cup {t}
  BY <1>1, AppendFacts
<1>3. /\ lists' = [lists EXCEPT ![side] = r] /\ lists \in [Side -> Seq(Thread)]
      /\ key' = [key EXCEPT ![t] = k] /\ semaphore' = [semaphore EXCEPT ![t] = FALSE]
      /\ timeout' = [timeout EXCEPT ![t] = time] /\ kpc' = [kpc EXCEPT ![t] = "waiting"]
      /\ status' = status
  BY DEF Join, KeyedTypeOK
<1>4. \A v \in ToSet(lists[Other(side)]) : key[v] # k
  <2>1. lists[Other(side)] \in Seq(Thread)
    BY DEF KeyedTypeOK, Side, Other
  <2>. QED  BY <2>1 DEF Join, Partners, ToSet
<1>5. \A s \in Side : ToSet(lists[s]) \subseteq Thread /\ t \notin ToSet(lists[s])
  BY ToSetDef, OffLists DEF KeyedTypeOK
<1> HIDE DEF r
<1>6. KeyedTypeOK'
  BY <1>2, <1>3 DEF KeyedTypeOK
<1>7. \A s \in Side : /\ Once(lists'[s])
                      /\ ToSet(lists'[s]) = ToSet(lists[s]) \cup (IF s = side THEN {t} ELSE {})
  BY <1>2, <1>3 DEF KeyedInv
<1>8. KeyedInv'
  <2>1. \A x \in Thread : x # t => /\ kpc'[x] = kpc[x] /\ semaphore'[x] = semaphore[x]
                                   /\ key'[x] = key[x]
    BY <1>3 DEF KeyedTypeOK
  <2>2. kpc'[t] = "waiting" /\ semaphore'[t] = FALSE /\ key'[t] = k
    BY <1>3 DEF KeyedTypeOK
  <2>3. \A s \in Side : \A x \in ToSet(lists'[s]) : kpc'[x] \in {"waiting", "failed"}
    BY <1>5, <1>7, <2>1, <2>2 DEF KeyedInv
  <2>4. \A x \in Thread : kpc'[x] = "waiting" =>
           ((\E s \in Side : x \in ToSet(lists'[s])) <=> ~semaphore'[x])
    BY <1>5, <1>7, <2>1, <2>2 DEF KeyedInv
  <2>5. ToSet(lists'["wait"]) \cap ToSet(lists'["release"]) = {}
    BY <1>5, <1>7 DEF KeyedInv, Side
  <2>6. \A x \in ToSet(lists'["wait"]), y \in ToSet(lists'["release"]) : key'[x] # key'[y]
    BY <1>4, <1>5, <1>7, <2>1, <2>2 DEF KeyedInv, Side, Other
  <2>. QED  BY <1>7, <2>3, <2>4, <2>5, <2>6 DEF KeyedInv
<1>. QED  BY <1>6, <1>8

\* The wait ends, one way or the other, and the clean-up.
LEMMA KeyedStepKeepsKeyedInv ==
    ASSUME KeyedTypeOK, KeyedInv, NEW t \in Thread, KeyedStep(t)
    PROVE  KeyedTypeOK' /\ KeyedInv'
<1>0. \A s \in Side : lists[s] \in Seq(Thread) /\ ToSet(lists[s]) \subseteq Thread
  BY ToSetDef DEF KeyedTypeOK
<1>1. CASE WaitSucceeds(t)
  <2>1. KeyedTypeOK'
    BY <1>1 DEF WaitSucceeds, KeyedTypeOK
  <2>2. \A s \in Side : t \notin ToSet(lists[s])
    BY <1>1 DEF WaitSucceeds, KeyedInv
  <2>3. \A x \in Thread : x # t => /\ kpc'[x] = kpc[x] /\ semaphore'[x] = semaphore[x]
                                   /\ key'[x] = key[x]
    BY <1>1 DEF WaitSucceeds, KeyedTypeOK
  <2>4. lists' = lists /\ kpc'[t] = "done"
    BY <1>1 DEF WaitSucceeds, KeyedTypeOK
  <2>5. \A x \in ToSet(lists["wait"]), y \in ToSet(lists["release"]) : key'[x] # key'[y]
    BY <1>0, <2>2, <2>3 DEF KeyedInv, Side
  <2>6. KeyedInv'
    BY <1>0, <2>2, <2>3, <2>4, <2>5 DEF KeyedInv
  <2>. QED  BY <2>1, <2>6
<1>2. CASE WaitTimesOut(t)
  <2>1. KeyedTypeOK'
    BY <1>2 DEF WaitTimesOut, KeyedTypeOK
  <2>2. KeyedInv'
    BY <1>0, <1>2 DEF WaitTimesOut, KeyedInv, KeyedTypeOK
  <2>. QED  BY <2>1, <2>2
<1>3. CASE CleanUp(t)
  <2>0. \A s \in Side : lists'[s] = RemoveFirst(lists[s], t)
    BY <1>3 DEF CleanUp
  <2>1. ASSUME NEW s \in Side
        PROVE  /\ lists'[s] \in Seq(Thread) /\ Once(lists'[s])
               /\ ToSet(lists'[s]) = ToSet(lists[s]) \ {t}
    BY <1>0, <2>0, RemoveFirstFacts DEF KeyedInv
  <2>2. KeyedTypeOK'
    <3>1. lists' \in [Side -> Seq(Thread)]
      BY <1>3, <2>1 DEF CleanUp
    <3>. QED  BY <1>3, <3>1 DEF CleanUp, KeyedTypeOK
  <2>3. /\ \A x \in Thread : x # t => kpc'[x] = kpc[x] /\ key'[x] = key[x]
        /\ semaphore' = semaphore /\ kpc'[t] = "done"
    BY <1>3 DEF CleanUp, KeyedTypeOK
  <2>4. \A s \in Side : \A x \in ToSet(lists'[s]) : kpc'[x] \in {"waiting", "failed"}
    BY <1>0, <2>1, <2>3 DEF KeyedInv
  <2>5. \A x \in Thread : kpc'[x] = "waiting" =>
           ((\E s \in Side : x \in ToSet(lists'[s])) <=> ~semaphore'[x])
    BY <1>0, <2>1, <2>3 DEF KeyedInv
  <2>6. /\ ToSet(lists'["wait"]) \cap ToSet(lists'["release"]) = {}
        /\ \A x \in ToSet(lists'["wait"]), y \in ToSet(lists'["release"]) : key'[x] # key'[y]
    BY <1>0, <2>1, <2>3 DEF KeyedInv, Side
  <2>7. KeyedInv'
    BY <2>1, <2>4, <2>5, <2>6 DEF KeyedInv
  <2>. QED  BY <2>2, <2>7
<1>. QED  BY <1>1, <1>2, <1>3 DEF KeyedStep

LEMMA EnterKeepsKeyedInv ==
    ASSUME KeyedTypeOK, KeyedInv, NEW t \in Thread, NEW side \in Side, NEW k \in Key,
           NEW time \in {"none", "zero", "some"}, EnterKeyedEvent(t, side, k, time)
    PROVE  KeyedTypeOK' /\ KeyedInv'
BY MeetKeepsKeyedInv, JoinKeepsKeyedInv DEF EnterKeyedEvent

LEMMA LeaveKeepsKeyedInv ==
    ASSUME KeyedTypeOK, KeyedInv, NEW t \in Thread, LeaveKeyedEvent(t)
    PROVE  KeyedTypeOK' /\ KeyedInv'
<1>0. \A s \in Side : ToSet(lists[s]) \subseteq Thread
  BY ToSetDef DEF KeyedTypeOK
<1>1. KeyedTypeOK'
  BY DEF LeaveKeyedEvent, KeyedTypeOK
<1>2. /\ \A x \in Thread : x # t => kpc'[x] = kpc[x]
      /\ kpc[t] = "done" /\ kpc'[t] = "out" /\ UNCHANGED <<lists, key, semaphore>>
  BY DEF LeaveKeyedEvent, KeyedTypeOK
<1>3. KeyedInv'
  BY <1>0, <1>2, OffLists DEF KeyedInv
<1>. QED  BY <1>1, <1>3

-----------------------------------------------------------------------------
(* The condition variable *)

LEMMA ListIsThreads ==
    ASSUME TypeOK
    PROVE  /\ ToSet(list) \subseteq Thread /\ Len(list) \in Nat
           /\ \A e : e \in ToSet(list) <=> \E i \in 1 .. Len(list) : list[i] = e
BY ToSetDef DEF TypeOK

\* Steps that leave the list, its lock bit, the flags and the walks alone, and
\* do not bring the thread to or from a place where they matter.
LEMMA AsideKeepsCondInv ==
    ASSUME TypeOK, CondInv, NEW t \in Thread,
           NEW p \in {"idle", "dropLock", "enter", "asleep", "lockSelf", "reacquire", "lockWake"},
           pc' = [pc EXCEPT ![t] = p], pc[t] \notin Holding,
           t \in Alive' <=> t \in Alive,
           UNCHANGED <<locked, list, handled, entry, next, drop>>
    PROVE  CondInv'
<1>0. pc \in [Thread -> {"idle"} \cup SleepPc \cup WakePc]
  BY DEF TypeOK
<1>1. LockInv'
  BY <1>0 DEF CondInv, LockInv, Holding
<1>2. Alive' = Alive
  BY <1>0 DEF Alive
<1>3. ListInv'
  BY <1>0, <1>2 DEF CondInv, ListInv, Holding
<1>4. WalkInv'
  BY <1>0 DEF CondInv, WalkInv, Holding
<1>. QED  BY <1>1, <1>3, <1>4 DEF CondInv

\* The caller's lock, and the keyed event, are another matter.
LEMMA ElsewhereKeepsCondInv ==
    ASSUME CondInv, UNCHANGED <<pc, locked, list, handled, entry, next, drop>>
    PROVE  CondInv'
BY DEF CondInv, LockInv, ListInv, WalkInv, Alive

LEMMA SleepKeepsIInv ==
    ASSUME IInv, NEW t \in Thread, Sleep(t)
    PROVE  IInv'
<1>0. /\ pc \in [Thread -> {"idle"} \cup SleepPc \cup WakePc] /\ pc[t] = "idle"
      /\ pc' = [pc EXCEPT ![t] = "insert"] /\ handled' = [handled EXCEPT ![t] = FALSE]
      /\ handled \in [Thread -> BOOLEAN]
      /\ UNCHANGED <<kvars, locked, list, holders, releaseAll, entry, next, drop>>
  BY DEF IInv, TypeOK, Sleep, Goto
<1>1. TypeOK'
  BY <1>0 DEF IInv, TypeOK, KeyedTypeOK, kvars, Sleep, SleepPc
<1>2. KeyedInv'
  BY <1>0 DEF IInv, KeyedInv, kvars
<1>3. LockInv'
  BY <1>0 DEF IInv, CondInv, LockInv, Holding
<1>4. Alive' = Alive /\ t \notin Alive
  BY <1>0 DEF Alive
<1>5. ListInv'
  BY <1>0, <1>4 DEF IInv, CondInv, ListInv
<1>6. WalkInv'
  BY <1>0 DEF IInv, CondInv, WalkInv
<1>. QED  BY <1>1, <1>2, <1>3, <1>5, <1>6 DEF IInv, CondInv

\* Nobody has the lock bit while it is clear.
LEMMA Unlocked ==
    ASSUME IInv, ~locked, NEW t \in Thread
    PROVE  pc[t] \notin Holding /\ next[t] = Null /\ drop[t] = Null
BY DEF IInv, CondInv, LockInv, WalkInv, Holding

\* The entry becomes the head of the list.
LEMMA InsertKeepsIInv ==
    ASSUME IInv, NEW t \in Thread, Insert(t)
    PROVE  IInv'
<1>0. /\ pc \in [Thread -> {"idle"} \cup SleepPc \cup WakePc] /\ pc[t] = "insert"
      /\ ~locked /\ locked' = TRUE /\ list' = <<t>> \o list /\ list \in Seq(Thread)
      /\ pc' = [pc EXCEPT ![t] = "inserted"]
      /\ UNCHANGED <<kvars, handled, lvars>>
  BY DEF IInv, TypeOK, Insert, Goto
<1>1. Alive' = Alive \cup {t} /\ t \notin Alive
  BY <1>0 DEF Alive
<1>2. list' \in Seq(Thread) /\ Once(list') /\ ToSet(list') = ToSet(list) \cup {t}
  BY <1>0, <1>1, ConsFacts DEF IInv, CondInv, ListInv
<1>3. TypeOK'
  BY <1>0, <1>2 DEF IInv, TypeOK, KeyedTypeOK, kvars, lvars, SleepPc
<1>4. KeyedInv'
  BY <1>0 DEF IInv, KeyedInv, kvars
<1>5. LockInv'
  BY <1>0, Unlocked DEF LockInv, Holding
<1>6. ListInv'
  BY <1>0, <1>1, <1>2 DEF IInv, CondInv, ListInv
<1>7. WalkInv'
  BY <1>0, Unlocked DEF WalkInv, Holding, lvars
<1>. QED  BY <1>3, <1>4, <1>5, <1>6, <1>7 DEF IInv, CondInv

\* The lock bit is given up.
LEMMA UnlockKeepsIInv ==
    ASSUME IInv, NEW t \in Thread, Inserted(t) \/ UnlockSelf(t) \/ UnlockWake(t)
    PROVE  IInv'
<1>0. /\ pc \in [Thread -> {"idle"} \cup SleepPc \cup WakePc]
      /\ pc[t] \in {"inserted", "unlockSelf", "unlockWake"}
      /\ pc' = [pc EXCEPT ![t] = CASE pc[t] = "inserted" -> "dropLock"
                                   [] pc[t] = "unlockSelf" -> "reacquire"
                                   [] pc[t] = "unlockWake" -> "idle"]
      /\ locked' = FALSE
      /\ UNCHANGED <<kvars, list, handled, holders, timed, entry, next, drop>>
  BY DEF IInv, TypeOK, Inserted, UnlockSelf, UnlockWake, Unlock, Goto, lvars
<1>1. TypeOK'
  BY <1>0 DEF IInv, TypeOK, KeyedTypeOK, kvars, lvars, SleepPc, Inserted, UnlockSelf, UnlockWake, Unlock
<1>2. KeyedInv'
  BY <1>0 DEF IInv, KeyedInv, kvars
<1>3. LockInv'
  BY <1>0 DEF IInv, CondInv, LockInv, Holding
<1>4. Alive' = IF pc[t] = "unlockSelf" THEN Alive \ {t} ELSE Alive
  BY <1>0 DEF Alive
<1>5. pc[t] = "unlockSelf" => t \notin ToSet(list)
  BY DEF IInv, CondInv, ListInv, Alive
<1>6. ListInv'
  BY <1>0, <1>4, <1>5 DEF IInv, CondInv, ListInv
<1>7. WalkInv'
  BY <1>0 DEF IInv, CondInv, WalkInv
<1>. QED  BY <1>1, <1>2, <1>3, <1>6, <1>7 DEF IInv, CondInv

LEMMA SmallStepsKeepIInv ==
    ASSUME IInv, NEW t \in Thread, DropLock(t) \/ (\E all \in BOOLEAN : Wake(t, all))
    PROVE  IInv'
<1>0. /\ pc \in [Thread -> {"idle"} \cup SleepPc \cup WakePc]
      /\ UNCHANGED <<kvars, cvars, timed, entry, next, drop>>
      /\ pc[t] \notin Holding
      /\ \E p \in {"enter", "lockWake"} : pc' = [pc EXCEPT ![t] = p] /\ (t \in Alive <=> p = "enter")
  BY DEF IInv, TypeOK, DropLock, Wake, Goto, Holding, Alive
<1>1. TypeOK'
  <2>0. /\ KeyedTypeOK' /\ locked' \in BOOLEAN /\ list' \in Seq(Thread)
        /\ handled' \in [Thread -> BOOLEAN]
        /\ pc' \in [Thread -> {"idle"} \cup SleepPc \cup WakePc]
    BY <1>0 DEF IInv, TypeOK, KeyedTypeOK, kvars, cvars, SleepPc, WakePc
  <2>1. holders' \subseteq Thread /\ releaseAll' \in [Thread -> BOOLEAN]
    BY DEF IInv, TypeOK, DropLock, Wake
  <2>. QED  BY <1>0, <2>0, <2>1 DEF IInv, TypeOK
<1>2. KeyedInv'
  BY <1>0 DEF IInv, KeyedInv, kvars
<1>3. CondInv'
  <2>1. PICK p \in {"enter", "lockWake"} : pc' = [pc EXCEPT ![t] = p] /\ (t \in Alive <=> p = "enter")
    BY <1>0
  <2>2. t \in Alive' <=> t \in Alive
    BY <1>0, <2>1 DEF Alive
  <2>. QED  BY <1>0, <2>1, <2>2, AsideKeepsCondInv DEF IInv, cvars
<1>. QED  BY <1>1, <1>2, <1>3 DEF IInv

\* The sleeper enters its wait.
LEMMA EnterWaitKeepsIInv ==
    ASSUME IInv, NEW t \in Thread, EnterWait(t)
    PROVE  IInv'
<1>0. /\ pc \in [Thread -> {"idle"} \cup SleepPc \cup WakePc] /\ pc[t] = "enter"
      /\ pc' = [pc EXCEPT ![t] = "asleep"] /\ t \in Key
      /\ UNCHANGED <<cvars, lvars>>
  BY KeyAssumption DEF IInv, TypeOK, EnterWait, Goto
<1>1. KeyedTypeOK' /\ KeyedInv'
  <2>1. PICK time \in {"none", "some"} : EnterKeyedEvent(t, "wait", t, time)
    BY DEF EnterWait
  <2>2. "wait" \in Side /\ time \in {"none", "zero", "some"}
    BY DEF Side
  <2>. QED  BY <1>0, <2>1, <2>2, EnterKeepsKeyedInv DEF IInv, TypeOK
<1>2. TypeOK'
  BY <1>0, <1>1 DEF IInv, TypeOK, cvars, lvars, SleepPc
<1>3. CondInv'
  <2>1. t \in Alive' /\ t \in Alive /\ pc[t] \notin Holding
    BY <1>0 DEF Alive, Holding
  <2>. QED  BY <1>0, <2>1, AsideKeepsCondInv DEF IInv, cvars, lvars
<1>. QED  BY <1>1, <1>2, <1>3 DEF IInv

\* It returns, and leaves at once only if its entry has been removed.
LEMMA WakeUpKeepsIInv ==
    ASSUME IInv, NEW t \in Thread, WakeUp(t)
    PROVE  IInv'
<1>0. /\ pc \in [Thread -> {"idle"} \cup SleepPc \cup WakePc] /\ pc[t] = "asleep"
      /\ pc' = [pc EXCEPT ![t] = IF handled[t] THEN "reacquire" ELSE "lockSelf"]
      /\ UNCHANGED <<cvars, lvars>>
  BY DEF IInv, TypeOK, WakeUp, Goto
<1>1. KeyedTypeOK' /\ KeyedInv'
  BY LeaveKeepsKeyedInv DEF IInv, TypeOK, WakeUp
<1>2. TypeOK'
  BY <1>0, <1>1 DEF IInv, TypeOK, cvars, lvars, SleepPc
<1>3. LockInv'
  BY <1>0 DEF IInv, CondInv, LockInv, Holding, cvars
<1>4. /\ Alive' = IF handled[t] THEN Alive \ {t} ELSE Alive
      /\ handled[t] => t \notin ToSet(list)
  BY <1>0 DEF Alive, IInv, CondInv, ListInv
<1>5. ListInv'
  BY <1>0, <1>4 DEF IInv, CondInv, ListInv, cvars
<1>6. WalkInv'
  BY <1>0 DEF IInv, CondInv, WalkInv, cvars, lvars
<1>. QED  BY <1>1, <1>2, <1>3, <1>5, <1>6 DEF IInv, CondInv

\* It takes the lock bit to remove its entry itself, unless that is done.
LEMMA LockSelfKeepsIInv ==
    ASSUME IInv, NEW t \in Thread, LockSelf(t)
    PROVE  IInv'
<1>0. /\ pc \in [Thread -> {"idle"} \cup SleepPc \cup WakePc] /\ pc[t] = "lockSelf"
      /\ drop \in [Thread -> Thread \cup {Null}] /\ t \in Alive
      /\ Null \notin Thread
      /\ UNCHANGED <<kvars, list, handled, holders, timed, releaseAll, entry, next>>
  BY NullAssumption DEF IInv, TypeOK, LockSelf, Alive
<1>1. KeyedInv'
  BY <1>0 DEF IInv, KeyedInv, kvars
<1>2. CASE ~locked /\ list # << >>
  <2>1. /\ locked' = TRUE /\ drop' = [drop EXCEPT ![t] = IF handled[t] THEN Null ELSE t]
        /\ pc' = [pc EXCEPT ![t] = "unlinkSelf"]
    BY <1>2 DEF LockSelf, Goto
  <2>2. TypeOK'
    BY <1>0, <2>1 DEF IInv, TypeOK, KeyedTypeOK, kvars, SleepPc
  <2>3. LockInv'
    BY <1>0, <1>2, <2>1, Unlocked DEF LockInv, Holding
  <2>4. Alive' = Alive
    BY <1>0, <2>1 DEF Alive
  <2>5. ListInv'
    BY <1>0, <2>1, <2>4 DEF IInv, CondInv, ListInv
  <2>6. ~handled[t] => t \in ToSet(list)
    BY <1>0 DEF IInv, CondInv, ListInv
  <2>7. WalkInv'
    BY <1>0, <1>2, <2>1, <2>6, Unlocked DEF WalkInv, Holding
  <2>. QED  BY <1>1, <2>2, <2>3, <2>5, <2>7 DEF IInv, CondInv
<1>3. CASE ~(~locked /\ list # << >>)
  <2>1. /\ UNCHANGED <<locked, drop>> /\ pc' = [pc EXCEPT ![t] = "reacquire"]
        /\ t \notin ToSet(list)
    BY <1>0, <1>3 DEF LockSelf, Goto, IInv, CondInv, ListInv, ToSet
  <2>2. TypeOK'
    BY <1>0, <2>1 DEF IInv, TypeOK, KeyedTypeOK, kvars, SleepPc
  <2>3. LockInv'
    BY <1>0, <2>1 DEF IInv, CondInv, LockInv, Holding
  <2>4. Alive' = Alive \ {t}
    BY <1>0, <2>1 DEF Alive
  <2>5. ListInv'
    BY <1>0, <2>1, <2>4 DEF IInv, CondInv, ListInv
  <2>6. WalkInv'
    BY <1>0, <2>1 DEF IInv, CondInv, WalkInv
  <2>. QED  BY <1>1, <2>2, <2>3, <2>5, <2>6 DEF IInv, CondInv
<1>. QED  BY <1>2, <1>3

\* The owner of the lock bit removes the entry it has put aside.
LEMMA UnlinkKeepsIInv ==
    ASSUME IInv, NEW t \in Thread, UnlinkSelf(t) \/ UnlinkWake(t)
    PROVE  IInv'
<1> DEFINE d == drop[t]
<1>0. /\ pc \in [Thread -> {"idle"} \cup SleepPc \cup WakePc]
      /\ pc[t] \in {"unlinkSelf", "unlinkWake"}
      /\ pc' = [pc EXCEPT ![t] = IF pc[t] = "unlinkSelf" THEN "unlockSelf" ELSE "unlockWake"]
      /\ drop \in [Thread -> Thread \cup {Null}] /\ list \in Seq(Thread)
      /\ handled \in [Thread -> BOOLEAN] /\ Null \notin Thread
      /\ list' = RemoveFirst(list, d)
      /\ handled' = IF d = Null THEN handled ELSE [handled EXCEPT ![d] = TRUE]
      /\ drop' = [drop EXCEPT ![t] = Null]
      /\ UNCHANGED <<kvars, locked, holders, timed, releaseAll, entry, next>>
  BY NullAssumption DEF IInv, TypeOK, UnlinkSelf, UnlinkWake, Unlink, Goto
<1>1. list' \in Seq(Thread) /\ Once(list') /\ ToSet(list') = ToSet(list) \ {d}
  BY <1>0, RemoveFirstFacts DEF IInv, CondInv, ListInv
<1>2. d \in Thread \cup {Null} /\ (d # Null => d \in ToSet(list) /\ d \in Alive)
  BY <1>0 DEF IInv, CondInv, WalkInv, ListInv
<1>3. TypeOK'
  BY <1>0, <1>1, <1>2 DEF IInv, TypeOK, KeyedTypeOK, kvars, SleepPc, WakePc
<1>4. KeyedInv'
  BY <1>0 DEF IInv, KeyedInv, kvars
<1>5. LockInv'
  BY <1>0 DEF IInv, CondInv, LockInv, Holding
<1>6. Alive' = Alive /\ Alive \subseteq Thread
  BY <1>0 DEF Alive
<1>7. \A u \in Thread \ {t} : pc'[u] = pc[u] /\ pc[u] \notin Holding /\ next[u] = Null /\ drop[u] = Null
  BY <1>0 DEF IInv, CondInv, LockInv, WalkInv, Holding
<1>8. ListInv'
  <2>1. \A u \in Thread : handled'[u] <=> handled[u] \/ u = d
    BY <1>0, <1>2
  <2>2. \A u \in Alive' : u \in ToSet(list') <=> ~handled'[u]
    BY <1>1, <1>6, <2>1 DEF IInv, CondInv, ListInv
  <2>3. pc'[t] = "unlockSelf" => handled'[t]
    BY <1>0, <2>1 DEF IInv, CondInv, WalkInv
  <2>4. ASSUME NEW u \in Thread, pc'[u] = "insert" PROVE ~handled'[u]
    <3>1. pc[u] = "insert" /\ u \notin Alive
      BY <1>0, <2>4 DEF Alive
    <3>. QED  BY <1>0, <1>2, <2>1, <3>1 DEF IInv, CondInv, ListInv
  <2>5. \A u \in Thread : pc'[u] = "unlockSelf" => handled'[u]
    BY <1>7, <2>3 DEF Holding
  <2>. QED  BY <1>1, <1>6, <2>2, <2>4, <2>5 DEF IInv, CondInv, ListInv
<1>9. WalkInv'
  <2>1. next[t] = Null /\ pc'[t] \notin {"release", "releasing", "unlinkSelf", "unlinkWake"}
    BY <1>0 DEF IInv, CondInv, WalkInv
  <2>. QED  BY <1>0, <1>7, <2>1 DEF WalkInv, Holding
<1>. QED  BY <1>3, <1>4, <1>5, <1>8, <1>9 DEF IInv, CondInv

LEMMA ReacquireKeepsIInv ==
    ASSUME IInv, NEW t \in Thread, Reacquire(t)
    PROVE  IInv'
<1>0. /\ pc \in [Thread -> {"idle"} \cup SleepPc \cup WakePc] /\ pc[t] = "reacquire"
      /\ pc' = [pc EXCEPT ![t] = "idle"] /\ handled' = [handled EXCEPT ![t] = FALSE]
      /\ handled \in [Thread -> BOOLEAN]
      /\ UNCHANGED <<kvars, locked, list, releaseAll, entry, next, drop>>
  BY DEF IInv, TypeOK, Reacquire, Goto
<1>1. TypeOK'
  BY <1>0 DEF IInv, TypeOK, KeyedTypeOK, kvars, Reacquire
<1>2. KeyedInv'
  BY <1>0 DEF IInv, KeyedInv, kvars
<1>3. LockInv'
  BY <1>0 DEF IInv, CondInv, LockInv, Holding
<1>4. Alive' = Alive /\ t \notin Alive
  BY <1>0 DEF Alive
<1>5. ListInv'
  BY <1>0, <1>4 DEF IInv, CondInv, ListInv
<1>6. WalkInv'
  BY <1>0 DEF IInv, CondInv, WalkInv
<1>. QED  BY <1>1, <1>2, <1>3, <1>5, <1>6 DEF IInv, CondInv

\* The waker takes the lock bit and begins with the oldest entry.
LEMMA LockWakeKeepsIInv ==
    ASSUME IInv, NEW t \in Thread, LockWake(t)
    PROVE  IInv'
<1>0. /\ pc \in [Thread -> {"idle"} \cup SleepPc \cup WakePc] /\ pc[t] = "lockWake"
      /\ ~locked /\ list \in Seq(Thread)
      /\ UNCHANGED <<kvars, list, handled, holders, timed, next, drop>>
  BY DEF IInv, TypeOK, LockWake
<1>1. KeyedInv'
  BY <1>0 DEF IInv, KeyedInv, kvars
<1>2. CASE list = << >>
  <2>1. /\ pc' = [pc EXCEPT ![t] = "idle"] /\ UNCHANGED <<locked, entry>>
        /\ releaseAll' = [releaseAll EXCEPT ![t] = FALSE]
    BY <1>2 DEF LockWake, Goto
  <2>2. TypeOK'
    BY <1>0, <2>1 DEF IInv, TypeOK, KeyedTypeOK, kvars
  <2>3. t \notin Alive' /\ t \notin Alive /\ pc[t] \notin Holding
    BY <1>0, <2>1 DEF Alive, Holding
  <2>4. CondInv'
    BY <1>0, <2>1, <2>3, AsideKeepsCondInv DEF IInv
  <2>. QED  BY <1>1, <2>2, <2>4 DEF IInv
<1>3. CASE list # << >>
  <2>1. /\ locked' = TRUE /\ entry' = [entry EXCEPT ![t] = list[Len(list)]]
        /\ pc' = [pc EXCEPT ![t] = "release"] /\ UNCHANGED releaseAll
    BY <1>3 DEF LockWake, Goto, Last
  <2>2. list[Len(list)] \in ToSet(list) /\ list[Len(list)] \in Thread
    BY <1>0, <1>3, ToSetDef
  <2>3. TypeOK'
    BY <1>0, <2>1, <2>2 DEF IInv, TypeOK, KeyedTypeOK, kvars, WakePc
  <2>4. LockInv'
    BY <1>0, <2>1, Unlocked DEF LockInv, Holding
  <2>5. Alive' = Alive
    BY <1>0, <2>1 DEF Alive
  <2>6. ListInv'
    BY <1>0, <2>1, <2>5 DEF IInv, CondInv, ListInv
  <2>7. WalkInv'
    <3>1. entry'[t] = list[Len(list)]
      BY <2>1 DEF IInv, TypeOK
    <3>. QED  BY <1>0, <2>1, <2>2, <3>1, Unlocked DEF WalkInv, Holding
  <2>. QED  BY <1>1, <2>3, <2>4, <2>6, <2>7 DEF IInv, CondInv
<1>. QED  BY <1>2, <1>3

\* Blink of an entry that is on the list once.
LEMMA NextEntryFacts ==
    ASSUME TypeOK, Once(list), NEW i \in 1 .. Len(list)
    PROVE  NextEntry(list[i]) = IF i = 1 THEN Null ELSE list[i - 1]
<1>1. DOMAIN list = 1 .. Len(list)
  BY DEF TypeOK
<1> DEFINE c == CHOOSE k \in DOMAIN list : list[k] = list[i]
<1>2. c \in DOMAIN list /\ list[c] = list[i]
  BY <1>1
<1>3. NextEntry(list[i]) = IF c = 1 THEN Null ELSE list[c - 1]
  BY DEF NextEntry
<1> HIDE DEF c
<1>4. c = i
  BY <1>1, <1>2 DEF Once
<1>. QED  BY <1>3, <1>4

\* The waker stores the next entry away and enters the keyed event.
LEMMA ReleaseKeepsIInv ==
    ASSUME IInv, NEW t \in Thread, Release(t)
    PROVE  IInv'
<1>0. /\ pc \in [Thread -> {"idle"} \cup SleepPc \cup WakePc] /\ pc[t] = "release"
      /\ pc' = [pc EXCEPT ![t] = "releasing"] /\ next \in [Thread -> Thread \cup {Null}]
      /\ next' = [next EXCEPT ![t] = NextEntry(entry[t])]
      /\ UNCHANGED <<cvars, holders, timed, releaseAll, entry, drop>>
  BY DEF IInv, TypeOK, Release, Goto
<1>1. PICK i \in 1 .. Len(list) : list[i] = entry[t]
  BY <1>0, ListIsThreads DEF IInv, CondInv, WalkInv
<1>2. NextEntry(entry[t]) = IF i = 1 THEN Null ELSE list[i - 1]
  BY <1>1, NextEntryFacts DEF IInv, CondInv, ListInv
<1>3. /\ list[i] \in Thread /\ (i # 1 => list[i - 1] \in Thread)
  BY <1>1 DEF IInv, TypeOK
<1>4. KeyedTypeOK' /\ KeyedInv'
  <2>1. EnterKeyedEvent(t, "release", entry[t], "zero") /\ entry[t] \in Key /\ "release" \in Side
    BY <1>1, <1>3, KeyAssumption DEF Release, Side
  <2>. QED  BY <2>1, EnterKeepsKeyedInv DEF IInv, TypeOK
<1>5. TypeOK'
  BY <1>0, <1>2, <1>3, <1>4 DEF IInv, TypeOK, cvars, WakePc
<1>6. LockInv'
  BY <1>0 DEF IInv, CondInv, LockInv, Holding, cvars
<1>7. Alive' = Alive
  BY <1>0 DEF Alive
<1>8. ListInv'
  BY <1>0, <1>7 DEF IInv, CondInv, ListInv, cvars
<1>9. WalkInv'
  <2>1. /\ entry'[t] = list'[i] /\ list' = list
        /\ next'[t] = IF i = 1 THEN Null ELSE list'[i - 1]
    BY <1>0, <1>1, <1>2 DEF cvars
  <2>. QED  BY <1>0, <2>1 DEF IInv, CondInv, WalkInv, cvars
<1>. QED  BY <1>4, <1>5, <1>6, <1>8, <1>9 DEF IInv, CondInv

\* The entry is removed, at once or, if it is the head, with the unlocking.
LEMMA ReleasedKeepsIInv ==
    ASSUME IInv, NEW t \in Thread, Released(t)
    PROVE  IInv'
<1> DEFINE e == entry[t]
           n == next[t]
           stop == n = Null \/ ~releaseAll[t]
<1>0. /\ pc \in [Thread -> {"idle"} \cup SleepPc \cup WakePc] /\ pc[t] = "releasing"
      /\ next \in [Thread -> Thread \cup {Null}] /\ entry \in [Thread -> Thread \cup {Null}]
      /\ drop \in [Thread -> Thread \cup {Null}]
      /\ list \in Seq(Thread) /\ handled \in [Thread -> BOOLEAN] /\ Null \notin Thread
      /\ NT_SUCCESS(status[t]) /\ drop[t] = Null
  BY NullAssumption, SMTT(30) DEF IInv, TypeOK, KeyedTypeOK, Released, NT_SUCCESS,
                        CondInv, WalkInv
<1>1. PICK i \in 1 .. Len(list) : e = list[i] /\ n = IF i = 1 THEN Null ELSE list[i - 1]
  BY <1>0 DEF IInv, CondInv, WalkInv
<1>2. /\ e \in Thread /\ e \in ToSet(list) /\ Head(list) = list[1]
      /\ e = Head(list) <=> i = 1
      /\ n # Null => n \in Thread /\ n \in ToSet(list) /\ n # e
      /\ n = Null <=> i = 1
  <2>1. Len(list) \in Nat /\ Once(list)
    BY <1>0 DEF IInv, CondInv, ListInv
  <2>2. e \in Thread /\ e \in ToSet(list) /\ Head(list) = list[1] /\ 1 \in 1 .. Len(list)
    BY <1>0, <1>1, <2>1, ToSetDef
  <2>3. e = Head(list) <=> i = 1
    BY <1>1, <2>1, <2>2 DEF Once
  <2>4. i # 1 => i - 1 \in 1 .. Len(list) /\ i - 1 # i
    BY <1>1, <2>1
  <2>5. i # 1 => list[i - 1] \in Thread /\ list[i - 1] \in ToSet(list) /\ list[i - 1] # e
    BY <1>0, <1>1, <2>1, <2>4, ToSetDef DEF Once
  <2>. QED  BY <1>0, <1>1, <2>2, <2>3, <2>5
<1>3. /\ drop' = IF i = 1 THEN [drop EXCEPT ![t] = e] ELSE drop
      /\ list' = IF i # 1 THEN RemoveFirst(list, e) ELSE list
      /\ handled' = IF i # 1 THEN [handled EXCEPT ![e] = TRUE] ELSE handled
      /\ entry' = [entry EXCEPT ![t] = IF stop THEN Null ELSE n]
      /\ next' = [next EXCEPT ![t] = Null]
      /\ pc' = [pc EXCEPT ![t] = IF stop THEN "unlinkWake" ELSE "release"]
      /\ UNCHANGED <<locked, holders, timed, releaseAll>>
  BY <1>0, <1>2 DEF Released, Goto
<1>4. KeyedTypeOK' /\ KeyedInv'
  BY LeaveKeepsKeyedInv DEF IInv, TypeOK, Released
<1>5. /\ list' \in Seq(Thread) /\ Once(list')
      /\ ToSet(list') = IF i # 1 THEN ToSet(list) \ {e} ELSE ToSet(list)
  <2>1. Once(list)
    BY DEF IInv, CondInv, ListInv
  <2>2. CASE i = 1
    BY <1>0, <1>3, <2>1, <2>2
  <2>3. CASE i # 1
    <3>1. list' = RemoveFirst(list, e)
      BY <1>3, <2>3
    <3>. QED  BY <1>0, <2>1, <2>3, <3>1, RemoveFirstFacts
  <2>. QED  BY <2>2, <2>3
<1> HIDE DEF e, n, stop
<1>6. TypeOK'
  <2>2. ~stop => n \in Thread
    BY <1>2 DEF stop
  <2>3. pc' \in [Thread -> {"idle"} \cup SleepPc \cup WakePc]
    BY <1>0, <1>3 DEF WakePc
  <2>4. /\ drop' \in [Thread -> Thread \cup {Null}] /\ handled' \in [Thread -> BOOLEAN]
        /\ entry' \in [Thread -> Thread \cup {Null}] /\ next' \in [Thread -> Thread \cup {Null}]
    BY <1>0, <1>2, <1>3, <2>2
  <2>. QED  BY <1>3, <1>4, <1>5, <2>3, <2>4 DEF IInv, TypeOK
<1>7. LockInv'
  BY <1>0, <1>3 DEF IInv, CondInv, LockInv, Holding
<1>8. Alive' = Alive /\ Alive \subseteq Thread
  BY <1>0, <1>3 DEF Alive
<1>9. \A u \in Thread \ {t} : /\ pc'[u] = pc[u] /\ pc[u] \notin Holding
                              /\ next'[u] = Null /\ drop'[u] = Null
  BY <1>0, <1>3 DEF IInv, CondInv, LockInv, WalkInv, Holding
<1>10. ListInv'
  <2>1. \A u \in Thread : handled'[u] <=> handled[u] \/ (i # 1 /\ u = e)
    BY <1>0, <1>2, <1>3
  <2>2. \A u \in Alive' : u \in ToSet(list') <=> ~handled'[u]
    BY <1>5, <1>8, <2>1 DEF IInv, CondInv, ListInv
  <2>3. e \in Alive
    BY <1>2 DEF IInv, CondInv, ListInv
  <2>4. ASSUME NEW u \in Thread, pc'[u] = "insert" PROVE ~handled'[u]
    <3>1. pc[u] = "insert" /\ u \notin Alive
      BY <1>0, <1>3, <2>4 DEF Alive
    <3>. QED  BY <2>1, <2>3, <3>1 DEF IInv, CondInv, ListInv
  <2>5. \A u \in Thread : pc'[u] = "unlockSelf" => handled'[u]
    BY <1>0, <1>3, <1>9 DEF Holding
  <2>6. ToSet(list') \subseteq Alive'
    BY <1>5, <1>8 DEF IInv, CondInv, ListInv
  <2>. QED  BY <1>5, <2>2, <2>4, <2>5, <2>6 DEF ListInv
<1>11. WalkInv'
  <2>1. /\ next'[t] = Null
        /\ pc'[t] = IF stop THEN "unlinkWake" ELSE "release"
        /\ entry'[t] = IF stop THEN Null ELSE n
        /\ drop'[t] = IF i = 1 THEN e ELSE Null
    BY <1>0, <1>3
  <2>2. drop'[t] # Null => pc'[t] = "unlinkWake" /\ drop'[t] \in ToSet(list')
    BY <1>2, <1>5, <2>1 DEF stop
  <2>3. pc'[t] = "release" => entry'[t] \in ToSet(list')
    BY <1>2, <1>5, <2>1 DEF stop
  <2>. QED  BY <1>9, <2>1, <2>2, <2>3 DEF WalkInv, Holding
<1>. QED  BY <1>4, <1>6, <1>7, <1>10, <1>11 DEF IInv, CondInv

\* Steps elsewhere.
LEMMA ElsewhereKeepsIInv ==
    ASSUME IInv, NEW t \in Thread,
           AcquireCallerLock(t) \/ ReleaseCallerLock(t) \/ InKeyedEvent(t)
    PROVE  IInv'
<1>1. CASE AcquireCallerLock(t) \/ ReleaseCallerLock(t)
  <2>1. TypeOK'
    BY <1>1 DEF IInv, TypeOK, KeyedTypeOK, kvars, cvars, AcquireCallerLock, ReleaseCallerLock
  <2>2. KeyedInv'
    BY <1>1 DEF IInv, KeyedInv, kvars, AcquireCallerLock, ReleaseCallerLock
  <2>3. CondInv'
    BY <1>1, ElsewhereKeepsCondInv DEF IInv, cvars, AcquireCallerLock, ReleaseCallerLock
  <2>. QED  BY <2>1, <2>2, <2>3 DEF IInv
<1>2. CASE InKeyedEvent(t)
  <2>1. KeyedTypeOK' /\ KeyedInv'
    BY <1>2, KeyedStepKeepsKeyedInv DEF IInv, TypeOK, InKeyedEvent
  <2>2. TypeOK'
    BY <1>2, <2>1 DEF IInv, TypeOK, InKeyedEvent, cvars, lvars
  <2>3. CondInv'
    BY <1>2, ElsewhereKeepsCondInv DEF IInv, cvars, lvars, InKeyedEvent
  <2>. QED  BY <2>1, <2>2, <2>3 DEF IInv
<1>. QED  BY <1>1, <1>2

-----------------------------------------------------------------------------
(* The theorems *)

LEMMA InitIInv == Init => IInv
<1>. SUFFICES ASSUME Init PROVE IInv
  OBVIOUS
<1>. USE DEF Init, KeyedInit
<1>1. TypeOK
  <2>1. list \in Seq(Thread) /\ lists \in [Side -> Seq(Thread)]
    BY DEF Side
  <2>. QED  BY <2>1 DEF TypeOK, KeyedTypeOK, SleepPc, WakePc
<1>2. \A s \in Side : lists[s] = << >>
  BY DEF Side
<1>3. ToSet(<< >>) = {} /\ Once(<< >>)
  BY DEF ToSet, Once
<1>4. KeyedInv
  BY <1>2, <1>3 DEF KeyedInv, Side
<1>5. CondInv
  BY <1>3 DEF CondInv, LockInv, ListInv, WalkInv, Alive, Holding
<1>. QED  BY <1>1, <1>4, <1>5 DEF IInv

LEMMA NextIInv == IInv /\ [Next]_vars => IInv'
<1>. SUFFICES ASSUME IInv, [Next]_vars PROVE IInv'
  OBVIOUS
<1>1. CASE UNCHANGED vars
  <2>1. TypeOK' /\ KeyedInv'
    BY <1>1 DEF IInv, TypeOK, KeyedTypeOK, KeyedInv, vars, kvars, cvars, lvars
  <2>2. CondInv'
    BY <1>1, ElsewhereKeepsCondInv DEF IInv, vars, cvars, lvars
  <2>. QED  BY <2>1, <2>2 DEF IInv
<1>2. ASSUME NEW t \in Thread, Call(t) \/ ReleaseCallerLock(t) \/ InKeyedEvent(t) PROVE IInv'
  BY <1>2, ElsewhereKeepsIInv, SleepKeepsIInv, SmallStepsKeepIInv DEF Call
<1>3. ASSUME NEW t \in Thread, SleepStep(t) PROVE IInv'
  BY <1>3, InsertKeepsIInv, UnlockKeepsIInv, SmallStepsKeepIInv, EnterWaitKeepsIInv,
     WakeUpKeepsIInv, LockSelfKeepsIInv, UnlinkKeepsIInv, ReacquireKeepsIInv
     DEF SleepStep
<1>4. ASSUME NEW t \in Thread, WakeStep(t) PROVE IInv'
  BY <1>4, LockWakeKeepsIInv, ReleaseKeepsIInv, ReleasedKeepsIInv, UnlinkKeepsIInv,
     UnlockKeepsIInv DEF WakeStep
<1>. QED  BY <1>1, <1>2, <1>3, <1>4 DEF Next

\* The invariant holds in every behaviour of the library and the kernel.
THEOREM Invariance == Spec => []IInv
<1>1. Init => IInv  BY InitIInv
<1>2. IInv /\ [Next]_vars => IInv'  BY NextIInv
<1>. QED  BY <1>1, <1>2, PTL DEF Spec

\* Type correctness of the condition variable and the keyed event: a waker never
\* releases NULL as a key, and the list holds threads.
THEOREM TypeCorrect == Spec => []TypeOK
<1>1. IInv => TypeOK  BY DEF IInv
<1>. QED  BY <1>1, Invariance, PTL

\* InternalWake and InternalUnlockCondVar never touch the entry of a thread that
\* has left InternalSleep, whatever timeouts and wake-ups cross.
THEOREM EntriesStayAlive == Spec => []EntriesAlive
<1>1. IInv => EntriesAlive
  <2>. SUFFICES ASSUME IInv PROVE EntriesAlive
    OBVIOUS
  <2>1. ASSUME NEW t \in Thread, next[t] # Null PROVE next[t] \in ToSet(list)
    <3>1. PICK i \in 1 .. Len(list) : next[t] = IF i = 1 THEN Null ELSE list[i - 1]
      BY <2>1 DEF IInv, CondInv, WalkInv
    <3>2. i - 1 \in 1 .. Len(list) /\ next[t] = list[i - 1]
      BY <2>1, <3>1, ListIsThreads DEF IInv
    <3>. QED  BY <3>2, ListIsThreads DEF IInv
  <2>. QED  BY <2>1 DEF EntriesAlive, IInv, CondInv, ListInv, WalkInv
<1>. QED  BY <1>1, Invariance, PTL

\* The lock bit of the variable excludes, and a sleeper's ListRemovalHandled
\* tells exactly whether its entry is still on the list.
THEOREM ListIsExact == Spec => []ListExact
<1>1. IInv => ListExact
  <2>. SUFFICES ASSUME IInv PROVE ListExact
    OBVIOUS
  <2> DEFINE H == {t \in Thread : pc[t] \in Holding}
  <2>1. CASE locked
    <3>1. PICK t \in Thread : pc[t] \in Holding
      BY <2>1 DEF IInv, CondInv, LockInv
    <3>2. H = {t}
      BY <3>1 DEF IInv, CondInv, LockInv
    <3>3. Cardinality(H) = 1
      BY <3>2, FS_Singleton
    <3>. QED  BY <2>1, <3>3 DEF ListExact, Holding, IInv, CondInv, ListInv
  <2>2. CASE ~locked
    <3>1. H = {}
      BY <2>2 DEF IInv, CondInv, LockInv
    <3>2. Cardinality(H) = 0
      BY <3>1, FS_EmptySet
    <3>. QED  BY <2>2, <3>2 DEF ListExact, Holding, IInv, CondInv, ListInv
  <2>. QED  BY <2>1, <2>2
<1>. QED  BY <1>1, Invariance, PTL

\* Waiters and releasers of a key always meet in ExpReleaseOrWaitForKeyedEvent,
\* and a thread taken off a list is signalled, late timeouts included.
THEOREM EveryMeeting == Spec => []Rendezvous
<1>1. IInv => Rendezvous
  <2>. SUFFICES ASSUME IInv PROVE Rendezvous
    OBVIOUS
  <2>1. \A s \in Side : /\ DOMAIN lists[s] = 1 .. Len(lists[s])
                        /\ \A x : x \in ToSet(lists[s]) <=> \E i \in 1 .. Len(lists[s]) : lists[s][i] = x
    BY ToSetDef DEF IInv, TypeOK, KeyedTypeOK
  <2>2. ASSUME NEW s \in Side, NEW i \in DOMAIN lists[s]
        PROVE  /\ kpc[lists[s][i]] \in {"waiting", "failed"}
               /\ Partners(lists[Other(s)], key[lists[s][i]]) = {}
    <3>1. lists[s][i] \in ToSet(lists[s]) /\ Other(s) \in Side
      BY <2>1, <2>2 DEF Side, Other
    <3>2. \A x \in ToSet(lists[Other(s)]) : key[x] # key[lists[s][i]]
      BY <3>1 DEF IInv, KeyedInv, Side, Other
    <3>3. \A j \in DOMAIN lists[Other(s)] : lists[Other(s)][j] \in ToSet(lists[Other(s)])
      BY <2>1, <3>1
    <3>. QED  BY <3>1, <3>2, <3>3 DEF IInv, KeyedInv, Partners
  <2>3. ASSUME NEW t \in Thread, kpc[t] = "waiting"
        PROVE  (\E s \in Side : Contains(lists[s], t)) <=> ~semaphore[t]
    <3>1. \A s \in Side : Contains(lists[s], t) <=> t \in ToSet(lists[s])
      BY <2>1 DEF Contains
    <3>2. (\E s \in Side : t \in ToSet(lists[s])) <=> ~semaphore[t]
      BY <2>3 DEF IInv, KeyedInv
    <3>. QED  BY <3>1, <3>2
  <2>. QED  BY <2>2, <2>3 DEF Rendezvous
<1>. QED  BY <1>1, Invariance, PTL
=============================================================================
