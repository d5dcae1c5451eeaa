------------------------- MODULE HandleTableProofs -------------------------
(***************************************************************************)
(* Handle tables, for any finite set of threads.  In the first part, the   *)
(* lock bits of the entries and the wait blocks of those who wait for      *)
(* them, for any set of entries.  In the second, the free lists, for any   *)
(* number of pages and any size of a page, up to the moment a handle is    *)
(* freed to FirstFree under the eyes of a thread that is about to take it. *)
(***************************************************************************)
EXTENDS HandleEntryLock, HandleTable, FiniteSetTheorems, TLAPS

-----------------------------------------------------------------------------
(* The lock bits: the inductive invariant *)

\* An entry that somebody holds is locked, and one thread holds it, unless it
\* was created over.
HolderInv ==
    /\ \A t \in Thread : epc[t] # "idle" => entry[t] \in Entry
    /\ \A t \in Thread : epc[t] = "holding" /\ entry[t] \notin overwritten
                             => value[entry[t]] = "locked"
    /\ \A t, u \in Thread : /\ epc[t] = "holding" /\ epc[u] = "holding"
                             /\ entry[t] = entry[u] /\ entry[t] \notin overwritten
                               => t = u

\* The blocks that are on the list of the event or of an unblocker: pushed, and
\* not yet passed.  The flag says so until the waiter itself resets it to sleep.
Listed == {u \in Thread :
              /\ blocked[u] /\ epc[u] # "push"
              /\ block[u].wait \/ (epc[u] = "asleep" /\ block[u].event # "signalled")}

\* The unblockers that are at a block.
Unblocking == {t \in Thread : epc[t] \in {"flag", "signal"}}

\* What the state of a block is at each place of its owner.
BlockInv == \A t \in Thread :
    /\ blocked[t] => epc[t] \in {"push", "look", "exchange", "flag", "signal",
                                "initevent", "test", "asleep"}
    /\ epc[t] \in {"push", "look", "initevent", "test", "asleep"} => blocked[t]
    /\ epc[t] = "push" => block[t].wait
    /\ epc[t] = "test" => block[t].event = "clear"
    /\ epc[t] = "asleep" => ~block[t].wait /\ block[t].event \in {"clear", "signalled"}

\* The pointers lead to listed blocks, and no two of them to the same one.
ChainInv ==
    /\ event \in Listed \cup {Null}
    /\ \A u \in Listed : block[u].next \in Listed \cup {Null}
    /\ \A t \in Unblocking : cur[t] \in Listed
    /\ \A u, v \in Listed : block[u].next = block[v].next /\ block[u].next # Null => u = v
    /\ \A u \in Listed : block[u].next = event => event = Null
    /\ \A u \in Listed, t \in Unblocking : block[u].next # cur[t]
    /\ \A t \in Unblocking : cur[t] # event
    /\ \A t, u \in Unblocking : cur[t] = cur[u] => t = u
    /\ \A t \in Thread : epc[t] = "signal" => epc[cur[t]] = "asleep"

EntryInv == EntryTypeOK /\ HolderInv /\ BlockInv /\ ChainInv

-----------------------------------------------------------------------------
(* The initial state, and the steps that neither push nor pass a block *)

LEMMA InitEntryInv == ASSUME EntryInit PROVE EntryInv
<1>1. EntryTypeOK
  BY DEF EntryInit, EntryTypeOK, Block, NoBlock, Pointer, EntryPc
<1>2. Listed = {} /\ Unblocking = {}
  BY DEF EntryInit, Listed, Unblocking
<1>3. HolderInv /\ BlockInv
  BY DEF EntryInit, HolderInv, BlockInv
<1>4. ChainInv
  BY <1>2 DEF EntryInit, ChainInv
<1>. QED  BY <1>1, <1>3, <1>4 DEF EntryInv

\* The chains depend on the listed blocks, the unblockers and the pointers only.
LEMMA ChainKept ==
    ASSUME ChainInv, EntryTypeOK, Listed' = Listed, Unblocking' = Unblocking,
           event' = event, cur' = cur,
           \A u \in Listed : block'[u].next = block[u].next,
           \A u \in Thread : epc[u] = "asleep" => epc'[u] = "asleep",
           \A u \in Thread : epc'[u] = "signal" => epc[u] = "signal"
    PROVE  ChainInv'
<1>1. \A u \in Thread : epc[u] = "signal" => cur[u] \in Thread
  BY DEF ChainInv, Unblocking, Listed
<1>. QED  BY <1>1 DEF ChainInv

LEMMA CallKeepsEntryInv == ASSUME EntryInv, NEW t \in Thread, Call(t) PROVE EntryInv'
<1>0. /\ epc[t] = "idle" /\ epc \in [Thread -> EntryPc] /\ epc' = [epc EXCEPT ![t] = "try"]
      /\ entry'[t] \in Entry /\ \A u \in Thread \ {t} : entry'[u] = entry[u]
      /\ UNCHANGED <<value, event, block, old, cur, blocked, overwritten>>
  BY DEF Call, EntryGoto, EntryInv, EntryTypeOK
<1>1. EntryTypeOK'
  BY DEF EntryInv, EntryTypeOK, Call, EntryGoto, EntryPc
<1>2. HolderInv'
  BY <1>0 DEF EntryInv, HolderInv
<1>3. BlockInv'
  BY <1>0 DEF EntryInv, BlockInv
<1>4. Listed' = Listed /\ Unblocking' = Unblocking
  BY <1>0 DEF Listed, Unblocking
<1>5. ChainInv'
  BY <1>0, <1>4, ChainKept DEF EntryInv
<1>. QED  BY <1>1, <1>2, <1>3, <1>5 DEF EntryInv

LEMMA TryKeepsEntryInv == ASSUME EntryInv, NEW t \in Thread, Try(t) PROVE EntryInv'
<1>0. /\ epc[t] = "try" /\ epc \in [Thread -> EntryPc]
      /\ epc'[t] \in {"idle", "lock", "block"} /\ \A u \in Thread \ {t} : epc'[u] = epc[u]
      /\ epc'[t] # "idle" => entry'[t] = entry[t]
      /\ \A u \in Thread \ {t} : entry'[u] = entry[u]
      /\ UNCHANGED <<value, event, block, old, cur, blocked, overwritten>>
  BY DEF Try, EntryGoto, EntryInv, EntryTypeOK
<1>1. EntryTypeOK'
  BY DEF EntryInv, EntryTypeOK, Try, EntryGoto, EntryPc
<1>2. HolderInv'
  BY <1>0 DEF EntryInv, HolderInv
<1>3. BlockInv'
  BY <1>0 DEF EntryInv, BlockInv
<1>4. Listed' = Listed /\ Unblocking' = Unblocking
  BY <1>0 DEF Listed, Unblocking
<1>5. ChainInv'
  BY <1>0, <1>4, ChainKept DEF EntryInv
<1>. QED  BY <1>1, <1>2, <1>3, <1>5 DEF EntryInv

LEMMA LockKeepsEntryInv == ASSUME EntryInv, NEW t \in Thread, Lock(t) PROVE EntryInv'
<1>0. /\ epc[t] = "lock" /\ epc \in [Thread -> EntryPc] /\ entry[t] \in Entry
      /\ value \in [Entry -> {"free", "locked", "unlocked"}]
      /\ epc'[t] \in {"holding", "block"} /\ \A u \in Thread \ {t} : epc'[u] = epc[u]
      /\ UNCHANGED <<event, block, entry, old, cur, blocked, overwritten>>
  BY DEF Lock, EntryGoto, EntryInv, EntryTypeOK, HolderInv
<1>1. EntryTypeOK'
  BY <1>0 DEF EntryInv, EntryTypeOK, Lock, EntryGoto, EntryPc
<1>2. HolderInv'
  <2>1. CASE epc'[t] = "holding"
    <3>1. value[entry[t]] = "unlocked" /\ value' = [value EXCEPT ![entry[t]] = "locked"]
      BY <2>1, <1>0 DEF Lock, EntryGoto, AsRead
    <3>. QED  BY <1>0, <3>1 DEF EntryInv, HolderInv
  <2>2. CASE epc'[t] = "block"
    <3>1. value' = value
      BY <2>2, <1>0 DEF Lock, EntryGoto
    <3>. QED  BY <1>0, <2>2, <3>1 DEF EntryInv, HolderInv
  <2>. QED  BY <2>1, <2>2, <1>0
<1>3. BlockInv'
  BY <1>0 DEF EntryInv, BlockInv
<1>4. Listed' = Listed /\ Unblocking' = Unblocking
  BY <1>0 DEF Listed, Unblocking
<1>5. ChainInv'
  BY <1>0, <1>4, ChainKept DEF EntryInv
<1>. QED  BY <1>1, <1>2, <1>3, <1>5 DEF EntryInv

LEMMA CreateKeepsEntryInv == ASSUME EntryInv, NEW t \in Thread, Create(t) PROVE EntryInv'
<1>. PICK e \in Entry : /\ value' = [value EXCEPT ![e] = "locked"]
                        /\ entry' = [entry EXCEPT ![t] = e]
                        /\ overwritten' = IF value[e] = "locked" THEN overwritten \cup {e}
                                          ELSE overwritten
  BY DEF Create
<1>0. /\ epc[t] = "idle" /\ epc \in [Thread -> EntryPc] /\ epc' = [epc EXCEPT ![t] = "holding"]
      /\ value \in [Entry -> {"free", "locked", "unlocked"}]
      /\ entry \in [Thread -> Entry \cup {NoEntry}]
      /\ UNCHANGED <<event, block, old, cur, blocked>>
  BY DEF Create, EntryGoto, EntryInv, EntryTypeOK
<1>1. EntryTypeOK'
  BY <1>0 DEF EntryInv, EntryTypeOK, EntryPc
<1>2. HolderInv'
  BY <1>0 DEF EntryInv, HolderInv
<1>3. BlockInv'
  BY <1>0 DEF EntryInv, BlockInv
<1>4. Listed' = Listed /\ Unblocking' = Unblocking
  BY <1>0 DEF Listed, Unblocking
<1>5. ChainInv'
  BY <1>0, <1>4, ChainKept DEF EntryInv
<1>. QED  BY <1>1, <1>2, <1>3, <1>5 DEF EntryInv

LEMMA UnlockEntryKeepsEntryInv == ASSUME EntryInv, NEW t \in Thread, UnlockEntry(t) PROVE EntryInv'
<1>. PICK v \in {"unlocked", "free"} : value' = [value EXCEPT ![entry[t]] = v]
  BY DEF UnlockEntry
<1>0. /\ epc[t] = "holding" /\ epc \in [Thread -> EntryPc] /\ epc' = [epc EXCEPT ![t] = "exchange"]
      /\ value \in [Entry -> {"free", "locked", "unlocked"}] /\ entry[t] \in Entry
      /\ overwritten' = IF Holders(entry[t]) = {t} THEN overwritten \ {entry[t]} ELSE overwritten
      /\ overwritten \subseteq Entry /\ UNCHANGED <<event, block, entry, old, cur, blocked>>
  BY DEF UnlockEntry, EntryGoto, EntryInv, EntryTypeOK, HolderInv
<1>1. EntryTypeOK'
  BY <1>0 DEF EntryInv, EntryTypeOK, EntryPc
<1>2. HolderInv'
  <2>1. \A u \in Thread : epc'[u] = "holding" => u # t /\ epc[u] = "holding"
    BY <1>0
  <2>2. ASSUME NEW u \in Thread, epc'[u] = "holding", entry[u] \notin overwritten'
        PROVE  entry[u] # entry[t] /\ entry[u] \notin overwritten
    <3>1. CASE Holders(entry[t]) = {t}
      BY <1>0, <2>1, <2>2, <3>1 DEF Holders
    <3>2. CASE Holders(entry[t]) # {t}
      <4>1. entry[t] \in overwritten
        BY <1>0, <3>2 DEF Holders, EntryInv, HolderInv
      <4>. QED  BY <1>0, <2>2, <3>2, <4>1
    <3>. QED  BY <3>1, <3>2
  <2>. QED  BY <1>0, <2>1, <2>2 DEF EntryInv, HolderInv
<1>3. BlockInv'
  BY <1>0 DEF EntryInv, BlockInv
<1>4. Listed' = Listed /\ Unblocking' = Unblocking
  BY <1>0 DEF Listed, Unblocking
<1>5. ChainInv'
  BY <1>0, <1>4, ChainKept DEF EntryInv
<1>. QED  BY <1>1, <1>2, <1>3, <1>5 DEF EntryInv

LEMMA BlockPushLockKeepsEntryInv ==
    ASSUME EntryInv, NEW t \in Thread, BlockPushLock(t) PROVE EntryInv'
<1>0. /\ epc[t] = "block" /\ epc \in [Thread -> EntryPc] /\ epc' = [epc EXCEPT ![t] = "push"]
      /\ block \in [Thread -> Block] /\ blocked \in [Thread -> BOOLEAN]
      /\ block' = [block EXCEPT ![t] = [wait |-> TRUE, next |-> Garbage,
                                        event |-> "uninitialised"]]
      /\ blocked' = [blocked EXCEPT ![t] = TRUE]
      /\ UNCHANGED <<value, event, entry, cur, overwritten>>
  BY DEF BlockPushLock, EntryGoto, EntryInv, EntryTypeOK
<1>1. EntryTypeOK'
  BY <1>0 DEF EntryInv, EntryTypeOK, BlockPushLock, EntryPc, Block, Pointer
<1>2. HolderInv'
  BY <1>0 DEF EntryInv, HolderInv
<1>3. BlockInv'
  BY <1>0 DEF EntryInv, BlockInv
<1>4. Listed' = Listed /\ Unblocking' = Unblocking /\ t \notin Listed
  BY <1>0 DEF Listed, Unblocking, EntryInv, BlockInv
<1>5. ChainInv'
  BY <1>0, <1>4, ChainKept DEF EntryInv
<1>. QED  BY <1>1, <1>2, <1>3, <1>5 DEF EntryInv

LEMMA LookKeepsEntryInv == ASSUME EntryInv, NEW t \in Thread, Look(t) PROVE EntryInv'
<1>0. /\ epc[t] = "look" /\ epc \in [Thread -> EntryPc]
      /\ epc'[t] \in {"exchange", "initevent"} /\ \A u \in Thread \ {t} : epc'[u] = epc[u]
      /\ UNCHANGED <<value, event, block, entry, old, cur, blocked, overwritten>>
  BY DEF Look, EntryGoto, EntryInv, EntryTypeOK
<1>1. EntryTypeOK'
  BY DEF EntryInv, EntryTypeOK, Look, EntryGoto, EntryPc
<1>2. HolderInv'
  BY <1>0 DEF EntryInv, HolderInv
<1>3. BlockInv'
  BY <1>0 DEF EntryInv, BlockInv
<1>4. Listed' = Listed /\ Unblocking' = Unblocking
  BY <1>0 DEF Listed, Unblocking
<1>5. ChainInv'
  BY <1>0, <1>4, ChainKept DEF EntryInv
<1>. QED  BY <1>1, <1>2, <1>3, <1>5 DEF EntryInv

LEMMA InitEventKeepsEntryInv == ASSUME EntryInv, NEW t \in Thread, InitEvent(t) PROVE EntryInv'
<1>0. /\ epc[t] = "initevent" /\ epc \in [Thread -> EntryPc] /\ epc' = [epc EXCEPT ![t] = "test"]
      /\ block \in [Thread -> Block] /\ block' = [block EXCEPT ![t].event = "clear"]
      /\ UNCHANGED <<value, event, entry, old, cur, blocked, overwritten>>
  BY DEF InitEvent, EntryGoto, EntryInv, EntryTypeOK
<1>a. /\ block'[t].event = "clear" /\ block'[t].wait = block[t].wait
      /\ block'[t].next = block[t].next /\ \A u \in Thread \ {t} : block'[u] = block[u]
  BY <1>0 DEF Block
<1>1. EntryTypeOK'
  BY <1>0 DEF EntryInv, EntryTypeOK, EntryPc, Block
<1>2. HolderInv'
  BY <1>0 DEF EntryInv, HolderInv
<1>3. BlockInv'
  BY <1>0, <1>a DEF EntryInv, BlockInv
<1>4. Listed' = Listed /\ Unblocking' = Unblocking
  BY <1>0, <1>a DEF Listed, Unblocking
<1>5. ChainInv'
  BY <1>0, <1>a, <1>4, ChainKept DEF EntryInv, Listed
<1>. QED  BY <1>1, <1>2, <1>3, <1>5 DEF EntryInv

-----------------------------------------------------------------------------
(* A block is pushed *)

LEMMA PushKeepsEntryInv == ASSUME EntryInv, NEW t \in Thread, Push(t) PROVE EntryInv'
<1>0. /\ epc[t] = "push" /\ epc \in [Thread -> EntryPc] /\ block \in [Thread -> Block]
      /\ old[t] \in Thread \cup {Null} /\ event \in Thread \cup {Null}
      /\ UNCHANGED <<value, entry, cur, blocked, overwritten>>
      /\ blocked[t] /\ block[t].wait /\ t \notin Listed
  BY DEF Push, EntryInv, EntryTypeOK, BlockInv, Listed
<1>a. /\ block' = [block EXCEPT ![t].next = old[t]]
      /\ block'[t].event = block[t].event /\ block'[t].wait = block[t].wait
      /\ block'[t].next = old[t] /\ \A u \in Thread \ {t} : block'[u] = block[u]
      /\ block' \in [Thread -> Block]
  <2>1. block' = [block EXCEPT ![t] = [block[t] EXCEPT !.next = old[t]]]
    BY DEF Push, Linked
  <2>2. block[t] \in Block /\ old[t] \in Pointer
    BY <1>0 DEF Pointer
  <2>3. /\ [block[t] EXCEPT !.next = old[t]] \in Block
        /\ [block[t] EXCEPT !.next = old[t]].event = block[t].event
        /\ [block[t] EXCEPT !.next = old[t]].wait = block[t].wait
        /\ [block[t] EXCEPT !.next = old[t]].next = old[t]
    BY <2>2 DEF Block
  <2>. QED  BY <1>0, <2>1, <2>3
<1>1. CASE event # old[t]
  <2>0. UNCHANGED <<event, epc>> /\ old' = [old EXCEPT ![t] = event]
    BY <1>1 DEF Push
  <2>1. EntryTypeOK'
    BY <1>0, <1>a, <2>0 DEF EntryInv, EntryTypeOK
  <2>2. HolderInv'
    BY <1>0, <2>0 DEF EntryInv, HolderInv
  <2>3. BlockInv'
    BY <1>0, <1>a, <2>0 DEF EntryInv, BlockInv
  <2>4. Listed' = Listed /\ Unblocking' = Unblocking
    BY <1>0, <1>a, <2>0 DEF Listed, Unblocking
  <2>5. ChainInv'
    BY <1>0, <1>a, <2>0, <2>4, ChainKept DEF EntryInv, Listed
  <2>. QED  BY <2>1, <2>2, <2>3, <2>5 DEF EntryInv
<1>2. CASE event = old[t]
  <2>0. event' = t /\ epc' = [epc EXCEPT ![t] = "look"] /\ old' = [old EXCEPT ![t] = Null]
    BY <1>2 DEF Push, EntryGoto
  <2>1. EntryTypeOK'
    BY <1>0, <1>a, <2>0 DEF EntryInv, EntryTypeOK, EntryPc
  <2>2. HolderInv'
    BY <1>0, <2>0 DEF EntryInv, HolderInv
  <2>3. BlockInv'
    BY <1>0, <1>a, <2>0 DEF EntryInv, BlockInv
  <2>4. Listed' = Listed \cup {t} /\ Unblocking' = Unblocking
    BY <1>0, <1>a, <2>0 DEF Listed, Unblocking
  <2>5. ChainInv'
    <3>1. /\ Listed \subseteq Thread /\ t # Null
          /\ \A u \in Listed : u # t /\ block'[u] = block[u]
      BY <1>0, <1>a, ValueAssumption DEF Listed
    <3>2. event' \in Listed' \cup {Null}
      BY <2>0, <2>4
    <3>3. \A u \in Listed' : block'[u].next \in Listed' \cup {Null}
      BY <1>a, <1>2, <2>4, <3>1 DEF EntryInv, ChainInv
    <3>4. \A u, v \in Listed' : block'[u].next = block'[v].next /\ block'[u].next # Null
                                   => u = v
      BY <1>a, <1>2, <2>4, <3>1 DEF EntryInv, ChainInv
    <3>5. \A u \in Listed' : block'[u].next # event'
      BY <1>a, <1>0, <1>2, <2>0, <2>4, <3>1 DEF EntryInv, ChainInv
    <3>6. \A x \in Unblocking' : cur'[x] \in Listed' /\ cur'[x] # event'
      BY <1>0, <2>0, <2>4, <3>1 DEF EntryInv, ChainInv
    <3>7. \A u \in Listed', x \in Unblocking' : block'[u].next # cur'[x]
      BY <1>0, <1>a, <1>2, <2>4, <3>1 DEF EntryInv, ChainInv
    <3>8. \A x, u \in Unblocking' : cur'[x] = cur'[u] => x = u
      BY <1>0, <2>4 DEF EntryInv, ChainInv
    <3>9. \A x \in Thread : epc'[x] = "signal" => epc'[cur'[x]] = "asleep"
      BY <1>0, <2>0 DEF EntryInv, ChainInv
    <3>. QED  BY <3>2, <3>3, <3>4, <3>5, <3>6, <3>7, <3>8, <3>9 DEF ChainInv
  <2>. QED  BY <2>1, <2>2, <2>3, <2>5 DEF EntryInv
<1>. QED  BY <1>1, <1>2

-----------------------------------------------------------------------------
(* A waiter leaves *)

LEMMA TestFlagKeepsEntryInv == ASSUME EntryInv, NEW t \in Thread, TestFlag(t) PROVE EntryInv'
<1>0. /\ epc[t] = "test" /\ epc \in [Thread -> EntryPc] /\ block \in [Thread -> Block]
      /\ blocked \in [Thread -> BOOLEAN] /\ blocked[t] /\ block[t].event = "clear"
      /\ UNCHANGED <<value, event, entry, old, cur, overwritten>>
  BY DEF TestFlag, EntryInv, EntryTypeOK, BlockInv
<1>1. CASE block[t].wait
  <2>0. /\ block' = [block EXCEPT ![t].wait = FALSE] /\ epc' = [epc EXCEPT ![t] = "asleep"]
        /\ blocked' = blocked
    BY <1>1 DEF TestFlag, EntryGoto
  <2>a. /\ block'[t].event = "clear" /\ block'[t].wait = FALSE
        /\ block'[t].next = block[t].next /\ \A u \in Thread \ {t} : block'[u] = block[u]
        /\ block' \in [Thread -> Block]
    BY <1>0, <2>0 DEF Block
  <2>1. EntryTypeOK'
    BY <1>0, <2>0, <2>a DEF EntryInv, EntryTypeOK, EntryPc
  <2>2. HolderInv'
    BY <1>0, <2>0 DEF EntryInv, HolderInv
  <2>3. BlockInv'
    BY <1>0, <2>0, <2>a DEF EntryInv, BlockInv
  <2>4. Listed' = Listed /\ Unblocking' = Unblocking
    BY <1>0, <1>1, <2>0, <2>a DEF Listed, Unblocking
  <2>5. ChainInv'
    BY <1>0, <2>0, <2>a, <2>4, ChainKept DEF EntryInv, Listed
  <2>. QED  BY <2>1, <2>2, <2>3, <2>5 DEF EntryInv
<1>2. CASE ~block[t].wait
  <2>0. /\ block' = [block EXCEPT ![t] = NoBlock] /\ epc' = [epc EXCEPT ![t] = "try"]
        /\ blocked' = [blocked EXCEPT ![t] = FALSE]
    BY <1>2 DEF TestFlag, EntryGoto, Unblocked
  <2>1. EntryTypeOK'
    BY <1>0, <2>0 DEF EntryInv, EntryTypeOK, EntryPc, Block, NoBlock, Pointer
  <2>2. HolderInv'
    BY <1>0, <2>0 DEF EntryInv, HolderInv
  <2>3. BlockInv'
    BY <1>0, <2>0 DEF EntryInv, BlockInv
  <2>4. Listed' = Listed /\ Unblocking' = Unblocking /\ t \notin Listed
    BY <1>0, <1>2, <2>0 DEF Listed, Unblocking
  <2>5. ChainInv'
    BY <1>0, <2>0, <2>4, ChainKept DEF EntryInv, Listed
  <2>. QED  BY <2>1, <2>2, <2>3, <2>5 DEF EntryInv
<1>. QED  BY <1>1, <1>2

LEMMA WaitForEventKeepsEntryInv ==
    ASSUME EntryInv, NEW t \in Thread, WaitForEvent(t) PROVE EntryInv'
<1>0. /\ epc[t] = "asleep" /\ epc \in [Thread -> EntryPc] /\ block \in [Thread -> Block]
      /\ blocked \in [Thread -> BOOLEAN] /\ blocked[t]
      /\ ~block[t].wait /\ block[t].event = "signalled"
      /\ block' = [block EXCEPT ![t] = NoBlock] /\ epc' = [epc EXCEPT ![t] = "try"]
      /\ blocked' = [blocked EXCEPT ![t] = FALSE]
      /\ UNCHANGED <<value, event, entry, old, cur, overwritten>>
  BY DEF WaitForEvent, Unblocked, EntryGoto, EntryInv, EntryTypeOK, BlockInv
<1>1. EntryTypeOK'
  BY <1>0 DEF EntryInv, EntryTypeOK, EntryPc, Block, NoBlock, Pointer
<1>2. HolderInv'
  BY <1>0 DEF EntryInv, HolderInv
<1>3. BlockInv'
  BY <1>0 DEF EntryInv, BlockInv
<1>4. Listed' = Listed /\ Unblocking' = Unblocking /\ t \notin Listed
  BY <1>0 DEF Listed, Unblocking
<1>5. \A u \in Unblocking : cur[u] \in Thread \ {t}
  BY <1>4 DEF EntryInv, ChainInv, Listed
<1>6. ChainInv'
  BY <1>0, <1>4, <1>5 DEF EntryInv, ChainInv, Unblocking
<1>. QED  BY <1>1, <1>2, <1>3, <1>6 DEF EntryInv

-----------------------------------------------------------------------------
(* An unblocker passes a block *)

\* The listed blocks, were the blocks blk.
ListedIn(blk) ==
    {u \in Thread :
        /\ blocked[u] /\ epc[u] # "push"
        /\ blk[u].wait \/ (epc[u] = "asleep" /\ blk[u].event # "signalled")}

\* The unblocker goes on to n: n leads to the rest of the list that it owns.
LEMMA AdvanceKeepsEntryInv ==
    ASSUME EntryInv, NEW t \in Thread, epc[t] \in {"exchange", "flag", "signal"},
           NEW n, NEW blk \in [Thread -> Block], NEW L,
           Advance(t, n, blk), UNCHANGED <<value, old, overwritten>>,
           L = ListedIn(blk), L \subseteq Listed,
           \A u \in Thread : blk[u].next = block[u].next,
           \A u \in Thread : epc[u] = "push" => blk[u].wait,
           \A u \in Thread : epc[u] = "test" => blk[u].event = "clear",
           \A u \in Thread :
              epc[u] = "asleep" => ~blk[u].wait /\ blk[u].event \in {"clear", "signalled"},
           n \in L \cup {Null}, event' \in L \cup {Null},
           \A u \in L : block[u].next \in L \cup {Null},
           \A u \in Unblocking \ {t} : cur[u] \in L /\ cur[u] # n,
           \A u \in L : block[u].next = n => n = Null,
           event' = n => n = Null,
           event' \in {event, Null}
    PROVE  EntryInv'
<1>0. /\ epc \in [Thread -> EntryPc] /\ blocked \in [Thread -> BOOLEAN]
      /\ cur \in [Thread -> Thread \cup {Null}] /\ L \subseteq Thread
      /\ event' \in Thread \cup {Null} /\ block \in [Thread -> Block]
      /\ entry \in [Thread -> Entry \cup {NoEntry}]
      /\ UNCHANGED <<value, old, overwritten>>
  BY DEF EntryInv, EntryTypeOK, Listed
<1>1. /\ cur' = [cur EXCEPT ![t] = n]
      /\ \A u \in Thread \ {t} : /\ epc'[u] = epc[u] /\ block'[u] = blk[u]
                                 /\ entry'[u] = entry[u] /\ blocked'[u] = blocked[u]
  BY <1>0 DEF Advance, Done, EntryGoto
<1>2. \/ epc'[t] = "flag" /\ n # Null /\ block' = blk /\ blocked' = blocked /\ entry' = entry
      \/ /\ epc'[t] = "initevent" /\ n = Null /\ blocked[t] /\ block' = blk
         /\ blocked' = blocked /\ entry' = entry
      \/ /\ epc'[t] = "try" /\ n = Null /\ blocked[t] /\ ~blk[t].wait /\ ~blocked'[t]
         /\ block' = [blk EXCEPT ![t] = NoBlock] /\ entry' = entry
      \/ epc'[t] = "idle" /\ n = Null /\ ~blocked[t] /\ block' = blk /\ blocked' = blocked
  BY <1>0 DEF Advance, Done, EntryGoto, Pending
<1>3. EntryTypeOK'
  <2>1. epc' \in [Thread -> EntryPc]
    BY <1>0 DEF Advance, Done, EntryGoto, EntryPc
  <2>2. cur' \in [Thread -> Thread \cup {Null}]
    BY <1>0, <1>1
  <2>3. entry' \in [Thread -> Entry \cup {NoEntry}] /\ blocked' \in [Thread -> BOOLEAN]
    BY <1>0 DEF Advance, Done
  <2>4. NoBlock \in Block
    BY DEF Block, NoBlock, Pointer
  <2>5. block' \in [Thread -> Block]
    BY <1>2, <2>4
  <2>. QED  BY <1>0, <2>1, <2>2, <2>3, <2>5 DEF EntryInv, EntryTypeOK
<1>4. HolderInv'
  BY <1>0, <1>1, <1>2 DEF EntryInv, HolderInv
<1>5. BlockInv'
  <2>. SUFFICES ASSUME NEW u \in Thread
       PROVE  /\ blocked'[u] => epc'[u] \in {"push", "look", "exchange", "flag", "signal",
                                            "initevent", "test", "asleep"}
              /\ epc'[u] \in {"push", "look", "initevent", "test", "asleep"} => blocked'[u]
              /\ epc'[u] = "push" => block'[u].wait
              /\ epc'[u] = "test" => block'[u].event = "clear"
              /\ epc'[u] = "asleep" => /\ ~block'[u].wait
                                      /\ block'[u].event \in {"clear", "signalled"}
    BY DEF BlockInv
  <2>1. CASE u = t
    BY <2>1, <1>0, <1>1, <1>2 DEF EntryInv, BlockInv
  <2>2. CASE u # t
    BY <2>2, <1>0, <1>1 DEF EntryInv, BlockInv
  <2>. QED  BY <2>1, <2>2
<1>6. Listed' = L
  <2>. SUFFICES ASSUME NEW u \in Thread PROVE u \in Listed' <=> u \in L
    BY <1>0 DEF Listed
  <2>1. CASE u = t
    BY <2>1, <1>0, <1>1, <1>2 DEF Listed, ListedIn
  <2>2. CASE u # t
    BY <2>2, <1>0, <1>1 DEF Listed, ListedIn
  <2>. QED  BY <2>1, <2>2
<1>7. \A u \in L : block'[u].next = block[u].next
  <2>1. \A u \in L \ {t} : block'[u] = blk[u]
    BY <1>0, <1>1
  <2>2. t \in L => block'[t] = blk[t]
    BY <1>0, <1>2 DEF ListedIn
  <2>. QED  BY <1>0, <2>1, <2>2
<1>8. \A u \in Unblocking' : \/ u = t /\ n # Null /\ cur'[u] = n
                             \/ u \in Unblocking \ {t} /\ cur'[u] = cur[u]
  BY <1>0, <1>1, <1>2 DEF Unblocking
<1>9. ChainInv'
  <2>1. event' \in Listed' \cup {Null}
    BY <1>6
  <2>2. \A u \in Listed' : block'[u].next \in Listed' \cup {Null}
    BY <1>6, <1>7
  <2>3. \A u, v \in Listed' : block'[u].next = block'[v].next /\ block'[u].next # Null
                                 => u = v
    BY <1>6, <1>7 DEF EntryInv, ChainInv
  <2>4. \A u \in Listed' : block'[u].next = event' => event' = Null
    BY <1>6, <1>7 DEF EntryInv, ChainInv
  <2>5. \A x \in Unblocking' : cur'[x] \in Listed'
    BY <1>6, <1>8
  <2>6. \A u \in Listed', x \in Unblocking' : block'[u].next # cur'[x]
    BY <1>6, <1>7, <1>8 DEF EntryInv, ChainInv
  <2>7. \A x \in Unblocking' : cur'[x] # event'
    BY <1>6, <1>8, <2>5, ValueAssumption, <1>0 DEF EntryInv, ChainInv
  <2>8. \A x, u \in Unblocking' : cur'[x] = cur'[u] => x = u
    BY <1>8 DEF EntryInv, ChainInv
  <2>9. \A x \in Thread : epc'[x] = "signal" => epc'[cur'[x]] = "asleep"
    <3>1. \A x \in Thread : epc'[x] = "signal" => x # t /\ epc[x] = "signal"
      BY <1>1, <1>2
    <3>2. \A x \in Thread : epc[x] = "signal" => epc[cur[x]] = "asleep" /\ cur[x] \in Thread
      BY DEF EntryInv, ChainInv, Unblocking, Listed
    <3>3. \A x \in Thread \ {t} : cur'[x] = cur[x]
      BY <1>0, <1>1
    <3>. QED  BY <3>1, <3>2, <3>3, <1>1
  <2>. QED  BY <2>1, <2>2, <2>3, <2>4, <2>5, <2>6, <2>7, <2>8, <2>9 DEF ChainInv
<1>. QED  BY <1>3, <1>4, <1>5, <1>9 DEF EntryInv

LEMMA ExchangeKeepsEntryInv == ASSUME EntryInv, NEW t \in Thread, Exchange(t) PROVE EntryInv'
<1>0. /\ epc[t] = "exchange" /\ event' = Null /\ Advance(t, event, block)
      /\ UNCHANGED <<value, old, overwritten>> /\ block \in [Thread -> Block]
  BY DEF Exchange, EntryInv, EntryTypeOK
<1>1. Listed = ListedIn(block)
  BY DEF Listed, ListedIn
<1>2. \A u \in Unblocking : cur[u] \in Listed /\ cur[u] # event
  BY DEF EntryInv, ChainInv
<1>3. event \in Listed \cup {Null} /\ \A u \in Listed : block[u].next \in Listed \cup {Null}
  BY DEF EntryInv, ChainInv
<1>4. \A u \in Listed : block[u].next = event => event = Null
  BY DEF EntryInv, ChainInv
<1>5. \A u \in Thread :
         /\ epc[u] = "push" => block[u].wait
         /\ epc[u] = "test" => block[u].event = "clear"
         /\ epc[u] = "asleep" => ~block[u].wait /\ block[u].event \in {"clear", "signalled"}
  BY DEF EntryInv, BlockInv
<1>. QED  BY <1>0, <1>1, <1>2, <1>3, <1>4, <1>5, AdvanceKeepsEntryInv

\* What an unblocker that goes on from its block c relies on: c is his alone.
LEMMA PassedBlock ==
    ASSUME EntryInv, NEW t \in Unblocking, NEW c, c = cur[t]
    PROVE  /\ c \in Listed /\ c \in Thread
           /\ block[c].next \in (Listed \ {c}) \cup {Null}
           /\ event \in (Listed \ {c}) \cup {Null}
           /\ event = block[c].next => event = Null
           /\ \A u \in Listed \ {c} : block[u].next \in (Listed \ {c}) \cup {Null}
           /\ \A u \in Listed \ {c} : block[u].next = block[c].next => block[c].next = Null
           /\ \A u \in Unblocking \ {t} : cur[u] \in Listed \ {c} /\ cur[u] # block[c].next
<1>1. c \in Listed /\ c \in Thread
  BY DEF EntryInv, ChainInv, Listed
<1>. QED  BY <1>1 DEF EntryInv, ChainInv

LEMMA ResetFlagKeepsEntryInv == ASSUME EntryInv, NEW t \in Thread, ResetFlag(t) PROVE EntryInv'
<1>. DEFINE c == cur[t]
            blk == [block EXCEPT ![c].wait = FALSE]
<1>0. /\ epc[t] = "flag" /\ epc \in [Thread -> EntryPc] /\ block \in [Thread -> Block]
      /\ t \in Unblocking /\ UNCHANGED <<value, event, old, overwritten>>
  BY DEF ResetFlag, EntryInv, EntryTypeOK, Unblocking
<1>1. c \in Listed /\ c \in Thread
  BY <1>0, PassedBlock
<1>2. /\ blk \in [Thread -> Block] /\ blk[c].wait = FALSE
      /\ blk[c].event = block[c].event /\ blk[c].next = block[c].next
      /\ \A u \in Thread \ {c} : blk[u] = block[u]
  BY <1>0, <1>1 DEF Block
<1>3. CASE block[c].wait
  <2>0. Advance(t, block[c].next, blk)
    BY <1>3 DEF ResetFlag, AlreadyReset
  <2>1. epc[c] # "push" /\ epc[c] # "asleep"
    BY <1>1, <1>3 DEF Listed, EntryInv, BlockInv
  <2>2. Listed \ {c} = ListedIn(blk)
    BY <1>1, <1>2, <2>1 DEF Listed, ListedIn
  <2>3. \A u \in Thread :
           /\ blk[u].next = block[u].next
           /\ epc[u] = "push" => blk[u].wait
           /\ epc[u] = "test" => blk[u].event = "clear"
           /\ epc[u] = "asleep" => ~blk[u].wait /\ blk[u].event \in {"clear", "signalled"}
    BY <1>2, <2>1 DEF EntryInv, BlockInv
  <2>. HIDE DEF blk, c
  <2>4. c = cur[t]
    BY DEF c
  <2>. QED  BY <1>0, <1>2, <2>0, <2>2, <2>3, <2>4, PassedBlock, AdvanceKeepsEntryInv
<1>4. CASE ~block[c].wait
  <2>0. /\ epc' = [epc EXCEPT ![t] = "signal"] /\ block' = blk
        /\ UNCHANGED <<cur, entry, blocked>>
    BY <1>4 DEF ResetFlag, AlreadyReset, EntryGoto
  <2>1. epc[c] = "asleep" /\ c # t
    BY <1>0, <1>1, <1>4 DEF Listed
  <2>a. \A u \in Thread : /\ block'[u].wait = block[u].wait
                          /\ block'[u].next = block[u].next
                          /\ block'[u].event = block[u].event
    BY <1>0, <1>2, <1>4, <2>0 DEF Block
  <2>2. EntryTypeOK'
    BY <1>0, <1>2, <2>0 DEF EntryInv, EntryTypeOK, EntryPc
  <2>3. HolderInv'
    BY <1>0, <2>0 DEF EntryInv, HolderInv
  <2>b. epc'[t] = "signal" /\ blocked' = blocked /\ \A u \in Thread \ {t} : epc'[u] = epc[u]
    BY <1>0, <2>0
  <2>4. BlockInv'
    BY <1>0, <2>a, <2>b DEF EntryInv, BlockInv
  <2>5. Listed' = Listed /\ Unblocking' = Unblocking
    BY <1>0, <2>a, <2>b DEF Listed, Unblocking
  <2>6. \A x \in Thread : epc'[x] = "signal" => epc'[cur'[x]] = "asleep"
    BY <1>0, <2>0, <2>1 DEF EntryInv, ChainInv
  <2>7. ChainInv'
    BY <1>0, <2>0, <2>a, <2>5, <2>6 DEF EntryInv, ChainInv, Listed
  <2>. QED  BY <2>2, <2>3, <2>4, <2>7 DEF EntryInv
<1>. QED  BY <1>3, <1>4

LEMMA SignalKeepsEntryInv == ASSUME EntryInv, NEW t \in Thread, Signal(t) PROVE EntryInv'
<1>. DEFINE c == cur[t]
            blk == [block EXCEPT ![c].event = "signalled"]
<1>0. /\ epc[t] = "signal" /\ epc \in [Thread -> EntryPc] /\ block \in [Thread -> Block]
      /\ t \in Unblocking /\ UNCHANGED <<value, event, old, overwritten>>
      /\ Advance(t, block[c].next, blk)
  BY DEF Signal, EntryInv, EntryTypeOK, Unblocking
<1>1. c \in Listed /\ c \in Thread /\ epc[c] = "asleep" /\ ~block[c].wait
  BY <1>0, PassedBlock DEF EntryInv, ChainInv, BlockInv
<1>2. /\ blk \in [Thread -> Block] /\ blk[c].wait = block[c].wait
      /\ blk[c].event = "signalled" /\ blk[c].next = block[c].next
      /\ \A u \in Thread \ {c} : blk[u] = block[u]
  BY <1>0, <1>1 DEF Block
<1>3. Listed \ {c} = ListedIn(blk)
  BY <1>1, <1>2 DEF Listed, ListedIn
<1>4. \A u \in Thread :
         /\ blk[u].next = block[u].next
         /\ epc[u] = "push" => blk[u].wait
         /\ epc[u] = "test" => blk[u].event = "clear"
         /\ epc[u] = "asleep" => ~blk[u].wait /\ blk[u].event \in {"clear", "signalled"}
  BY <1>1, <1>2 DEF EntryInv, BlockInv
<1>. HIDE DEF blk, c
<1>5. c = cur[t]
  BY DEF c
<1>. QED  BY <1>0, <1>2, <1>3, <1>4, <1>5, PassedBlock, AdvanceKeepsEntryInv

-----------------------------------------------------------------------------
(* The theorems *)

LEMMA NextKeepsEntryInv == ASSUME EntryInv, [EntryNext]_evars PROVE EntryInv'
<1>1. ASSUME NEW t \in Thread, Call(t) \/ Create(t) \/ Step(t) PROVE EntryInv'
  BY <1>1, CallKeepsEntryInv, CreateKeepsEntryInv, TryKeepsEntryInv, LockKeepsEntryInv,
     UnlockEntryKeepsEntryInv,
     BlockPushLockKeepsEntryInv, PushKeepsEntryInv, LookKeepsEntryInv, ExchangeKeepsEntryInv,
     ResetFlagKeepsEntryInv, SignalKeepsEntryInv, InitEventKeepsEntryInv, TestFlagKeepsEntryInv,
     WaitForEventKeepsEntryInv DEF Step
<1>2. CASE UNCHANGED evars
  <2>1. EntryTypeOK' /\ HolderInv' /\ BlockInv' /\ Listed' = Listed /\ Unblocking' = Unblocking
    BY <1>2 DEF evars, EntryInv, EntryTypeOK, HolderInv, BlockInv, Listed, Unblocking
  <2>2. ChainInv'
    BY <1>2, <2>1, ChainKept DEF evars, EntryInv
  <2>. QED  BY <2>1, <2>2 DEF EntryInv
<1>. QED  BY <1>1, <1>2 DEF EntryNext

\* The inductive invariant holds in every reachable state.
THEOREM EntryInvariance == EntrySpec => []EntryInv
<1>1. EntryInit => EntryInv
  BY InitEntryInv
<1>2. EntryInv /\ [EntryNext]_evars => EntryInv'
  BY NextKeepsEntryInv
<1>. QED  BY <1>1, <1>2, PTL DEF EntrySpec

\* Every variable keeps its type: the event and the walks of the unblockers
\* hold blocks or NULL, and never the uninitialised EntryNext of a block.
THEOREM EntryTypeCorrect == EntrySpec => []EntryTypeOK
<1>1. EntryInv => EntryTypeOK
  BY DEF EntryInv
<1>. QED  BY <1>1, EntryInvariance, PTL

\* ExfUnblockPushLock never touches the block of a thread that has returned from
\* ExpBlockOnLockedHandleEntry, and signals an event only for its sleeping waiter.
THEOREM BlockLifetime == EntrySpec => []BlocksAlive
<1>1. EntryInv => BlocksAlive
  <2>. SUFFICES ASSUME EntryInv, NEW t \in Thread
       PROVE  /\ epc[t] \in {"flag", "signal"} => blocked[cur[t]]
              /\ epc[t] = "signal" => block[cur[t]].event = "clear" /\ epc[cur[t]] = "asleep"
    BY DEF BlocksAlive
  <2>1. epc[t] \in {"flag", "signal"} => cur[t] \in Listed
    BY DEF EntryInv, ChainInv, Unblocking
  <2>2. epc[t] = "signal" => epc[cur[t]] = "asleep"
    BY DEF EntryInv, ChainInv
  <2>. QED  BY <2>1, <2>2 DEF Listed, EntryInv, BlockInv
<1>. QED  BY <1>1, EntryInvariance, PTL

InsideAll == [e \in Entry |-> Inside(e)]

\* Taking an entry enters its mutex, unlocking or freeing it leaves it, creating
\* over a locked one takes it out of the contract, and no other step changes
\* who holds what.
LEMMA NextContract ==
    ASSUME EntryInv, [EntryNext]_evars
    PROVE  [Contract!ContractNext]_InsideAll
<1>. SUFFICES ASSUME InsideAll' # InsideAll PROVE Contract!ContractNext
  OBVIOUS
<1>1. PICK t \in Thread : Call(t) \/ Create(t) \/ Step(t)
  BY DEF EntryNext, evars, InsideAll, Inside, Holders
<1>0. /\ epc \in [Thread -> EntryPc] /\ entry \in [Thread -> Entry \cup {NoEntry}]
      /\ overwritten \subseteq Entry /\ HolderInv
  BY DEF EntryInv, EntryTypeOK
<1>2. ASSUME \A u \in Thread \ {t} : epc'[u] = epc[u] /\ entry'[u] = entry[u],
             epc[t] # "holding", epc'[t] # "holding", overwritten' = overwritten
      PROVE  FALSE
  <2>1. \A e \in Entry : Inside(e)' = Inside(e)
    BY <1>2 DEF Inside, Holders
  <2>. QED  BY <2>1 DEF InsideAll
<1>3. CASE \/ Call(t) \/ Try(t) \/ BlockPushLock(t) \/ Push(t) \/ Look(t)
           \/ InitEvent(t) \/ TestFlag(t) \/ WaitForEvent(t)
  BY <1>0, <1>2, <1>3 DEF Call, Try, BlockPushLock, Push, Look, InitEvent, TestFlag,
                     WaitForEvent, Unblocked, EntryGoto
<1>4. CASE Exchange(t) \/ ResetFlag(t) \/ Signal(t)
  BY <1>0, <1>2, <1>4 DEF Exchange, ResetFlag, Signal, Advance, Done, EntryGoto
<1>5. ASSUME NEW e \in Entry, value[e] # "locked", epc[t] # "holding",
             epc'[t] = "holding", entry'[t] = e, overwritten' = overwritten,
             \A u \in Thread \ {t} : epc'[u] = epc[u] /\ entry'[u] = entry[u]
      PROVE  Contract!ContractNext
  <2>1. \A d \in Entry \ {e} : Inside(d)' = Inside(d)
    BY <1>5 DEF Inside, Holders
  <2>2. e \notin overwritten
    <3>. SUFFICES ASSUME e \in overwritten PROVE FALSE
      OBVIOUS
    <3>1. Inside(e)' = Inside(e)
      BY <1>5 DEF Inside
    <3>. QED  BY <2>1, <3>1 DEF InsideAll
  <2>3. Inside(e) = {} /\ Inside(e)' = {t}
    BY <1>0, <1>5, <2>2 DEF Inside, Holders, HolderInv
  <2>4. InsideAll' = [InsideAll EXCEPT ![e] = {t}]
    BY <2>1, <2>3 DEF InsideAll
  <2>. QED  BY <2>3, <2>4 DEF Contract!ContractNext, Contract!Enter, InsideAll
<1>6. CASE Lock(t)
  <2>1. CASE epc' = [epc EXCEPT ![t] = "holding"] /\ AsRead(value[entry[t]])
    <3>1. /\ value[entry[t]] # "locked" /\ epc[t] # "holding" /\ epc'[t] = "holding"
          /\ entry' = entry /\ overwritten' = overwritten
          /\ \A u \in Thread \ {t} : epc'[u] = epc[u]
      BY <1>0, <1>6, <2>1 DEF Lock, AsRead
    <3>2. entry[t] \in Entry
      BY <1>0, <1>6 DEF Lock, HolderInv
    <3>. QED  BY <3>1, <3>2, <1>5
  <2>2. CASE epc' = [epc EXCEPT ![t] = "block"]
    BY <1>0, <1>2, <1>6, <2>2 DEF Lock
  <2>. QED  BY <1>6, <2>1, <2>2 DEF Lock, EntryGoto
\* One thread leaves, by unlocking or because its entry was created over.
<1>7. ASSUME NEW e \in Entry, Inside(e)' = {},
             \A d \in Entry \ {e} : Inside(d)' = Inside(d)
      PROVE  Contract!ContractNext
  <2>1. Inside(e) # {}
    BY <1>7 DEF InsideAll
  <2>2. PICK u \in Thread : Inside(e) = {u}
    BY <1>0, <2>1 DEF Inside, Holders, HolderInv
  <2>3. InsideAll' = [InsideAll EXCEPT ![e] = {}]
    BY <1>7 DEF InsideAll
  <2>. QED  BY <2>2, <2>3 DEF Contract!ContractNext, Contract!Leave, InsideAll
<1>8. CASE Create(t)
  <2>. PICK e \in Entry : /\ entry' = [entry EXCEPT ![t] = e]
                          /\ overwritten' = IF value[e] = "locked" THEN overwritten \cup {e}
                                            ELSE overwritten
    BY <1>8 DEF Create
  <2>1. /\ epc[t] # "holding" /\ epc'[t] = "holding" /\ entry'[t] = e
        /\ \A u \in Thread \ {t} : epc'[u] = epc[u] /\ entry'[u] = entry[u]
    BY <1>0, <1>8 DEF Create, EntryGoto
  <2>2. CASE value[e] # "locked"
    BY <1>5, <2>1, <2>2
  <2>3. CASE value[e] = "locked"
    <3>1. Inside(e)' = {}
      BY <2>3 DEF Inside
    <3>2. \A d \in Entry \ {e} : Inside(d)' = Inside(d)
      BY <2>1, <2>3 DEF Inside, Holders
    <3>. QED  BY <1>7, <3>1, <3>2
  <2>. QED  BY <2>2, <2>3
<1>9. CASE UnlockEntry(t)
  <2>1. /\ epc[t] = "holding" /\ epc'[t] = "exchange" /\ entry' = entry /\ entry[t] \in Entry
        /\ \A u \in Thread \ {t} : epc'[u] = epc[u]
        /\ overwritten' = IF Holders(entry[t]) = {t} THEN overwritten \ {entry[t]}
                          ELSE overwritten
    BY <1>0, <1>9 DEF UnlockEntry, EntryGoto, HolderInv
  <2>2. \A d \in Entry \ {entry[t]} : Inside(d)' = Inside(d)
    BY <2>1 DEF Inside, Holders
  <2>3. Inside(entry[t])' = {}
    <3>1. CASE Holders(entry[t]) = {t}
      <4>1. Holders(entry[t])' = {}
        BY <2>1, <3>1 DEF Holders
      <4>. QED  BY <2>1, <4>1 DEF Inside
    <3>2. CASE Holders(entry[t]) # {t}
      <4>1. entry[t] \in overwritten
        BY <1>0, <2>1, <3>2 DEF Holders, HolderInv
      <4>. QED  BY <2>1, <3>2, <4>1 DEF Inside
    <3>. QED  BY <3>1, <3>2
  <2>. QED  BY <1>7, <2>1, <2>2, <2>3
<1>. QED  BY <1>1, <1>3, <1>4, <1>6, <1>8, <1>9 DEF Step

\* The lock bits implement the contract: each entry is a mutex of its own, from
\* the handle's creation to its end, and over again for the next handle, except
\* while two threads have it because ExCreateHandle stored over a locked one.
THEOREM MutualExclusion == EntrySpec => ImplementsMutex
<1>1. EntryInit => Contract!ContractInit
  BY DEF EntryInit, Contract!ContractInit, Inside, Holders
<1>2. EntryInv /\ [EntryNext]_evars => [Contract!ContractNext]_InsideAll
  BY NextContract
<1>. QED
  BY <1>1, <1>2, EntryInvariance, PTL
     DEF EntrySpec, ImplementsMutex, Contract!ContractSpec, InsideAll

-----------------------------------------------------------------------------
(* The free lists: the inductive invariant *)

\* Where a thread owns the table lock, and where it moves LastFree to FirstFree.
TablePc == {"recheck", "move", "waitOn", "waitAcquire", "waitRelease", "moved", "grow",
            "linkPage", "pushPage", "unlock0", "unlockFailed"}
WaitPc  == {"waitOn", "waitAcquire", "waitRelease"}
MovePc  == WaitPc \cup {"moved"}
GrowPc  == {"linkPage", "pushPage"}

\* Where it owns the lock of its handle, shared.
SharePc == {"check", "next", "take", "unshare", "unshareRetry"}

\* Where it has a handle in its hands: one to give out, and one that is freed.
GivePc == {"unshare", "count", "write"}
FreePc == {"uncount", "choose", "toFirst", "toLast", "pushFirst", "pushLast"}
HoldPc == GivePc \cup FreePc \cup {"unlock", "clear"}

\* A handle of a page that is in the table already.
Growing   == \E t \in Thread : pc[t] \in GrowPc
Usable(h) == h < (IF Growing THEN pages - 1 ELSE pages) * PageEntries

\* The index of a thread that waits for one lock after the other.
SweepInv == \A t \in Thread :
    /\ pc[t] \in WaitPc => lock[t] # 0
    /\ pc[t] = "waitRelease" => owner[lock[t]] = t

LockInv ==
    /\ \A i \in Locks : owner[i] # NoOne => sharers[i] = {}
    /\ \A t \in Thread : owner[0] = t <=> pc[t] \in TablePc
    /\ \A t \in Thread, i \in Locks :
          t \in sharers[i] <=> lock[t] = i /\ pc[t] \in SharePc
    /\ SweepInv

\* What a thread has in its variables.
ThreadInv(t) ==
    /\ handle[t] \in Handle \cup {0}
    /\ handle[t] # 0 => Usable(handle[t])
    /\ pc[t] \in SharePc \cup HoldPc \cup {"share"} => handle[t] # 0
    /\ pc[t] \in SharePc \cup {"share"} => lock[t] = LockOf(handle[t])
    /\ pc[t] \in HoldPc => (object[handle[t]] = "NULL" <=> pc[t] \in GivePc \cup FreePc)
    /\ pc[t] \in {"unlock", "clear"} => object[handle[t]] = "locked"
    /\ pc[t] \in {"pushFirst", "pushLast"} => next[handle[t]] = link[t]

\* No handle is in two hands.
HoldInv == \A t, u \in Thread :
    pc[t] \in HoldPc /\ pc[u] \in HoldPc /\ handle[t] = handle[u] => t = u

\* A page that is not yet in the list.
PageInv == \A t \in Thread : pc[t] \in GrowPc =>
    /\ pages > 1
    /\ \A h \in Page(pages - 1) : h # LastOfPage => next[h] = h + 1
    /\ pc[t] = "pushPage" => next[LastOfPage] = link[t]

ObjectInv == \A h \in Handle : object[h] # "NULL" => Usable(h)

\* The free handles are in lists, each in one; list says in which.
FreeInv(list) == \A h \in Handle : list[h] # "none" =>
    /\ Usable(h) /\ object[h] = "NULL"
    /\ \A t \in Thread : pc[t] \in HoldPc => handle[t] # h
    /\ next[h] # 0 => next[h] \in Handle /\ list[next[h]] = list[h]

HeadInv(list) ==
    /\ firstFree # 0 => firstFree \in Handle /\ list[firstFree] = "first"
    /\ lastFree # 0 => lastFree \in Handle /\ list[lastFree] = "last"
    /\ \A t \in Thread : pc[t] \in MovePc => link[t] \in Handle /\ list[link[t]] = "moving"

\* No two pointers lead to the same handle.
ApartInv(list) ==
    /\ \A h, g \in Handle :
          list[h] # "none" /\ list[g] # "none" /\ next[h] = next[g] /\ next[h] # 0 => h = g
    /\ \A h \in Handle : list[h] # "none" /\ next[h] # 0 =>
          /\ next[h] # firstFree /\ next[h] # lastFree
          /\ \A t \in Thread : pc[t] \in MovePc => next[h] # link[t]

ListInv(list) == FreeInv(list) /\ HeadInv(list) /\ ApartInv(list)

\* While a thread owns the lock of a handle that it has seen in front of
\* FirstFree, either the handle is still there, with the link that was read, or
\* it has left and cannot come back.
Taking(list, t) ==
    \/ list[handle[t]] = "first" /\ (pc[t] = "take" => next[handle[t]] = link[t])
    \/ list[handle[t]] = "last"
    \/ list[handle[t]] = "moving" /\ \A u \in Thread : pc[u] \in MovePc =>
                                        pc[u] # "moved" /\ lock[u] <= lock[t]
    \/ /\ list[handle[t]] = "none"
       /\ \A u \in Thread : pc[u] \in {"toFirst", "pushFirst"} => handle[u] # handle[t]

TakeInv(list) == \A t \in Thread : pc[t] \in {"next", "take"} => Taking(list, t)

Lists == {"none", "first", "last", "moving"}

InUse    == {h \in Handle : object[h] # "NULL"}
Counting == {t \in Thread : pc[t] \in {"write", "uncount"}}

IInv == /\ TableTypeOK
        /\ LockInv
        /\ \A t \in Thread : ThreadInv(t)
        /\ HoldInv
        /\ PageInv
        /\ ObjectInv
        /\ handleCount = Cardinality(InUse) + Cardinality(Counting)
        /\ \E list \in [Handle -> Lists] : ListInv(list) /\ TakeInv(list)

-----------------------------------------------------------------------------
(* Pages and handles *)

LEMMA Monotone ==
    ASSUME NEW a \in Int, NEW b \in Int, NEW c \in Nat, a <= b
    PROVE  a * c \in Int /\ b * c \in Int /\ a * c <= b * c
<1>1. (b - a) * c >= 0 /\ (b - a) * c = b * c - a * c
  OBVIOUS
<1>. QED  BY <1>1

LEMMA HandleIs ==
    ASSUME NEW h \in Handle
    PROVE  /\ h \in Nat /\ h # 0 /\ h # Access /\ LockOf(h) \in Locks
           /\ \E p \in 0 .. (MaxPages - 1) : h \in Page(p)
<1>1. PICK p \in 0 .. (MaxPages - 1) : h \in Page(p)
  BY DEF Handle
<1>2. p * PageEntries >= 0
  BY PageAssumption, Monotone
<1>3. h \in Int /\ h > 0
  BY <1>1, <1>2, PageAssumption DEF Page
<1>. QED  BY <1>1, <1>3 DEF Access, LockOf, Locks

\* The first and the last entry of a page, and those between.
LEMMA PageIs ==
    ASSUME NEW p \in Nat, p < MaxPages
    PROVE  /\ Page(p) \subseteq Handle
           /\ p * PageEntries \in Nat /\ (p + 1) * PageEntries = p * PageEntries + PageEntries
           /\ p * PageEntries + 1 \in Page(p) /\ (p + 1) * PageEntries - 1 \in Page(p)
           /\ \A h \in Page(p) : /\ h \in Int /\ p * PageEntries < h /\ h < (p + 1) * PageEntries
                                 /\ h + 1 \in Page(p) <=> h # (p + 1) * PageEntries - 1
                                 /\ h + 1 # p * PageEntries + 1
<1>1. p \in 0 .. (MaxPages - 1)
  BY PageAssumption
<1>2. p * PageEntries \in Nat /\ (p + 1) * PageEntries = p * PageEntries + PageEntries
  BY PageAssumption
<1>3. Page(p) \subseteq Handle
  BY <1>1 DEF Handle
<1>. QED  BY <1>2, <1>3, PageAssumption DEF Page

\* A handle below the end of a page is below its start or in it.
LEMMA BelowPage ==
    ASSUME NEW p \in Nat, NEW h \in Handle
    PROVE  h < (p + 1) * PageEntries <=> h < p * PageEntries \/ h \in Page(p)
<1>1. PICK q \in 0 .. (MaxPages - 1) : h \in Page(q)
  BY DEF Handle
<1>2. /\ q * PageEntries \in Int /\ p * PageEntries \in Int
      /\ (q + 1) * PageEntries = q * PageEntries + PageEntries
      /\ (p + 1) * PageEntries = p * PageEntries + PageEntries
  BY PageAssumption
<1>3. h \in Int /\ q * PageEntries < h /\ h < (q + 1) * PageEntries
  BY <1>1, <1>2, PageAssumption DEF Page
<1>4. CASE q < p
  <2>1. (q + 1) * PageEntries <= p * PageEntries
    BY <1>4, PageAssumption, Monotone
  <2>. QED  BY <1>2, <1>3, <2>1, PageAssumption
<1>5. CASE q = p
  BY <1>1, <1>2, <1>3, <1>5
<1>6. CASE q > p
  <2>1. (p + 1) * PageEntries <= q * PageEntries
    BY <1>6, PageAssumption, Monotone
  <2>. QED  BY <1>2, <1>3, <2>1, PageAssumption DEF Page
<1>. QED  BY <1>4, <1>5, <1>6

LEMMA HandlesFinite == IsFiniteSet(Handle)
<1>1. \A h \in Handle : h \in 1 .. (MaxPages * PageEntries)
  <2>. SUFFICES ASSUME NEW h \in Handle PROVE h \in 1 .. (MaxPages * PageEntries)
    OBVIOUS
  <2>1. PICK p \in 0 .. (MaxPages - 1) : h \in Page(p)
    BY DEF Handle
  <2>2. h \in Int /\ h <= (p + 1) * PageEntries - 1 /\ h >= 1
    BY <2>1, HandleIs, PageAssumption DEF Page
  <2>3. (p + 1) * PageEntries <= MaxPages * PageEntries
    BY PageAssumption, Monotone
  <2>. QED  BY <2>2, <2>3, PageAssumption
<1>2. 1 \in Int /\ MaxPages * PageEntries \in Int
  BY PageAssumption
<1>3. IsFiniteSet(1 .. (MaxPages * PageEntries))
  BY <1>2, FS_Interval, Zenon
<1>. QED  BY <1>1, <1>3, FS_Subset

-----------------------------------------------------------------------------
(* Frames *)

\* A step of t leaves the other threads where they are.
Others(t) == \A u \in Thread \ {t} :
    pc'[u] = pc[u] /\ handle'[u] = handle[u] /\ link'[u] = link[u] /\ lock'[u] = lock[u]

\* Pages come and go from the table under its lock only.
LEMMA UsableKept ==
    ASSUME NEW t \in Thread, Others(t), pages' = pages,
           pc'[t] \in GrowPc <=> pc[t] \in GrowPc
    PROVE  (Growing' <=> Growing) /\ \A h : Usable(h)' <=> Usable(h)
<1>1. Growing' <=> Growing
  BY DEF Growing, Others
<1>. QED  BY <1>1 DEF Usable

\* A thread knows what it knew.
LEMMA ThreadsKept ==
    ASSUME NEW t \in Thread, Others(t), \A u \in Thread : ThreadInv(u), ThreadInv(t)',
           \A h \in Handle : Usable(h) => Usable(h)',
           \A u \in Thread \ {t} : pc[u] \in HoldPc =>
              /\ object'[handle[u]] = object[handle[u]] /\ next'[handle[u]] = next[handle[u]]
    PROVE  \A u \in Thread : ThreadInv(u)'
<1>. SUFFICES ASSUME NEW u \in Thread, u # t PROVE ThreadInv(u)'
  OBVIOUS
<1>1. pc'[u] = pc[u] /\ handle'[u] = handle[u] /\ link'[u] = link[u] /\ lock'[u] = lock[u]
  BY DEF Others
<1>2. ThreadInv(u)
  OBVIOUS
<1>3. PICK h : h = handle[u] /\ h = handle'[u]
  BY <1>1
<1>4. h # 0 => Usable(h)'
  BY <1>2, <1>3 DEF ThreadInv
<1>5. handle'[u] # 0 => Usable(handle[u])'
  BY <1>3, <1>4 DEF Usable
<1>. QED  BY <1>1, <1>2, <1>5 DEF ThreadInv, HoldPc, FreePc

\* The handles in hands stay there.
LEMMA HoldKept ==
    ASSUME NEW t \in Thread, Others(t), HoldInv,
           pc'[t] \in HoldPc => pc[t] \in HoldPc /\ handle'[t] = handle[t]
    PROVE  HoldInv'
BY DEF HoldInv, Others

\* A step that changes neither the lists, nor what is in hands, nor the table.
LEMMA StepKeepsIInv ==
    ASSUME IInv, NEW t \in Thread, Others(t), TableTypeOK', LockInv', ThreadInv(t)',
           UNCHANGED <<firstFree, lastFree, next, object, pages, handleCount>>,
           pc'[t] \in GrowPc <=> pc[t] \in GrowPc,
           pc'[t] = "pushPage" => next[LastOfPage] = link'[t],
           pc'[t] \in HoldPc => pc[t] \in HoldPc /\ handle'[t] = handle[t],
           t \in Counting' <=> t \in Counting,
           pc'[t] \in MovePc => pc[t] \in MovePc /\ link'[t] = link[t],
           pc'[t] \in {"toFirst", "pushFirst"} =>
              \/ pc[t] \in {"toFirst", "pushFirst"}
              \/ \A u \in Thread : pc[u] \in {"next", "take"} => handle[u] # handle[t],
           \A u \in Thread : pc'[t] \in MovePc /\ pc[u] \in {"next", "take"}
                                /\ pc[t] # "moved" /\ lock[t] <= lock[u]
                             => pc'[t] # "moved" /\ lock'[t] <= lock[u],
           \A list \in [Handle -> Lists] : ListInv(list) /\ TakeInv(list)
              /\ pc'[t] \in {"next", "take"} => Taking(list, t)'
    PROVE  IInv'
<1>0. /\ TableTypeOK /\ LockInv /\ (\A u \in Thread : ThreadInv(u)) /\ HoldInv /\ PageInv /\ ObjectInv
      /\ handleCount = Cardinality(InUse) + Cardinality(Counting)
  BY DEF IInv
<1>1. \A h : Usable(h)' <=> Usable(h)
  BY UsableKept
<1>2. \A u \in Thread : ThreadInv(u)'
  BY <1>0, <1>1, ThreadsKept
<1>3. HoldInv'
  BY <1>0, HoldKept
<1>4. PageInv'
  <2>. SUFFICES ASSUME NEW u \in Thread, pc'[u] \in GrowPc
       PROVE  /\ pages > 1
              /\ \A h \in Page(pages - 1) : h # LastOfPage => next[h] = h + 1
              /\ pc'[u] = "pushPage" => next[LastOfPage] = link'[u]
    BY DEF PageInv, LastOfPage
  <2>1. pc[u] \in GrowPc
    BY DEF Others
  <2>. QED  BY <1>0, <2>1 DEF PageInv, Others
<1>5. ObjectInv'
  BY <1>0, <1>1 DEF ObjectInv
<1>6. InUse' = InUse /\ Counting' = Counting
  BY DEF InUse, Counting, Others
<1>7. PICK list \in [Handle -> Lists] : ListInv(list) /\ TakeInv(list)
  BY DEF IInv
<1>8. ListInv(list)'
  <2>1. \A u \in Thread : /\ pc'[u] \in HoldPc => pc[u] \in HoldPc /\ handle'[u] = handle[u]
                          /\ pc'[u] \in MovePc => pc[u] \in MovePc /\ link'[u] = link[u]
    BY DEF Others
  <2>. QED  BY <1>1, <1>7, <2>1 DEF ListInv, FreeInv, HeadInv, ApartInv
<1>9. TakeInv(list)'
  <2>. SUFFICES ASSUME NEW u \in Thread, pc'[u] \in {"next", "take"}, u # t PROVE Taking(list, u)'
    BY <1>7 DEF TakeInv
  <2>0. /\ pc[u] \in {"next", "take"} /\ Taking(list, u)
        /\ pc'[u] = pc[u] /\ handle'[u] = handle[u] /\ link'[u] = link[u] /\ lock'[u] = lock[u]
    BY <1>7 DEF Others, TakeInv
  <2>1. ASSUME NEW v \in Thread, pc'[v] \in MovePc,
               pc[v] \in MovePc => pc[v] # "moved" /\ lock[v] <= lock[u]
        PROVE  pc'[v] # "moved" /\ lock'[v] <= lock[u]
    BY <2>0, <2>1 DEF Others
  <2>2. ASSUME NEW v \in Thread, pc'[v] \in {"toFirst", "pushFirst"},
               pc[v] \in {"toFirst", "pushFirst"} => handle[v] # handle[u]
        PROVE  handle'[v] # handle[u]
    <3>1. pc'[t] \in {"toFirst", "pushFirst"} => handle'[t] = handle[t]
      BY DEF HoldPc, FreePc
    <3>. QED  BY <2>0, <2>2, <3>1 DEF Others
  <2>. QED  BY <2>0, <2>1, <2>2 DEF Taking
<1>. QED  BY <1>0, <1>2, <1>3, <1>4, <1>5, <1>6, <1>7, <1>8, <1>9 DEF IInv

LEMMA LockKept ==
    ASSUME NEW t \in Thread, Others(t), LockInv, UNCHANGED <<sharers, owner>>,
           pc'[t] \in TablePc <=> pc[t] \in TablePc,
           pc'[t] \in SharePc <=> pc[t] \in SharePc,
           pc'[t] \in SharePc => lock'[t] = lock[t],
           pc'[t] \in WaitPc => lock'[t] # 0, pc'[t] # "waitRelease"
    PROVE  LockInv'
<1>1. \A i \in Locks : owner'[i] # NoOne => sharers'[i] = {}
  BY DEF LockInv
<1>2. \A u \in Thread : owner'[0] = u <=> pc'[u] \in TablePc
  BY DEF LockInv, Others
<1>3. \A u \in Thread, i \in Locks : u \in sharers'[i] <=> lock'[u] = i /\ pc'[u] \in SharePc
  BY DEF LockInv, Others
<1>4. SweepInv'
  BY DEF LockInv, SweepInv, Others
<1>. QED  BY <1>1, <1>2, <1>3, <1>4 DEF LockInv

LEMMA Typed ==
    ASSUME IInv
    PROVE  /\ pc \in [Thread -> Pc] /\ handle \in [Thread -> Link] /\ link \in [Thread -> Link]
           /\ lock \in [Thread -> Locks] /\ next \in [Handle -> Link]
           /\ object \in [Handle -> {"NULL", "locked", "unlocked"}]
           /\ sharers \in [Locks -> SUBSET Thread] /\ owner \in [Locks -> Thread \cup {NoOne}]
           /\ pages \in 1 .. MaxPages /\ handleCount \in Int
BY DEF IInv, TableTypeOK

\* What is in front of a list is free.
LEMMA HeadIs ==
    ASSUME IInv
    PROVE  \A h \in {firstFree, lastFree} :
              /\ h \in Handle \cup {0}
              /\ h # 0 => /\ Usable(h) /\ object[h] = "NULL"
                          /\ \A t \in Thread : pc[t] \in HoldPc => handle[t] # h
<1>1. PICK list \in [Handle -> Lists] : ListInv(list)
  BY DEF IInv
<1>. QED  BY <1>1 DEF ListInv, FreeInv, HeadInv, ApartInv

\* So is what a thread moves to FirstFree.
LEMMA MovedIs ==
    ASSUME IInv, NEW t \in Thread, pc[t] \in MovePc
    PROVE  link[t] \in Handle /\ Usable(link[t])
<1>1. PICK list \in [Handle -> Lists] : ListInv(list)
  BY DEF IInv
<1>. QED  BY <1>1 DEF ListInv, FreeInv, HeadInv, ApartInv

\* Allocation goes on with a handle from the front of the list.
LEMMA ContinueMeans ==
    ASSUME IInv, NEW t \in Thread, NEW h \in Handle \cup {0}, h # 0 => Usable(h), Continue(t, h),
           link' \in [Thread -> Link], \A u \in Thread \ {t} : link'[u] = link[u],
           pages' = pages, pc[t] \notin GrowPc
    PROVE  /\ pc'[t] \in {"empty", "share"} /\ handle'[t] = h /\ Others(t) /\ ThreadInv(t)'
           /\ pc' \in [Thread -> Pc] /\ handle' \in [Thread -> Link] /\ lock' \in [Thread -> Locks]
<1>1. h # 0 => LockOf(h) \in Locks
  BY HandleIs
<1>2. /\ pc'[t] = (IF h = 0 THEN "empty" ELSE "share") /\ handle'[t] = h
      /\ h # 0 => lock'[t] = LockOf(h)
      /\ pc' \in [Thread -> Pc] /\ handle' \in [Thread -> Link] /\ lock' \in [Thread -> Locks]
      /\ Others(t)
  BY <1>1, Typed DEF Continue, Goto, SetHandle, SetLock, Others, Pc, Link
<1>3. Usable(h)' <=> Usable(h)
  BY <1>2, UsableKept DEF GrowPc
<1>4. h # 0 => Usable(handle[t])'
  BY <1>2, <1>3 DEF Usable
<1>5. pc'[t] \notin SharePc \cup HoldPc \cup {"pushFirst", "pushLast"}
  BY <1>2 DEF SharePc, HoldPc, GivePc, FreePc
<1>. QED  BY <1>2, <1>4, <1>5 DEF ThreadInv, HoldPc

LEMMA ReadFirstKeepsIInv == ASSUME IInv, NEW t \in Thread, ReadFirst(t) PROVE IInv'
<1>0. pc[t] \in {"idle", "retry"} /\ Continue(t, firstFree)
      /\ UNCHANGED <<firstFree, lastFree, next, object, pages, handleCount, sharers, owner, link>>
  BY DEF ReadFirst, tableVars, listVars, lockVars
<1>1. /\ pc'[t] \in {"empty", "share"} /\ Others(t) /\ ThreadInv(t)'
      /\ pc' \in [Thread -> Pc] /\ handle' \in [Thread -> Link] /\ lock' \in [Thread -> Locks]
  BY <1>0, HeadIs, ContinueMeans, Typed DEF GrowPc
<1>2. TableTypeOK'
  BY <1>0, <1>1 DEF IInv, TableTypeOK
<1>3. LockInv'
  BY <1>0, <1>1, LockKept DEF IInv, TablePc, SharePc, WaitPc
<1>. QED
  BY <1>0, <1>1, <1>2, <1>3, StepKeepsIInv
     DEF GrowPc, HoldPc, GivePc, FreePc, MovePc, WaitPc, Counting

LEMMA LockTableKeepsIInv == ASSUME IInv, NEW t \in Thread, LockTable(t) PROVE IInv'
<1>0. /\ pc[t] = "empty" /\ pc' = [pc EXCEPT ![t] = "recheck"]
      /\ owner' = [owner EXCEPT ![0] = t] /\ sharers[0] = {} /\ owner[0] = NoOne
      /\ UNCHANGED <<firstFree, lastFree, next, object, pages, handleCount, sharers, handle, link, lock>>
  BY DEF LockTable, listVars, localVars, Free, Locked, Own, Goto
<1>1. pc'[t] = "recheck" /\ Others(t)
  BY <1>0, Typed DEF Others
<1>2. TableTypeOK'
  BY <1>0 DEF IInv, TableTypeOK, Pc, Locks
<1>3. LockInv'
  <2>1. owner'[0] = t /\ \A i \in Locks \ {0} : owner'[i] = owner[i]
    BY <1>0, Typed DEF Locks
  <2>2. \A i \in Locks : owner'[i] # NoOne => sharers'[i] = {}
    BY <1>0, <2>1 DEF IInv, LockInv
  <2>3. \A u \in Thread : owner'[0] = u <=> pc'[u] \in TablePc
    BY <1>0, <1>1, <2>1, NoOneAssumption DEF IInv, LockInv, Others, TablePc
  <2>4. \A u \in Thread, i \in Locks : u \in sharers'[i] <=> lock'[u] = i /\ pc'[u] \in SharePc
    BY <1>0, <1>1 DEF IInv, LockInv, Others, SharePc
  <2>5. SweepInv'
    BY <1>0, <1>1, <2>1, Typed DEF IInv, LockInv, SweepInv, Others, WaitPc
  <2>. QED  BY <2>2, <2>3, <2>4, <2>5 DEF LockInv
<1>4. ThreadInv(t)'
  <2>1. \A h : Usable(h)' <=> Usable(h)
    BY <1>0, <1>1, UsableKept DEF GrowPc
  <2>. QED  BY <1>0, <1>1, <2>1 DEF IInv, ThreadInv, Usable, HoldPc, GivePc, FreePc, SharePc
<1>. QED
  BY <1>0, <1>1, <1>2, <1>3, <1>4, StepKeepsIInv
     DEF GrowPc, HoldPc, GivePc, FreePc, MovePc, WaitPc, Counting

\* A thread that has no handle in its hands and owns no lock of one.
LEMMA PlainThread ==
    ASSUME NEW t \in Thread, Others(t), pages' = pages,
           pc'[t] \in GrowPc <=> pc[t] \in GrowPc,
           NEW h \in Handle \cup {0}, h # 0 => Usable(h), handle'[t] = h,
           pc'[t] \notin SharePc \cup HoldPc \cup {"share"}
    PROVE  ThreadInv(t)'
<1>1. Usable(h)' <=> Usable(h)
  BY UsableKept
<1>2. h # 0 => Usable(handle[t])'
  BY <1>1 DEF Usable
<1>. QED  BY <1>2 DEF ThreadInv, HoldPc, FreePc

LEMMA RecheckKeepsIInv == ASSUME IInv, NEW t \in Thread, Recheck(t) PROVE IInv'
<1>0. /\ pc[t] = "recheck" /\ handle' = [handle EXCEPT ![t] = firstFree]
      /\ \E p \in {"unlock0", "move"} : pc' = [pc EXCEPT ![t] = p]
      /\ UNCHANGED <<firstFree, lastFree, next, object, pages, handleCount, sharers, owner, link, lock>>
  BY DEF Recheck, tableVars, listVars, lockVars, SetHandle, Goto
<1>1. pc'[t] \in {"unlock0", "move"} /\ handle'[t] = firstFree /\ Others(t)
  BY <1>0, Typed DEF Others
<1>2. TableTypeOK'
  BY <1>0 DEF IInv, TableTypeOK, Pc
<1>3. LockInv'
  BY <1>0, <1>1, LockKept DEF IInv, TablePc, SharePc, WaitPc
<1>4. ThreadInv(t)'
  BY <1>0, <1>1, HeadIs, PlainThread DEF GrowPc, SharePc, HoldPc, GivePc, FreePc
<1>. QED
  BY <1>0, <1>1, <1>2, <1>3, <1>4, StepKeepsIInv
     DEF GrowPc, HoldPc, GivePc, FreePc, MovePc, WaitPc, Counting

LEMMA SweepIs ==
    ASSUME IInv, NEW t \in Thread, pc[t] \in WaitPc
    PROVE  /\ lock[t] \in Locks /\ lock[t] # 0
           /\ pc[t] = "waitRelease" => sharers[lock[t]] = {}
<1>1. LockInv /\ SweepInv
  BY DEF IInv, LockInv
<1>2. lock[t] \in Locks
  BY Typed
<1>3. lock[t] # 0 /\ (pc[t] = "waitRelease" => owner[lock[t]] = t)
  BY <1>1 DEF SweepInv
<1>4. \A i \in Locks : owner[i] # NoOne => sharers[i] = {}
  BY <1>1 DEF LockInv
<1>. QED  BY <1>2, <1>3, <1>4, NoOneAssumption

\* Nobody who has the lock of a handle is at its index when the sweep passes it.
LEMMA SweepKeepsIInv ==
    ASSUME IInv, NEW t \in Thread, pc[t] \in WaitPc, Others(t), TableTypeOK', LockInv',
           UNCHANGED <<firstFree, lastFree, next, object, pages, handleCount, handle, link>>,
           \/ pc'[t] \in WaitPc /\ lock'[t] = lock[t]
           \/ sharers[lock[t]] = {} /\ lock[t] # 3 /\ pc'[t] \in WaitPc /\ lock'[t] = lock[t] + 1
           \/ sharers[lock[t]] = {} /\ lock[t] = 3 /\ pc'[t] = "moved"
    PROVE  IInv'
<1>1. lock[t] \in Locks /\ \A u \in Thread : lock[u] \in Locks
  BY Typed
<1>2. \A u \in Thread : pc[u] \in {"next", "take"} => u \in sharers[lock[u]]
  BY <1>1 DEF IInv, LockInv, SharePc
<1>3. ASSUME NEW u \in Thread, pc[u] \in {"next", "take"}, lock[t] <= lock[u]
      PROVE  pc'[t] # "moved" /\ lock'[t] <= lock[u]
  <2>1. pc'[t] \in WaitPc => pc'[t] # "moved"
    BY DEF WaitPc
  <2>2. sharers[lock[t]] = {} => lock[u] # lock[t]
    BY <1>2, <1>3
  <2>. QED  BY <1>1, <1>3, <2>1, <2>2 DEF Locks
<1>4. pc'[t] \in MovePc
  BY DEF MovePc
<1>5. pc'[t] \notin GrowPc /\ pc[t] \notin GrowPc /\ pc'[t] \notin SharePc \cup HoldPc \cup {"share"}
  BY DEF WaitPc, GrowPc, SharePc, HoldPc, GivePc, FreePc
<1>6. ThreadInv(t)'
  BY <1>5, PlainThread DEF IInv, ThreadInv
<1>. QED
  BY <1>3, <1>4, <1>5, <1>6, StepKeepsIInv
     DEF GrowPc, HoldPc, GivePc, FreePc, MovePc, WaitPc, Counting

LEMMA WaitOnKeepsIInv == ASSUME IInv, NEW t \in Thread, WaitOn(t) PROVE IInv'
<1>0. /\ pc[t] = "waitOn"
      /\ UNCHANGED <<firstFree, lastFree, next, object, pages, handleCount, sharers, owner, handle, link>>
      /\ \/ Locked(lock[t]) /\ pc' = [pc EXCEPT ![t] = "waitAcquire"] /\ lock' = lock
         \/ /\ Free(lock[t]) /\ lock[t] # 3 /\ pc' = [pc EXCEPT ![t] = "waitOn"]
            /\ lock' = [lock EXCEPT ![t] = lock[t] + 1]
         \/ /\ Free(lock[t]) /\ lock[t] = 3 /\ pc' = [pc EXCEPT ![t] = "moved"]
            /\ lock' = [lock EXCEPT ![t] = 0]
  BY DEF WaitOn, NextLock, tableVars, listVars, lockVars, SetLock, Goto
<1>1. lock[t] \in Locks /\ lock[t] # 0
  BY <1>0, SweepIs DEF WaitPc
<1>2. /\ Others(t) /\ pc'[t] \in MovePc
      /\ \/ pc'[t] \in WaitPc /\ lock'[t] = lock[t]
         \/ sharers[lock[t]] = {} /\ lock[t] # 3 /\ pc'[t] \in WaitPc /\ lock'[t] = lock[t] + 1
         \/ sharers[lock[t]] = {} /\ lock[t] = 3 /\ pc'[t] = "moved"
  BY <1>0, Typed DEF Others, WaitPc, MovePc, Free, Locked
<1>3. lock' \in [Thread -> Locks] /\ pc' \in [Thread -> Pc]
  BY <1>0, <1>1, Typed DEF Locks, Pc
<1>4. TableTypeOK'
  BY <1>0, <1>3 DEF IInv, TableTypeOK
<1>5. pc'[t] \in WaitPc => lock'[t] # 0
  BY <1>1, <1>2 DEF WaitPc, Locks
<1>6. LockInv'
  <2>1. pc'[t] \in {"waitAcquire", "waitOn", "moved"}
    BY <1>0, Typed
  <2>. QED  BY <1>0, <1>2, <1>5, <2>1, LockKept DEF IInv, TablePc, SharePc
<1>7. pc[t] \in WaitPc
  BY <1>0 DEF WaitPc
<1>. QED  BY <1>0, <1>2, <1>4, <1>6, <1>7, SweepKeepsIInv

LEMMA WaitAcquireKeepsIInv == ASSUME IInv, NEW t \in Thread, WaitAcquire(t) PROVE IInv'
<1>0. /\ pc[t] = "waitAcquire" /\ pc' = [pc EXCEPT ![t] = "waitRelease"]
      /\ owner' = [owner EXCEPT ![lock[t]] = t] /\ sharers[lock[t]] = {}
      /\ UNCHANGED <<firstFree, lastFree, next, object, pages, handleCount, sharers, handle, link, lock>>
  BY DEF WaitAcquire, listVars, localVars, Free, Locked, Own, Goto
<1>1. pc'[t] = "waitRelease" /\ Others(t)
  BY <1>0, Typed DEF Others
<1>2. TableTypeOK'
  BY <1>0 DEF IInv, TableTypeOK, Pc
<1>3. LockInv'
  <2>0. lock[t] \in Locks /\ lock[t] # 0
    BY <1>0, SweepIs DEF WaitPc
  <2>1. owner'[lock[t]] = t /\ \A i \in Locks \ {lock[t]} : owner'[i] = owner[i]
    BY <1>0, <2>0, Typed
  <2>2. \A i \in Locks : owner'[i] # NoOne => sharers'[i] = {}
    BY <1>0, <2>1 DEF IInv, LockInv
  <2>3. \A u \in Thread : owner'[0] = u <=> pc'[u] \in TablePc
    BY <1>0, <1>1, <2>0, <2>1 DEF IInv, LockInv, Others, TablePc, Locks
  <2>4. \A u \in Thread, i \in Locks : u \in sharers'[i] <=> lock'[u] = i /\ pc'[u] \in SharePc
    BY <1>0, <1>1 DEF IInv, LockInv, Others, SharePc
  <2>6. \A u \in Thread \ {t} : pc[u] # "waitRelease"
    BY <1>0 DEF IInv, LockInv, TablePc
  <2>5. SweepInv'
    BY <1>0, <1>1, <2>0, <2>1, <2>6 DEF IInv, LockInv, SweepInv, Others, WaitPc
  <2>. QED  BY <2>2, <2>3, <2>4, <2>5 DEF LockInv
<1>4. pc[t] \in WaitPc /\ pc'[t] \in WaitPc
  BY <1>0, <1>1 DEF WaitPc
<1>. QED  BY <1>0, <1>1, <1>2, <1>3, <1>4, SweepKeepsIInv

LEMMA WaitReleaseKeepsIInv == ASSUME IInv, NEW t \in Thread, WaitRelease(t) PROVE IInv'
<1>0. /\ pc[t] = "waitRelease" /\ owner' = [owner EXCEPT ![lock[t]] = NoOne]
      /\ UNCHANGED <<firstFree, lastFree, next, object, pages, handleCount, sharers, handle, link>>
      /\ \/ /\ lock[t] # 3 /\ pc' = [pc EXCEPT ![t] = "waitOn"]
            /\ lock' = [lock EXCEPT ![t] = lock[t] + 1]
         \/ /\ lock[t] = 3 /\ pc' = [pc EXCEPT ![t] = "moved"]
            /\ lock' = [lock EXCEPT ![t] = 0]
  BY DEF WaitRelease, NextLock, Disown, listVars, SetLock, Goto
<1>1. lock[t] \in Locks /\ lock[t] # 0 /\ sharers[lock[t]] = {}
  BY <1>0, SweepIs DEF WaitPc
<1>2. /\ Others(t) /\ pc'[t] \in {"waitOn", "moved"}
      /\ \/ lock[t] # 3 /\ pc'[t] = "waitOn" /\ lock'[t] = lock[t] + 1
         \/ lock[t] = 3 /\ pc'[t] = "moved"
  BY <1>0, Typed DEF Others
<1>3. lock' \in [Thread -> Locks] /\ pc' \in [Thread -> Pc]
  BY <1>0, <1>1, Typed DEF Locks, Pc
<1>4. TableTypeOK'
  BY <1>0, <1>3 DEF IInv, TableTypeOK
<1>5. LockInv'
  <2>1. owner'[lock[t]] = NoOne /\ \A i \in Locks \ {lock[t]} : owner'[i] = owner[i]
    BY <1>0, <1>1, Typed
  <2>2. \A i \in Locks : owner'[i] # NoOne => sharers'[i] = {}
    BY <1>0, <2>1 DEF IInv, LockInv
  <2>3. \A u \in Thread : owner'[0] = u <=> pc'[u] \in TablePc
    BY <1>0, <1>1, <1>2, <2>1 DEF IInv, LockInv, Others, TablePc, Locks
  <2>4. \A u \in Thread, i \in Locks : u \in sharers'[i] <=> lock'[u] = i /\ pc'[u] \in SharePc
    BY <1>0, <1>2 DEF IInv, LockInv, Others, SharePc
  <2>6. \A u \in Thread \ {t} : pc[u] # "waitRelease"
    BY <1>0 DEF IInv, LockInv, TablePc
  <2>5. SweepInv'
    BY <1>0, <1>1, <1>2, <2>1, <2>6, Typed DEF IInv, LockInv, SweepInv, Others, WaitPc, Locks
  <2>. QED  BY <2>2, <2>3, <2>4, <2>5 DEF LockInv
<1>6. pc[t] \in WaitPc /\ "waitOn" \in WaitPc
  BY <1>0 DEF WaitPc
<1>. QED  BY <1>0, <1>1, <1>2, <1>4, <1>5, <1>6, SweepKeepsIInv

\* A thread that returns to its caller.
LEMMA ReturnMeans ==
    ASSUME IInv, NEW t \in Thread, Return(t)
    PROVE  /\ pc'[t] = "idle" /\ handle'[t] = 0 /\ Others(t)
           /\ pc' \in [Thread -> Pc] /\ handle' \in [Thread -> Link]
           /\ link' \in [Thread -> Link] /\ lock' \in [Thread -> Locks]
BY Typed DEF Return, Goto, SetHandle, SetLink, SetLock, Others, Pc, Link, Locks

LEMMA UnlockTableKeepsIInv == ASSUME IInv, NEW t \in Thread, UnlockTable(t) PROVE IInv'
<1>0. /\ pc[t] \in {"unlock0", "unlockFailed"} /\ owner' = [owner EXCEPT ![0] = NoOne]
      /\ link' = [link EXCEPT ![t] = 0]
      /\ UNCHANGED <<firstFree, lastFree, next, object, pages, handleCount, sharers>>
  BY DEF UnlockTable, Disown, SetLink, listVars
<1>1. /\ pc'[t] \in {"empty", "share", "retry", "failed"} /\ Others(t) /\ ThreadInv(t)'
      /\ pc' \in [Thread -> Pc] /\ handle' \in [Thread -> Link] /\ lock' \in [Thread -> Locks]
  <2>0. link' \in [Thread -> Link] /\ \A u \in Thread \ {t} : link'[u] = link[u]
    BY <1>0, Typed DEF Link
  <2>1. handle[t] \in Handle \cup {0} /\ (handle[t] # 0 => Usable(handle[t]))
    BY DEF IInv, ThreadInv
  <2>2. CASE handle[t] # 0 /\ Continue(t, handle[t])
    BY <1>0, <2>0, <2>1, <2>2, ContinueMeans DEF GrowPc
  <2>3. CASE handle[t] = 0 /\ Goto(t, IF pc[t] = "unlock0" THEN "retry" ELSE "failed")
             /\ UNCHANGED <<handle, lock>>
    <3>1. /\ pc'[t] \in {"retry", "failed"} /\ Others(t) /\ handle'[t] = 0
          /\ pc' \in [Thread -> Pc] /\ handle' \in [Thread -> Link] /\ lock' \in [Thread -> Locks]
      BY <1>0, <2>0, <2>3, Typed DEF Goto, Others, Pc
    <3>2. ThreadInv(t)'
      BY <1>0, <3>1, PlainThread DEF GrowPc, SharePc, HoldPc, GivePc, FreePc
    <3>. QED  BY <3>1, <3>2
  <2>. QED  BY <2>2, <2>3 DEF UnlockTable
<1>2. TableTypeOK'
  BY <1>0, <1>1 DEF IInv, TableTypeOK, Link
<1>3. LockInv'
  <2>0. owner[0] = t /\ LockInv /\ SweepInv
    BY <1>0 DEF IInv, LockInv, TablePc
  <2>1. owner'[0] = NoOne /\ \A i \in Locks \ {0} : owner'[i] = owner[i]
    BY <1>0, Typed DEF Locks
  <2>2. \A i \in Locks : owner'[i] # NoOne => sharers'[i] = {}
    BY <1>0, <2>1 DEF IInv, LockInv
  <2>3. \A u \in Thread : owner'[0] = u <=> pc'[u] \in TablePc
    BY <1>1, <2>0, <2>1, NoOneAssumption DEF LockInv, Others, TablePc
  <2>4. \A u \in Thread, i \in Locks : u \in sharers'[i] <=> lock'[u] = i /\ pc'[u] \in SharePc
    BY <1>0, <1>1 DEF IInv, LockInv, Others, SharePc
  <2>5. SweepInv'
    BY <1>1, <2>0, <2>1, Typed DEF SweepInv, Others, WaitPc
  <2>. QED  BY <2>2, <2>3, <2>4, <2>5 DEF LockInv
<1>. QED
  BY <1>0, <1>1, <1>2, <1>3, StepKeepsIInv
     DEF GrowPc, HoldPc, GivePc, FreePc, MovePc, WaitPc, Counting

LEMMA FailedKeepsIInv == ASSUME IInv, NEW t \in Thread, Failed(t) PROVE IInv'
<1>0. /\ pc[t] = "failed"
      /\ UNCHANGED <<firstFree, lastFree, next, object, pages, handleCount, sharers, owner>>
  BY DEF Failed, tableVars, listVars, lockVars
<1>1. /\ pc'[t] \in {"empty", "share", "idle"} /\ Others(t) /\ ThreadInv(t)'
      /\ pc' \in [Thread -> Pc] /\ handle' \in [Thread -> Link] /\ lock' \in [Thread -> Locks]
      /\ link' \in [Thread -> Link]
  <2>1. CASE Return(t)
    <3>1. ThreadInv(t)'
      BY <1>0, <2>1, ReturnMeans, PlainThread DEF GrowPc, SharePc, HoldPc, GivePc, FreePc
    <3>. QED  BY <2>1, <3>1, ReturnMeans
  <2>2. CASE Continue(t, firstFree) /\ UNCHANGED link
    BY <1>0, <2>2, HeadIs, ContinueMeans, Typed DEF GrowPc
  <2>. QED  BY <2>1, <2>2 DEF Failed
<1>2. TableTypeOK'
  BY <1>0, <1>1 DEF IInv, TableTypeOK
<1>3. LockInv'
  BY <1>0, <1>1, LockKept DEF IInv, TablePc, SharePc, WaitPc
<1>. QED
  BY <1>0, <1>1, <1>2, <1>3, StepKeepsIInv
     DEF GrowPc, HoldPc, GivePc, FreePc, MovePc, WaitPc, Counting

\* The thread keeps its variables, and what it knows of its handle.
LEMMA SameThread ==
    ASSUME IInv, NEW t \in Thread, Others(t), UNCHANGED <<pages, object, next, handle, lock>>,
           pc[t] \notin GrowPc, pc'[t] \notin GrowPc,
           pc'[t] \in SharePc \cup {"share"} => pc[t] \in SharePc \cup {"share"},
           pc'[t] \in GivePc \cup FreePc => pc[t] \in GivePc \cup FreePc,
           pc'[t] \notin {"unlock", "clear", "pushFirst", "pushLast"}
    PROVE  ThreadInv(t)'
<1>0. ThreadInv(t)
  BY DEF IInv
<1>1. \A h : Usable(h)' <=> Usable(h)
  BY UsableKept
<1>2. handle'[t] # 0 => Usable(handle[t])'
  <2>1. PICK h : h = handle[t] /\ h = handle'[t]
    OBVIOUS
  <2>2. h # 0 => Usable(h)'
    BY <1>0, <1>1, <2>1 DEF ThreadInv
  <2>. QED  BY <2>1, <2>2 DEF Usable
<1>. QED  BY <1>0, <1>2 DEF ThreadInv, HoldPc

LEMMA ShareKeepsIInv == ASSUME IInv, NEW t \in Thread, Share(t) PROVE IInv'
<1>0. /\ pc[t] = "share" /\ pc' = [pc EXCEPT ![t] = "check"] /\ owner[lock[t]] = NoOne
      /\ sharers' = [sharers EXCEPT ![lock[t]] = sharers[lock[t]] \cup {t}]
      /\ UNCHANGED <<firstFree, lastFree, next, object, pages, handleCount, owner, handle, link, lock>>
  BY DEF Share, listVars, localVars, Goto
<1>1. pc'[t] = "check" /\ Others(t)
  BY <1>0, Typed DEF Others
<1>2. TableTypeOK'
  BY <1>0 DEF IInv, TableTypeOK, Pc
<1>3. LockInv'
  <2>0. lock[t] \in Locks
    BY Typed
  <2>1. /\ sharers'[lock[t]] = sharers[lock[t]] \cup {t}
        /\ \A i \in Locks \ {lock[t]} : sharers'[i] = sharers[i]
    BY <1>0, <2>0, Typed
  <2>2. \A i \in Locks : owner'[i] # NoOne => sharers'[i] = {}
    BY <1>0, <2>1 DEF IInv, LockInv
  <2>3. \A u \in Thread : owner'[0] = u <=> pc'[u] \in TablePc
    BY <1>0, <1>1 DEF IInv, LockInv, Others, TablePc
  <2>4. \A u \in Thread, i \in Locks : u \in sharers'[i] <=> lock'[u] = i /\ pc'[u] \in SharePc
    BY <1>0, <1>1, <2>0, <2>1 DEF IInv, LockInv, Others, SharePc
  <2>5. SweepInv'
    BY <1>0, <1>1 DEF IInv, LockInv, SweepInv, Others, WaitPc
  <2>. QED  BY <2>2, <2>3, <2>4, <2>5 DEF LockInv
<1>4. ThreadInv(t)'
  BY <1>0, <1>1, SameThread DEF GrowPc, SharePc, GivePc, FreePc
<1>. QED
  BY <1>0, <1>1, <1>2, <1>3, <1>4, StepKeepsIInv
     DEF GrowPc, HoldPc, GivePc, FreePc, MovePc, WaitPc, Counting

LEMMA CheckKeepsIInv == ASSUME IInv, NEW t \in Thread, Check(t) PROVE IInv'
<1>0. /\ pc[t] = "check"
      /\ \/ pc' = [pc EXCEPT ![t] = "unshareRetry"]
         \/ pc' = [pc EXCEPT ![t] = "next"] /\ handle[t] = firstFree
      /\ UNCHANGED <<firstFree, lastFree, next, object, pages, handleCount, sharers, owner,
                     handle, link, lock>>
  BY DEF Check, Changed, tableVars, listVars, lockVars, localVars, Goto
<1>1. /\ pc'[t] \in {"unshareRetry", "next"} /\ Others(t)
      /\ pc'[t] = "next" => handle[t] = firstFree
  BY <1>0, Typed DEF Others
<1>2. TableTypeOK'
  BY <1>0 DEF IInv, TableTypeOK, Pc
<1>3. LockInv'
  BY <1>0, <1>1, LockKept DEF IInv, TablePc, SharePc, WaitPc
<1>4. ThreadInv(t)'
  BY <1>0, <1>1, SameThread DEF GrowPc, SharePc, GivePc, FreePc
<1>5. ASSUME NEW list \in [Handle -> Lists], ListInv(list), pc'[t] \in {"next", "take"}
      PROVE  Taking(list, t)'
  <2>1. handle[t] = firstFree /\ firstFree # 0
    BY <1>0, <1>1, <1>5 DEF IInv, ThreadInv, SharePc
  <2>. QED  BY <1>0, <1>1, <1>5, <2>1 DEF ListInv, FreeInv, HeadInv, ApartInv, Taking
<1>. QED
  BY <1>0, <1>1, <1>2, <1>3, <1>4, <1>5, StepKeepsIInv
     DEF GrowPc, HoldPc, GivePc, FreePc, MovePc, WaitPc, Counting

LEMMA ReadNextKeepsIInv == ASSUME IInv, NEW t \in Thread, ReadNext(t) PROVE IInv'
<1>0. /\ pc[t] = "next" /\ pc' = [pc EXCEPT ![t] = "take"] /\ handle[t] \in Handle
      /\ link' = [link EXCEPT ![t] = next[handle[t]]]
      /\ UNCHANGED <<firstFree, lastFree, next, object, pages, handleCount, sharers, owner,
                     handle, lock>>
  BY DEF ReadNext, tableVars, listVars, lockVars, Goto, SetLink
<1>1. pc'[t] = "take" /\ link'[t] = next[handle[t]] /\ Others(t)
  BY <1>0, Typed DEF Others
<1>2. TableTypeOK'
  BY <1>0 DEF IInv, TableTypeOK, Pc
<1>3. LockInv'
  BY <1>0, <1>1, LockKept DEF IInv, TablePc, SharePc, WaitPc
<1>4. ThreadInv(t)'
  BY <1>0, <1>1, SameThread DEF GrowPc, SharePc, GivePc, FreePc
<1>5. ASSUME NEW list \in [Handle -> Lists], TakeInv(list) PROVE Taking(list, t)'
  <2>1. Taking(list, t)
    BY <1>0, <1>5 DEF TakeInv
  <2>2. \A u \in Thread : /\ pc'[u] \in MovePc \cup {"toFirst", "pushFirst"} => pc'[u] = pc[u]
    BY <1>1 DEF Others, MovePc, WaitPc
  <2>. QED  BY <1>0, <1>1, <2>1, <2>2 DEF Taking
<1>. QED
  BY <1>0, <1>1, <1>2, <1>3, <1>4, <1>5, StepKeepsIInv
     DEF GrowPc, HoldPc, GivePc, FreePc, MovePc, WaitPc, Counting

LEMMA UnshareKeepsIInv == ASSUME IInv, NEW t \in Thread, Unshare(t) PROVE IInv'
<1>0. /\ \/ pc[t] = "unshare" /\ pc' = [pc EXCEPT ![t] = "count"]
         \/ pc[t] = "unshareRetry" /\ pc' = [pc EXCEPT ![t] = "retry"]
      /\ sharers' = [sharers EXCEPT ![lock[t]] = sharers[lock[t]] \ {t}]
      /\ UNCHANGED <<firstFree, lastFree, next, object, pages, handleCount, owner, handle, link, lock>>
  BY DEF Unshare, listVars, localVars, Goto
<1>1. /\ Others(t)
      /\ \/ pc[t] = "unshare" /\ pc'[t] = "count"
         \/ pc[t] = "unshareRetry" /\ pc'[t] = "retry"
  BY <1>0, Typed DEF Others
<1>2. TableTypeOK'
  BY <1>0 DEF IInv, TableTypeOK, Pc
<1>3. LockInv'
  <2>0. lock[t] \in Locks
    BY Typed
  <2>1. /\ sharers'[lock[t]] = sharers[lock[t]] \ {t}
        /\ \A i \in Locks \ {lock[t]} : sharers'[i] = sharers[i]
    BY <1>0, <2>0, Typed
  <2>2. \A i \in Locks : owner'[i] # NoOne => sharers'[i] = {}
    BY <1>0, <2>1 DEF IInv, LockInv
  <2>3. \A u \in Thread : owner'[0] = u <=> pc'[u] \in TablePc
    BY <1>0, <1>1 DEF IInv, LockInv, Others, TablePc
  <2>4. \A u \in Thread, i \in Locks : u \in sharers'[i] <=> lock'[u] = i /\ pc'[u] \in SharePc
    BY <1>0, <1>1, <2>0, <2>1 DEF IInv, LockInv, Others, SharePc
  <2>5. SweepInv'
    BY <1>0, <1>1 DEF IInv, LockInv, SweepInv, Others, WaitPc
  <2>. QED  BY <2>2, <2>3, <2>4, <2>5 DEF LockInv
<1>4. ThreadInv(t)'
  BY <1>0, <1>1, SameThread DEF GrowPc, SharePc, GivePc, FreePc
<1>. QED
  BY <1>0, <1>1, <1>2, <1>3, <1>4, StepKeepsIInv
     DEF GrowPc, HoldPc, GivePc, FreePc, MovePc, WaitPc, Counting

\* A handle goes to FirstFree under the eyes of nobody who is about to take it,
\* unless it is exposed by that.
LEMMA ChooseKeepsIInv ==
    ASSUME IInv, NEW t \in Thread, Choose(t), ~exposed' PROVE IInv'
<1>0. /\ pc[t] = "choose" /\ pc' = [pc EXCEPT ![t] = ListFor(LockOf(handle[t]))]
      /\ ~(ListFor(LockOf(handle[t])) = "toFirst" /\ AboutToTake(handle[t]))
      /\ UNCHANGED <<firstFree, lastFree, next, object, pages, handleCount, sharers, owner,
                     handle, link, lock>>
  BY DEF Choose, tableVars, listVars, lockVars, localVars, Goto
<1>1. /\ pc'[t] \in {"toFirst", "toLast"} /\ Others(t)
      /\ pc'[t] = "toFirst" => ~AboutToTake(handle[t])
  BY <1>0, Typed DEF Others, ListFor
<1>2. TableTypeOK'
  BY <1>0, <1>1 DEF IInv, TableTypeOK, Pc, ListFor
<1>3. LockInv'
  BY <1>0, <1>1, LockKept DEF IInv, TablePc, SharePc, WaitPc
<1>4. ThreadInv(t)'
  BY <1>0, <1>1, SameThread DEF GrowPc, SharePc, GivePc, FreePc
<1>5. ASSUME pc'[t] = "toFirst", NEW u \in Thread, pc[u] \in {"next", "take"}
      PROVE  handle[u] # handle[t]
  BY <1>1, <1>5 DEF AboutToTake
<1>. QED
  BY <1>0, <1>1, <1>2, <1>3, <1>4, <1>5, StepKeepsIInv
     DEF GrowPc, HoldPc, GivePc, FreePc, MovePc, WaitPc, Counting

-----------------------------------------------------------------------------
(* The table lock: moving LastFree, and new pages *)

\* One thread owns the table lock, and nobody shares it meanwhile.
LEMMA TableIsOwned ==
    ASSUME IInv, NEW t \in Thread, pc[t] \in TablePc
    PROVE  \A u \in Thread : /\ pc[u] \in TablePc => u = t
                             /\ pc[u] \in {"next", "take"} => lock[u] \in Locks /\ lock[u] # 0
<1>1. LockInv /\ owner[0] = t
  BY DEF IInv, LockInv
<1>2. sharers[0] = {}
  BY <1>1, NoOneAssumption DEF LockInv, Locks
<1>3. \A u \in Thread : pc[u] \in {"next", "take"} => lock[u] # 0
  BY <1>1, <1>2 DEF LockInv, SharePc, Locks
<1>. QED  BY <1>1, <1>3, Typed DEF LockInv

\* The list that was LastFree is in the hands of the thread that moves it.
LEMMA TakeLastKeepsIInv == ASSUME IInv, NEW t \in Thread, TakeLast(t) PROVE IInv'
<1>0. /\ pc[t] = "move" /\ link' = [link EXCEPT ![t] = lastFree]
      /\ lock' = [lock EXCEPT ![t] = 1] /\ lastFree' = 0
      /\ pc' = [pc EXCEPT ![t] = IF lastFree = 0 THEN "grow" ELSE "waitOn"]
      /\ UNCHANGED <<firstFree, next, object, pages, handleCount, sharers, owner, handle>>
  BY DEF TakeLast, lockVars, SetLink, SetLock, Goto
<1>1. /\ pc'[t] = (IF lastFree = 0 THEN "grow" ELSE "waitOn") /\ link'[t] = lastFree
      /\ lock'[t] = 1 /\ Others(t)
  BY <1>0, Typed DEF Others
<1>2. TableTypeOK'
  BY <1>0 DEF IInv, TableTypeOK, Pc, Link, Locks
<1>3. LockInv'
  BY <1>0, <1>1, LockKept DEF IInv, TablePc, SharePc, WaitPc
<1>4. ThreadInv(t)'
  BY <1>0, <1>1, PlainThread DEF IInv, ThreadInv, GrowPc, SharePc, HoldPc, GivePc, FreePc
<1>5. CASE lastFree = 0
  BY <1>0, <1>1, <1>2, <1>3, <1>4, <1>5, StepKeepsIInv
     DEF GrowPc, HoldPc, GivePc, FreePc, MovePc, WaitPc, Counting
<1>6. CASE lastFree # 0
  <2>0. /\ (\A u \in Thread : ThreadInv(u)) /\ HoldInv /\ PageInv /\ ObjectInv
        /\ handleCount = Cardinality(InUse) + Cardinality(Counting)
    BY DEF IInv
  <2>1. \A h : Usable(h)' <=> Usable(h)
    BY <1>0, <1>1, UsableKept DEF GrowPc
  <2>2. \A u \in Thread : ThreadInv(u)'
    BY <1>0, <1>1, <1>4, <2>0, <2>1, ThreadsKept
  <2>3. HoldInv'
    BY <1>0, <1>1, <2>0, HoldKept DEF HoldPc, GivePc, FreePc
  <2>4. PageInv'
    BY <1>0, <1>1, <2>0 DEF PageInv, LastOfPage, Others, GrowPc
  <2>5. ObjectInv'
    BY <1>0, <2>0, <2>1 DEF ObjectInv
  <2>6. InUse' = InUse /\ Counting' = Counting
    BY <1>0, <1>1 DEF InUse, Counting, Others
  <2>7. PICK list \in [Handle -> Lists] : ListInv(list) /\ TakeInv(list)
    BY DEF IInv
  <2>. DEFINE new == [h \in Handle |-> IF list[h] = "last" THEN "moving" ELSE list[h]]
  <2>8. new \in [Handle -> Lists] /\ \A h \in Handle :
           /\ \A g \in Handle : list[g] = list[h] => new[g] = new[h]
           /\ new[h] = "none" <=> list[h] = "none"
           /\ new[h] = "first" <=> list[h] = "first"
           /\ new[h] = "moving" <=> list[h] \in {"last", "moving"}
    BY DEF Lists
  <2>9. /\ \A u \in Thread : pc'[u] \in MovePc => u = t
        /\ \A u \in Thread : pc[u] \in {"next", "take"} => 1 <= lock[u]
    <3>1. \A u \in Thread : pc'[u] \in MovePc => u = t
      BY <1>0, <1>1, TableIsOwned DEF Others, MovePc, WaitPc, TablePc
    <3>2. \A u \in Thread : pc[u] \in {"next", "take"} => 1 <= lock[u]
      BY <1>0, TableIsOwned DEF TablePc, Locks
    <3>. QED  BY <3>1, <3>2
  <2>10. \A u \in Thread : /\ pc'[u] \in HoldPc => pc[u] \in HoldPc /\ handle'[u] = handle[u]
                           /\ pc'[u] \in {"next", "take", "toFirst", "pushFirst"} =>
                                 pc'[u] = pc[u] /\ link'[u] = link[u] /\ lock'[u] = lock[u]
    BY <1>0, <1>1, <1>6 DEF Others, HoldPc, GivePc, FreePc
  <2>. HIDE DEF new
  <2>11. ListInv(new)'
    <3>0. FreeInv(list) /\ HeadInv(list) /\ ApartInv(list)
      BY <2>7 DEF ListInv
    <3>1. FreeInv(new)'
      BY <1>0, <2>1, <2>8, <2>10, <3>0 DEF FreeInv
    <3>2. HeadInv(new)'
      BY <1>0, <1>1, <1>6, <2>8, <2>9, <3>0 DEF HeadInv
    <3>3. ApartInv(new)'
      BY <1>0, <1>1, <1>6, <2>8, <2>9, <3>0 DEF ApartInv
    <3>. QED  BY <3>1, <3>2, <3>3 DEF ListInv
  <2>12. TakeInv(new)'
    <3>. SUFFICES ASSUME NEW u \in Thread, pc'[u] \in {"next", "take"} PROVE Taking(new, u)'
      BY DEF TakeInv
    <3>1. pc[u] \in {"next", "take"} /\ Taking(list, u) /\ handle[u] \in Handle
      BY <2>0, <2>7, <2>10 DEF TakeInv, ThreadInv, SharePc
    <3>2. list[handle[u]] \in {"last", "moving"} => Taking(new, u)'
      BY <1>0, <1>1, <1>6, <2>8, <2>9, <2>10, <3>1 DEF Taking
    <3>. QED  BY <1>0, <2>8, <2>10, <3>1, <3>2 DEF Taking
  <2>. QED  BY <1>0, <1>2, <1>3, <2>2, <2>3, <2>4, <2>5, <2>6, <2>0, <2>8, <2>11, <2>12 DEF IInv
<1>. QED  BY <1>5, <1>6

\* When the sweep is over nobody is about to take one of the moved handles.
LEMMA MoveToFirstKeepsIInv == ASSUME IInv, NEW t \in Thread, MoveToFirst(t) PROVE IInv'
<1>0. /\ pc[t] = "moved" /\ firstFree' = (IF firstFree = 0 THEN link[t] ELSE firstFree)
      /\ handle' = [handle EXCEPT ![t] = link[t]] /\ pc' = [pc EXCEPT ![t] = "unlock0"]
      /\ UNCHANGED <<lastFree, next, object, pages, handleCount, sharers, owner, link, lock>>
  BY DEF MoveToFirst, lockVars, SetHandle, Goto
<1>1. pc'[t] = "unlock0" /\ handle'[t] = link[t] /\ Others(t)
  BY <1>0, Typed DEF Others
<1>2. TableTypeOK'
  BY <1>0 DEF IInv, TableTypeOK, Pc
<1>3. LockInv'
  BY <1>0, <1>1, LockKept DEF IInv, TablePc, SharePc, WaitPc
<1>4. ThreadInv(t)'
  BY <1>0, <1>1, MovedIs, PlainThread DEF MovePc, GrowPc, SharePc, HoldPc, GivePc, FreePc
<1>5. /\ (\A u \in Thread : ThreadInv(u)) /\ HoldInv /\ PageInv /\ ObjectInv
      /\ handleCount = Cardinality(InUse) + Cardinality(Counting)
  BY DEF IInv
<1>6. \A h : Usable(h)' <=> Usable(h)
  BY <1>0, <1>1, UsableKept DEF GrowPc
<1>7. \A u \in Thread : ThreadInv(u)'
  BY <1>0, <1>1, <1>4, <1>5, <1>6, ThreadsKept
<1>8. HoldInv'
  BY <1>0, <1>1, <1>5, HoldKept DEF HoldPc, GivePc, FreePc
<1>9. PageInv'
  BY <1>0, <1>1, <1>5 DEF PageInv, LastOfPage, Others, GrowPc
<1>10. ObjectInv'
  BY <1>0, <1>5, <1>6 DEF ObjectInv
<1>11. InUse' = InUse /\ Counting' = Counting
  BY <1>0, <1>1 DEF InUse, Counting, Others
<1>12. PICK list \in [Handle -> Lists] : ListInv(list) /\ TakeInv(list)
  BY DEF IInv
<1>. DEFINE new == [h \in Handle |-> IF list[h] = "moving" THEN "first" ELSE list[h]]
<1>13. new \in [Handle -> Lists] /\ \A h \in Handle :
          /\ \A g \in Handle : list[g] = list[h] => new[g] = new[h]
          /\ new[h] = "none" <=> list[h] = "none"
          /\ new[h] = "last" <=> list[h] = "last"
          /\ new[h] = "first" <=> list[h] \in {"first", "moving"}
  BY DEF Lists
<1>14. \A u \in Thread : /\ pc'[u] \notin MovePc
                         /\ pc'[u] \in HoldPc => pc[u] \in HoldPc /\ handle'[u] = handle[u]
                         /\ pc'[u] \in {"next", "take", "toFirst", "pushFirst"} =>
                               pc'[u] = pc[u] /\ handle'[u] = handle[u] /\ link'[u] = link[u]
  BY <1>0, <1>1, TableIsOwned DEF Others, MovePc, WaitPc, TablePc, HoldPc, GivePc, FreePc
<1>. HIDE DEF new
<1>15. ListInv(new)'
  <2>1. link[t] \in Handle /\ list[link[t]] = "moving"
        /\ \A h \in Handle : list[h] # "none" /\ next[h] # 0 => next[h] # link[t]
    BY <1>0, <1>12 DEF ListInv, FreeInv, HeadInv, ApartInv, MovePc
  <2>0. FreeInv(list) /\ HeadInv(list) /\ ApartInv(list)
    BY <1>12 DEF ListInv
  <2>2. FreeInv(new)'
    BY <1>0, <1>6, <1>13, <1>14, <2>0 DEF FreeInv
  <2>3. HeadInv(new)'
    BY <1>0, <1>13, <1>14, <2>0, <2>1 DEF HeadInv
  <2>4. ApartInv(new)'
    BY <1>0, <1>13, <1>14, <2>0, <2>1 DEF ApartInv
  <2>. QED  BY <2>2, <2>3, <2>4 DEF ListInv
<1>16. TakeInv(new)'
  <2>. SUFFICES ASSUME NEW u \in Thread, pc'[u] \in {"next", "take"} PROVE Taking(new, u)'
    BY DEF TakeInv
  <2>1. pc[u] \in {"next", "take"} /\ Taking(list, u) /\ handle[u] \in Handle
    BY <1>5, <1>12, <1>14 DEF TakeInv, ThreadInv, SharePc
  <2>2. list[handle[u]] # "moving"
    BY <1>0, <2>1 DEF Taking, MovePc
  <2>. QED  BY <1>0, <1>13, <1>14, <2>1, <2>2 DEF Taking
<1>. QED
  BY <1>0, <1>2, <1>3, <1>7, <1>8, <1>9, <1>10, <1>11, <1>5, <1>13, <1>15, <1>16 DEF IInv

\* A page that is not yet in the list is nobody's business.
LEMMA FreshKeepsIInv ==
    ASSUME IInv, NEW t \in Thread, pc[t] \in {"grow", "linkPage"}, pc'[t] \in GrowPc, Others(t),
           UNCHANGED <<firstFree, lastFree, object, handleCount, sharers, owner, handle, lock>>,
           \A h \in Handle : Usable(h)' <=> Usable(h),
           \A h \in Handle : Usable(h) => next'[h] = next[h],
           TableTypeOK', PageInv'
    PROVE  IInv'
<1>0. /\ (\A u \in Thread : ThreadInv(u)) /\ HoldInv /\ ObjectInv /\ LockInv
      /\ handleCount = Cardinality(InUse) + Cardinality(Counting)
  BY DEF IInv
<1>1. /\ pc[t] \notin SharePc \cup HoldPc \cup MovePc \cup WaitPc \cup {"share"}
      /\ pc'[t] \notin SharePc \cup HoldPc \cup MovePc \cup WaitPc \cup {"share"}
      /\ pc[t] \in TablePc /\ pc'[t] \in TablePc
      /\ pc'[t] \notin {"next", "take", "write", "uncount", "waitRelease"}
      /\ pc[t] \notin {"next", "take", "write", "uncount"}
  BY DEF GrowPc, SharePc, HoldPc, GivePc, FreePc, MovePc, WaitPc, TablePc
<1>2. LockInv'
  BY <1>0, <1>1, LockKept
<1>3. \A u \in Thread : pc[u] \in HoldPc => handle[u] \in Handle /\ Usable(handle[u])
  BY <1>0 DEF ThreadInv
<1>4. ThreadInv(t)'
  <2>1. PICK h \in Handle \cup {0} : h = handle[t] /\ h = handle'[t] /\ (h # 0 => Usable(h))
    BY <1>0 DEF ThreadInv
  <2>2. h # 0 => Usable(h)'
    BY <2>1
  <2>3. handle'[t] # 0 => Usable(handle[t])'
    BY <2>1, <2>2 DEF Usable
  <2>. QED  BY <1>1, <2>1, <2>3 DEF ThreadInv, HoldPc, FreePc
<1>5. \A u \in Thread : ThreadInv(u)'
  BY <1>0, <1>3, <1>4, ThreadsKept
<1>6. HoldInv'
  BY <1>0, <1>1, HoldKept
<1>7. ObjectInv'
  BY <1>0 DEF ObjectInv
<1>8. InUse' = InUse /\ Counting' = Counting
  BY <1>1 DEF InUse, Counting, Others
<1>9. PICK list \in [Handle -> Lists] : ListInv(list) /\ TakeInv(list)
  BY DEF IInv
<1>10. FreeInv(list) /\ HeadInv(list) /\ ApartInv(list)
  BY <1>9 DEF ListInv
<1>11. \A h \in Handle : list[h] # "none" => Usable(h) /\ next'[h] = next[h]
  BY <1>10 DEF FreeInv
<1>12. \A u \in Thread : /\ pc'[u] \in HoldPc => pc[u] \in HoldPc
                         /\ pc'[u] \in MovePc => pc[u] \in MovePc /\ link'[u] = link[u]
  BY <1>1 DEF Others
<1>13. FreeInv(list)'
  BY <1>10, <1>11, <1>12 DEF FreeInv
<1>14. HeadInv(list)' /\ ApartInv(list)'
  BY <1>10, <1>11, <1>12 DEF HeadInv, ApartInv
<1>15. TakeInv(list)'
  <2>. SUFFICES ASSUME NEW u \in Thread, pc'[u] \in {"next", "take"} PROVE Taking(list, u)'
    BY DEF TakeInv
  <2>1. u # t /\ Taking(list, u) /\ handle[u] \in Handle
        /\ pc'[u] = pc[u] /\ link'[u] = link[u]
    BY <1>0, <1>1, <1>9 DEF TakeInv, ThreadInv, SharePc, Others
  <2>2. \A v \in Thread : pc'[v] \in {"toFirst", "pushFirst"} => pc[v] \in {"toFirst", "pushFirst"}
    BY <1>1 DEF Others, HoldPc, FreePc
  <2>3. \A v \in Thread : pc'[v] \in MovePc => pc'[v] = pc[v]
    BY <1>1 DEF Others
  <2>. QED  BY <1>11, <1>12, <2>1, <2>2, <2>3 DEF Taking
<1>. QED  BY <1>0, <1>2, <1>5, <1>6, <1>7, <1>8, <1>9, <1>13, <1>14, <1>15 DEF IInv, ListInv

\* Who is at work on a new page, and which handles there are without it.
LEMMA NewPageIs ==
    ASSUME IInv, NEW t \in Thread, pc[t] \in TablePc
    PROVE  /\ Growing <=> pc[t] \in GrowPc
           /\ \A h : Usable(h) <=>
                 h < (IF pc[t] \in GrowPc THEN pages - 1 ELSE pages) * PageEntries
           /\ \A u \in Thread \ {t} : pc[u] \notin GrowPc
<1>1. \A u \in Thread : pc[u] \in GrowPc => u = t
  BY TableIsOwned DEF GrowPc, TablePc
<1>2. Growing <=> pc[t] \in GrowPc
  BY <1>1 DEF Growing
<1>. QED  BY <1>1, <1>2 DEF Usable

LEMMA GrowKeepsIInv == ASSUME IInv, NEW t \in Thread, Grow(t) PROVE IInv'
<1>0. /\ pc[t] = "grow"
      /\ UNCHANGED <<firstFree, lastFree, object, handleCount, sharers, owner, handle, link, lock>>
  BY DEF Grow, lockVars, localVars
<1>1. CASE pc' = [pc EXCEPT ![t] = "unlockFailed"] /\ UNCHANGED <<next, pages>>
  <2>1. pc'[t] = "unlockFailed" /\ Others(t)
    BY <1>0, <1>1, Typed DEF Others
  <2>2. TableTypeOK'
    BY <1>0, <1>1 DEF IInv, TableTypeOK, Pc
  <2>3. LockInv'
    BY <1>0, <1>1, <2>1, LockKept DEF IInv, TablePc, SharePc, WaitPc
  <2>4. ThreadInv(t)'
    BY <1>0, <1>1, <2>1, SameThread DEF GrowPc, SharePc, GivePc, FreePc
  <2>. QED
    BY <1>0, <1>1, <2>1, <2>2, <2>3, <2>4, StepKeepsIInv
       DEF GrowPc, HoldPc, GivePc, FreePc, MovePc, WaitPc, Counting
<1>2. CASE /\ pages < MaxPages
           /\ next' = [h \in Handle |-> IF h \in Page(pages) THEN Chain(pages, 0)[h] ELSE next[h]]
           /\ pages' = pages + 1
           /\ pc' = [pc EXCEPT ![t] = "linkPage"]
  <2>0. pages \in Nat /\ pages' = pages + 1 /\ pages' - 1 = pages /\ pages' > 1
        /\ pages' \in 1 .. MaxPages
    BY <1>2, Typed, PageAssumption
  <2>1. pc'[t] = "linkPage" /\ Others(t)
    BY <1>0, <1>2, Typed DEF Others
  <2>2. /\ Page(pages) \subseteq Handle
        /\ \A h \in Page(pages) : h \in Int /\ pages * PageEntries < h
        /\ \A h \in Page(pages) : h + 1 \in Page(pages) <=> h # (pages + 1) * PageEntries - 1
        /\ pages * PageEntries \in Nat
    BY <1>2, <2>0, PageIs
  <2>3. \A h \in Handle : Usable(h) <=> h < pages * PageEntries
    BY <1>0, NewPageIs DEF TablePc, GrowPc
  <2>4. Growing'
    BY <2>1 DEF Growing, GrowPc
  <2>5. \A h \in Handle : Usable(h)' <=> Usable(h)
    BY <2>0, <2>3, <2>4 DEF Usable
  <2>6. \A h \in Handle : Usable(h) => next'[h] = next[h]
    BY <1>2, <2>2, <2>3, HandleIs
  <2>7. \A h \in Page(pages) : next'[h] = IF h + 1 \in Page(pages) THEN h + 1 ELSE 0
    BY <1>2, <2>2 DEF Chain
  <2>8. next' \in [Handle -> Link]
    <3>1. \A h \in Handle : next'[h] \in Link
      <4>1. \A h \in Page(pages) : next'[h] \in Page(pages) \cup {0}
        BY <2>7
      <4>2. Page(pages) \cup {0} \subseteq Link
        BY <2>2 DEF Link
      <4>3. \A h \in Handle \ Page(pages) : next'[h] = next[h] /\ next[h] \in Link
        BY <1>2, Typed
      <4>. QED  BY <4>1, <4>2, <4>3
    <3>. QED  BY <1>2, <3>1
  <2>9. TableTypeOK'
    BY <1>0, <1>2, <2>0, <2>8 DEF IInv, TableTypeOK, Pc
  <2>10. LastOfPage' = (pages + 1) * PageEntries - 1
    BY <2>0 DEF LastOfPage
  <2>11. PageInv'
    <3>1. \A u \in Thread : pc'[u] \in GrowPc => u = t
      BY <1>0, <2>1, NewPageIs DEF Others, TablePc
    <3>2. \A h \in Page(pages) : h # LastOfPage' => next'[h] = h + 1
      BY <2>2, <2>7, <2>10
    <3>. QED  BY <2>0, <2>1, <3>1, <3>2 DEF PageInv
  <2>. QED  BY <1>0, <2>1, <2>5, <2>6, <2>9, <2>11, FreshKeepsIInv DEF GrowPc
<1>. QED  BY <1>1, <1>2 DEF Grow, Goto

\* The new page while it is not in the list.
LEMMA FreshPage ==
    ASSUME IInv, NEW t \in Thread, pc[t] \in GrowPc
    PROVE  /\ pages \in Nat /\ pages > 1 /\ pages <= MaxPages
           /\ Page(pages - 1) \subseteq Handle
           /\ LastOfPage \in Page(pages - 1)
           /\ (pages - 1) * PageEntries + 1 \in Page(pages - 1)
           /\ \A h \in Page(pages - 1) :
                 /\ ~Usable(h)
                 /\ h # LastOfPage => h + 1 \in Page(pages - 1)
                 /\ h \in Int /\ h + 1 # (pages - 1) * PageEntries + 1
           /\ \A h \in Handle : h < pages * PageEntries <=> Usable(h) \/ h \in Page(pages - 1)
<1>1. pages \in Nat /\ pages > 1 /\ pages <= MaxPages
  BY Typed, PageAssumption DEF IInv, PageInv
<1>2. pages - 1 \in Nat /\ pages - 1 < MaxPages /\ (pages - 1) + 1 = pages
  BY <1>1, PageAssumption
<1>3. /\ Page(pages - 1) \subseteq Handle
      /\ (pages - 1) * PageEntries \in Nat
      /\ (pages - 1) * PageEntries + 1 \in Page(pages - 1)
      /\ pages * PageEntries - 1 \in Page(pages - 1)
      /\ \A h \in Page(pages - 1) : /\ h \in Int /\ (pages - 1) * PageEntries < h
                                    /\ h + 1 \in Page(pages - 1) <=> h # pages * PageEntries - 1
                                    /\ h + 1 # (pages - 1) * PageEntries + 1
  BY <1>2, PageIs
<1>4. \A h : Usable(h) <=> h < (pages - 1) * PageEntries
  BY NewPageIs DEF GrowPc, TablePc
<1>5. \A h \in Handle : h < pages * PageEntries <=> Usable(h) \/ h \in Page(pages - 1)
  BY <1>2, <1>4, BelowPage
<1>6. \A h \in Page(pages - 1) : ~Usable(h)
  BY <1>3, <1>4
<1>7. LastOfPage = pages * PageEntries - 1
  BY DEF LastOfPage
<1>8. LastOfPage \in Page(pages - 1)
      /\ \A h \in Page(pages - 1) : h # LastOfPage => h + 1 \in Page(pages - 1)
  BY <1>3, <1>7
<1>. HIDE DEF LastOfPage
<1>. QED  BY <1>1, <1>3, <1>5, <1>6, <1>8

LEMMA LinkPageKeepsIInv == ASSUME IInv, NEW t \in Thread, LinkPage(t) PROVE IInv'
<1>0. /\ pc[t] = "linkPage" /\ link' = [link EXCEPT ![t] = firstFree]
      /\ next' = [next EXCEPT ![LastOfPage] = firstFree]
      /\ pc' = [pc EXCEPT ![t] = "pushPage"]
      /\ UNCHANGED <<firstFree, lastFree, object, pages, handleCount, sharers, owner, handle, lock>>
  BY DEF LinkPage, lockVars, SetLink, Goto
<1>1. pc'[t] = "pushPage" /\ link'[t] = firstFree /\ Others(t)
  BY <1>0, Typed DEF Others
<1>2. /\ LastOfPage \in Handle /\ ~Usable(LastOfPage)
      /\ Page(pages - 1) \subseteq Handle /\ pages > 1
  BY <1>0, FreshPage DEF GrowPc
<1>3. \A h \in Handle : Usable(h)' <=> Usable(h)
  BY <1>0, <1>1, UsableKept DEF GrowPc
<1>4. next'[LastOfPage] = firstFree /\ \A h \in Handle : h # LastOfPage => next'[h] = next[h]
  BY <1>0, <1>2, Typed
<1>5. \A h \in Handle : Usable(h) => next'[h] = next[h]
  BY <1>2, <1>4
<1>6. TableTypeOK'
  BY <1>0 DEF IInv, TableTypeOK, Pc
<1>7. PageInv'
  <2>1. \A u \in Thread : pc'[u] \in GrowPc => u = t
    BY <1>0, <1>1, NewPageIs DEF Others, TablePc
  <2>2. \A h \in Page(pages - 1) : h # LastOfPage => next'[h] = h + 1
    BY <1>0, <1>2, <1>4 DEF IInv, PageInv, GrowPc
  <2>. QED  BY <1>0, <1>1, <1>2, <1>4, <2>1, <2>2 DEF PageInv, LastOfPage
<1>. QED  BY <1>0, <1>1, <1>3, <1>5, <1>6, <1>7, FreshKeepsIInv DEF GrowPc

\* The new page goes in front of FirstFree, in one step.
LEMMA PushPageKeepsIInv == ASSUME IInv, NEW t \in Thread, PushPage(t) PROVE IInv'
<1>0. /\ pc[t] = "pushPage"
      /\ UNCHANGED <<lastFree, next, object, pages, handleCount, sharers, owner, handle, link, lock>>
  BY DEF PushPage, lockVars, localVars
<1>1. CASE pc' = [pc EXCEPT ![t] = "linkPage"] /\ UNCHANGED firstFree
  <2>1. pc'[t] = "linkPage" /\ Others(t)
    BY <1>0, <1>1, Typed DEF Others
  <2>2. TableTypeOK'
    BY <1>0, <1>1 DEF IInv, TableTypeOK, Pc
  <2>3. LockInv'
    BY <1>0, <1>1, <2>1, LockKept DEF IInv, TablePc, SharePc, WaitPc
  <2>4. ThreadInv(t)'
    BY <1>0, <2>1, PlainThread DEF IInv, ThreadInv, GrowPc, SharePc, HoldPc, GivePc, FreePc
  <2>. QED
    BY <1>0, <1>1, <2>1, <2>2, <2>3, <2>4, StepKeepsIInv
       DEF GrowPc, HoldPc, GivePc, FreePc, MovePc, WaitPc, Counting
<1>2. CASE /\ firstFree = link[t] /\ firstFree' = (pages - 1) * PageEntries + 1
           /\ pc' = [pc EXCEPT ![t] = "unlock0"]
  <2>0. /\ (\A u \in Thread : ThreadInv(u)) /\ HoldInv /\ ObjectInv /\ LockInv /\ PageInv
        /\ handleCount = Cardinality(InUse) + Cardinality(Counting)
    BY DEF IInv
  <2>1. pc'[t] = "unlock0" /\ Others(t) /\ pc[t] \in GrowPc
    BY <1>0, <1>2, Typed DEF Others, GrowPc
  <2>. PICK P, first : P = Page(pages - 1) /\ first = (pages - 1) * PageEntries + 1
    OBVIOUS
  <2>2. /\ P \subseteq Handle /\ LastOfPage \in P /\ first \in P
        /\ \A h \in P : ~Usable(h)
        /\ \A h \in P : h # LastOfPage => h + 1 \in P
        /\ \A h \in P : h \in Int /\ h + 1 # first
    BY <2>1, FreshPage
  <2>3. /\ \A h \in P : h # LastOfPage => next[h] = h + 1
        /\ next[LastOfPage] = firstFree
    BY <1>0, <1>2, <2>0 DEF PageInv, GrowPc
  <2>4. \A u \in Thread : pc'[u] \notin GrowPc \cup MovePc
    <3>1. \A u \in Thread : pc[u] \in TablePc => u = t
      BY <1>0, TableIsOwned DEF TablePc
    <3>. QED  BY <2>1, <3>1 DEF Others, GrowPc, MovePc, WaitPc, TablePc
  <2>5. \A h \in Handle : Usable(h)' <=> Usable(h) \/ h \in P
    <3>1. ~Growing'
      BY <2>4 DEF Growing
    <3>2. \A h \in Handle : h < pages * PageEntries <=> Usable(h) \/ h \in P
      BY <2>1, FreshPage
    <3>. QED  BY <1>0, <3>1, <3>2 DEF Usable
  <2>6. TableTypeOK'
    BY <1>0, <1>2, <2>2 DEF IInv, TableTypeOK, Pc, Link
  <2>7. LockInv'
    BY <1>0, <2>0, <2>1, LockKept DEF TablePc, SharePc, WaitPc
  <2>8. pc'[t] \notin SharePc \cup HoldPc \cup {"share"}
    BY <2>1 DEF SharePc, HoldPc, GivePc, FreePc
  <2>9. ThreadInv(t)'
    <3>1. PICK h \in Handle \cup {0} : h = handle[t] /\ h = handle'[t] /\ (h # 0 => Usable(h))
      BY <1>0, <2>0 DEF ThreadInv
    <3>2. h # 0 => Usable(h)'
      BY <2>5, <3>1
    <3>3. handle'[t] # 0 => Usable(handle[t])'
      BY <1>0, <3>1, <3>2 DEF Usable
    <3>. QED  BY <2>8, <3>1, <3>3 DEF ThreadInv, HoldPc, FreePc
  <2>10. \A u \in Thread : ThreadInv(u)'
    BY <1>0, <2>0, <2>1, <2>5, <2>9, ThreadsKept
  <2>11. HoldInv'
    BY <2>0, <2>1, <2>8, HoldKept
  <2>12. PageInv'
    BY <2>4 DEF PageInv
  <2>13. ObjectInv'
    BY <1>0, <2>0, <2>5 DEF ObjectInv
  <2>14. InUse' = InUse /\ Counting' = Counting
    BY <1>0, <2>1 DEF InUse, Counting, Others
  <2>15. PICK list \in [Handle -> Lists] : ListInv(list) /\ TakeInv(list)
    BY DEF IInv
  <2>16. FreeInv(list) /\ HeadInv(list) /\ ApartInv(list)
    BY <2>15 DEF ListInv
  <2>17. \A h \in P : list[h] = "none" /\ object[h] = "NULL"
    BY <2>0, <2>2, <2>16 DEF FreeInv, ObjectInv
  <2>. DEFINE new == [h \in Handle |-> IF h \in P THEN "first" ELSE list[h]]
  <2>18. /\ new \in [Handle -> Lists]
         /\ \A h \in P : new[h] = "first"
         /\ \A h \in Handle \ P : new[h] = list[h]
    BY <2>2 DEF Lists
  <2>19. \A u \in Thread : pc'[u] \in HoldPc =>
            pc[u] \in HoldPc /\ handle[u] \in Handle \ P
    BY <2>0, <2>1, <2>2, <2>8 DEF Others, ThreadInv
  <2>. HIDE DEF new, LastOfPage
  <2>20. firstFree # 0 => firstFree \in Handle \ P /\ list[firstFree] = "first"
    BY <2>16, <2>17 DEF HeadInv
  <2>21. lastFree # 0 => lastFree \in Handle \ P /\ list[lastFree] = "last"
    BY <2>16, <2>17 DEF HeadInv
  <2>22. ASSUME NEW h \in Handle \ P, list[h] # "none", next[h] # 0
         PROVE  next[h] \in Handle \ P /\ list[next[h]] = list[h]
                /\ next[h] # firstFree /\ next[h] # lastFree
    BY <2>16, <2>17, <2>22 DEF FreeInv, ApartInv
  <2>23. ASSUME NEW h \in P
         PROVE  \/ h # LastOfPage /\ next[h] = h + 1 /\ next[h] \in P
                \/ h = LastOfPage /\ next[h] = firstFree
    BY <2>2, <2>3
  <2>24. FreeInv(new)'
    <3>. SUFFICES ASSUME NEW h \in Handle, new[h] # "none"
         PROVE  /\ Usable(h)' /\ object'[h] = "NULL"
                /\ \A u \in Thread : pc'[u] \in HoldPc => handle'[u] # h
                /\ next'[h] # 0 => next'[h] \in Handle /\ new[next'[h]] = new[h]
      BY DEF FreeInv
    <3>1. CASE h \in P
      <4>1. Usable(h)' /\ object'[h] = "NULL"
        BY <1>0, <2>5, <2>17, <3>1
      <4>2. \A u \in Thread : pc'[u] \in HoldPc => handle'[u] # h
        BY <1>0, <2>19, <3>1
      <4>3. next[h] # 0 => next[h] \in Handle /\ new[next[h]] = "first"
        BY <2>2, <2>18, <2>20, <2>23, <3>1
      <4>. QED  BY <1>0, <2>18, <3>1, <4>1, <4>2, <4>3
    <3>2. CASE h \notin P
      <4>1. Usable(h)' /\ object'[h] = "NULL"
        BY <1>0, <2>5, <2>16, <2>18, <3>2 DEF FreeInv
      <4>2. \A u \in Thread : pc'[u] \in HoldPc => handle'[u] # h
        BY <1>0, <2>16, <2>18, <2>19, <3>2 DEF FreeInv
      <4>3. next[h] # 0 => next[h] \in Handle \ P /\ list[next[h]] = list[h]
        BY <2>18, <2>22, <3>2
      <4>. QED  BY <1>0, <2>18, <3>2, <4>1, <4>2, <4>3
    <3>. QED  BY <3>1, <3>2
  <2>25. firstFree' = first
    BY <1>2
  <2>26. HeadInv(new)'
    BY <1>0, <2>2, <2>4, <2>18, <2>21, <2>25 DEF HeadInv
  <2>27. ApartInv(new)'
    <3>1. ASSUME NEW h \in Handle, NEW g \in Handle, new[h] # "none", new[g] # "none",
                 next[h] = next[g], next[h] # 0
          PROVE  h = g
      <4>1. CASE h \in P /\ g \in P
        BY <2>2, <2>20, <2>23, <3>1, <4>1
      <4>2. CASE h \in P /\ g \notin P
        BY <2>18, <2>20, <2>22, <2>23, <3>1, <4>2
      <4>3. CASE h \notin P /\ g \in P
        BY <2>18, <2>20, <2>22, <2>23, <3>1, <4>3
      <4>4. CASE h \notin P /\ g \notin P
        BY <2>16, <2>18, <3>1, <4>4 DEF ApartInv
      <4>. QED  BY <4>1, <4>2, <4>3, <4>4
    <3>2. ASSUME NEW h \in Handle, new[h] # "none", next[h] # 0
          PROVE  next[h] # first /\ next[h] # lastFree
      <4>1. CASE h \in P
        BY <2>2, <2>20, <2>21, <2>23, <3>2, <4>1
      <4>2. CASE h \notin P
        BY <2>2, <2>18, <2>22, <3>2, <4>2
      <4>. QED  BY <4>1, <4>2
    <3>. QED  BY <1>0, <2>4, <2>25, <3>1, <3>2 DEF ApartInv
  <2>28. TakeInv(new)'
    <3>. SUFFICES ASSUME NEW u \in Thread, pc'[u] \in {"next", "take"} PROVE Taking(new, u)'
      BY DEF TakeInv
    <3>0. u # t /\ pc'[u] = pc[u]
      BY <2>1 DEF Others
    <3>a. handle[u] \in Handle /\ Usable(handle[u])
      BY <2>0, <3>0 DEF ThreadInv, SharePc
    <3>1. u # t /\ pc'[u] = pc[u] /\ Taking(list, u) /\ handle[u] \in Handle \ P
      BY <2>2, <2>15, <3>0, <3>a DEF TakeInv
    <3>2. \A v \in Thread : pc'[v] \in {"toFirst", "pushFirst"} => pc[v] \in {"toFirst", "pushFirst"}
      BY <2>1 DEF Others
    <3>. QED  BY <1>0, <2>4, <2>18, <3>1, <3>2 DEF Taking
  <2>. QED
    BY <1>0, <2>0, <2>6, <2>7, <2>10, <2>11, <2>12, <2>13, <2>14, <2>18, <2>24, <2>26, <2>27, <2>28
       DEF IInv, ListInv
<1>. QED  BY <1>1, <1>2 DEF PushPage, Goto

-----------------------------------------------------------------------------
(* Handles leave the list *)

\* The handle in front of FirstFree has kept its link since the link was read:
\* it has not been away, or it would not be in front again.
LEMMA TakeKeepsIInv == ASSUME IInv, NEW t \in Thread, Take(t) PROVE IInv'
<1>0. /\ pc[t] = "take"
      /\ UNCHANGED <<lastFree, next, object, pages, handleCount, sharers, owner, handle, link, lock>>
  BY DEF Take, lockVars, localVars
<1>1. CASE pc' = [pc EXCEPT ![t] = "unshareRetry"] /\ UNCHANGED firstFree
  <2>1. pc'[t] = "unshareRetry" /\ Others(t)
    BY <1>0, <1>1, Typed DEF Others
  <2>2. TableTypeOK'
    BY <1>0, <1>1 DEF IInv, TableTypeOK, Pc
  <2>3. LockInv'
    BY <1>0, <1>1, <2>1, LockKept DEF IInv, TablePc, SharePc, WaitPc
  <2>4. ThreadInv(t)'
    BY <1>0, <2>1, SameThread DEF GrowPc, SharePc, GivePc, FreePc
  <2>. QED
    BY <1>0, <1>1, <2>1, <2>2, <2>3, <2>4, StepKeepsIInv
       DEF GrowPc, HoldPc, GivePc, FreePc, MovePc, WaitPc, Counting
<1>2. CASE firstFree = handle[t] /\ firstFree' = link[t] /\ pc' = [pc EXCEPT ![t] = "unshare"]
  <2>0. /\ (\A u \in Thread : ThreadInv(u)) /\ HoldInv /\ ObjectInv /\ LockInv /\ PageInv
        /\ handleCount = Cardinality(InUse) + Cardinality(Counting)
    BY DEF IInv
  <2>1. pc'[t] = "unshare" /\ Others(t)
    BY <1>0, <1>2, Typed DEF Others
  <2>. PICK g : g = handle[t]
    OBVIOUS
  <2>2. g \in Handle /\ g # 0 /\ Usable(g) /\ lock[t] = LockOf(g) /\ firstFree = g
    BY <1>0, <1>2, <2>0 DEF ThreadInv, SharePc
  <2>3. PICK list \in [Handle -> Lists] : ListInv(list) /\ TakeInv(list)
    BY DEF IInv
  <2>4. FreeInv(list) /\ HeadInv(list) /\ ApartInv(list)
    BY <2>3 DEF ListInv
  <2>5. list[g] = "first" /\ next[g] = link[t] /\ object[g] = "NULL"
        /\ \A u \in Thread : pc[u] \in HoldPc => handle[u] # g
    <3>1. list[g] = "first"
      BY <2>2, <2>4 DEF HeadInv
    <3>2. next[g] = link[t]
      BY <1>0, <2>3, <3>1 DEF TakeInv, Taking
    <3>. QED  BY <2>2, <2>4, <3>1, <3>2 DEF FreeInv
  <2>6. TableTypeOK'
    BY <1>0, <1>2 DEF IInv, TableTypeOK, Pc
  <2>7. LockInv'
    BY <1>0, <2>0, <2>1, LockKept DEF TablePc, SharePc, WaitPc
  <2>8. \A h : Usable(h)' <=> Usable(h)
    BY <1>0, <2>1, UsableKept DEF GrowPc
  <2>9. ThreadInv(t)'
    <3>1. Usable(handle[t])'
      <4>1. Usable(g)'
        BY <2>2, <2>8
      <4>. QED  BY <1>0, <4>1 DEF Usable
    <3>. QED  BY <1>0, <2>1, <2>2, <2>5, <3>1 DEF ThreadInv, GivePc, FreePc
  <2>10. \A u \in Thread : ThreadInv(u)'
    BY <1>0, <2>0, <2>1, <2>8, <2>9, ThreadsKept
  <2>11. HoldInv'
    BY <1>0, <2>0, <2>1, <2>5 DEF HoldInv, Others
  <2>12. PageInv'
    BY <1>0, <2>0, <2>1 DEF PageInv, LastOfPage, Others, GrowPc
  <2>13. ObjectInv'
    BY <1>0, <2>0, <2>8 DEF ObjectInv
  <2>14. InUse' = InUse /\ Counting' = Counting
    BY <1>0, <2>1 DEF InUse, Counting, Others
  <2>. DEFINE new == [list EXCEPT ![g] = "none"]
  <2>15. /\ new \in [Handle -> Lists] /\ new[g] = "none"
         /\ \A h \in Handle : h # g => new[h] = list[h]
    BY <2>2 DEF Lists
  <2>. HIDE DEF new
  <2>16. \A u \in Thread : /\ pc'[u] \in HoldPc => u = t \/ pc[u] \in HoldPc
                           /\ pc'[u] \in MovePc => pc[u] \in MovePc
    BY <2>1 DEF Others, MovePc, WaitPc
  <2>17. \A h \in Handle : list[h] # "none" => next[h] # g
    BY <2>2, <2>4 DEF ApartInv
  <2>18. FreeInv(new)'
    BY <1>0, <2>2, <2>4, <2>8, <2>15, <2>16, <2>17 DEF FreeInv
  <2>19. next[g] # 0 => next[g] \in Handle /\ list[next[g]] = "first"
    BY <2>2, <2>4, <2>5 DEF FreeInv
  <2>20. HeadInv(new)'
    <3>1. firstFree' # 0 => firstFree' \in Handle /\ new[firstFree'] = "first"
      BY <1>2, <2>2, <2>5, <2>15, <2>17, <2>19
    <3>2. lastFree # 0 => lastFree \in Handle /\ new[lastFree] = "last"
      BY <2>2, <2>4, <2>5, <2>15 DEF HeadInv
    <3>3. \A u \in Thread : pc'[u] \in MovePc => link[u] \in Handle /\ new[link[u]] = "moving"
      BY <2>2, <2>4, <2>5, <2>15, <2>16 DEF HeadInv
    <3>. QED  BY <1>0, <3>1, <3>2, <3>3 DEF HeadInv
  <2>21. ApartInv(new)'
    BY <1>0, <1>2, <2>2, <2>4, <2>5, <2>15, <2>16 DEF ApartInv
  <2>22. TakeInv(new)'
    <3>. SUFFICES ASSUME NEW u \in Thread, pc'[u] \in {"next", "take"} PROVE Taking(new, u)'
      BY DEF TakeInv
    <3>1. /\ u # t /\ pc'[u] = pc[u] /\ Taking(list, u) /\ handle[u] \in Handle
      BY <2>0, <2>1, <2>3 DEF TakeInv, ThreadInv, SharePc, Others
    <3>2. \A v \in Thread :
             /\ pc'[v] \in {"toFirst", "pushFirst"} =>
                   pc[v] \in {"toFirst", "pushFirst"} /\ handle[v] # g
             /\ pc'[v] \in MovePc => pc[v] \in MovePc /\ pc'[v] = pc[v]
      BY <2>1, <2>5 DEF Others, HoldPc, FreePc, MovePc, WaitPc
    <3>. QED  BY <1>0, <2>15, <3>1, <3>2 DEF Taking
  <2>. QED
    BY <1>0, <2>0, <2>6, <2>7, <2>10, <2>11, <2>12, <2>13, <2>14, <2>15, <2>18, <2>20, <2>21, <2>22
       DEF IInv, ListInv
<1>. QED  BY <1>1, <1>2 DEF Take, Goto

\* The entry of a handle that is in use, or in hands, is in no list.
LEMMA OwnKeepsIInv ==
    ASSUME IInv, NEW t \in Thread, Others(t), NEW h \in Handle,
           (pc[t] \in HoldPc /\ handle[t] = h) \/ (pc[t] = "idle" /\ object[h] = "unlocked"),
           UNCHANGED <<firstFree, lastFree, pages, sharers, owner>>,
           \A g \in Handle : g # h => next'[g] = next[g] /\ object'[g] = object[g],
           pc[t] \notin SharePc, pc'[t] \notin TablePc \cup SharePc,
           pc'[t] \in HoldPc => handle'[t] = h,
           pc'[t] \in {"toFirst", "pushFirst"} =>
              pc[t] \in {"toFirst", "pushFirst"} /\ handle[t] = handle'[t],
           TableTypeOK', ThreadInv(t)',
           handleCount' = Cardinality(InUse') + Cardinality(Counting')
    PROVE  IInv'
<1>0. /\ (\A u \in Thread : ThreadInv(u)) /\ HoldInv /\ ObjectInv /\ LockInv /\ PageInv
  BY DEF IInv
<1>1. \A u \in Thread : u # t /\ pc[u] \in HoldPc => handle[u] # h
  BY <1>0 DEF HoldInv, ThreadInv, HoldPc
<1>2. Usable(h)
  BY <1>0 DEF ObjectInv, ThreadInv
<1>3. /\ pc[t] \notin TablePc \cup GrowPc \cup MovePc \cup WaitPc
      /\ pc'[t] \notin GrowPc \cup MovePc \cup WaitPc \cup {"next", "take", "waitRelease"}
  BY DEF HoldPc, GivePc, FreePc, TablePc, GrowPc, MovePc, WaitPc, SharePc
<1>4. LockInv'
  BY <1>0, <1>3, LockKept
<1>5. \A g : Usable(g)' <=> Usable(g)
  BY <1>3, UsableKept
<1>6. \A u \in Thread : ThreadInv(u)'
  <2>1. \A u \in Thread \ {t} : pc[u] \in HoldPc => handle[u] \in Handle
    BY <1>0 DEF ThreadInv
  <2>. QED  BY <1>0, <1>1, <1>5, <2>1, ThreadsKept
<1>7. HoldInv'
  BY <1>0, <1>1 DEF HoldInv, Others
<1>8. PageInv'
  <2>1. \A u \in Thread : pc'[u] \in GrowPc => u # t /\ pc[u] \in GrowPc /\ pc'[u] = pc[u]
                                               /\ link'[u] = link[u]
    BY <1>3 DEF Others
  <2>2. \A u \in Thread : pc[u] \in GrowPc =>
           LastOfPage \in Handle \ {h} /\ Page(pages - 1) \subseteq Handle \ {h}
    BY <1>2, FreshPage
  <2>. QED  BY <1>0, <2>1, <2>2 DEF PageInv, LastOfPage
<1>9. ObjectInv'
  BY <1>0, <1>2, <1>5 DEF ObjectInv
<1>10. PICK list \in [Handle -> Lists] : ListInv(list) /\ TakeInv(list)
  BY DEF IInv
<1>11. FreeInv(list) /\ HeadInv(list) /\ ApartInv(list)
  BY <1>10 DEF ListInv
<1>12. list[h] = "none"
  BY <1>11 DEF FreeInv
<1>13. \A g \in Handle : list[g] # "none" => next'[g] = next[g] /\ object'[g] = object[g] /\ g # h
  BY <1>12
<1>14. \A u \in Thread :
          /\ pc'[u] \in HoldPc => handle'[u] = h \/ (pc[u] \in HoldPc /\ handle'[u] = handle[u])
          /\ pc'[u] \in MovePc => pc'[u] = pc[u] /\ link'[u] = link[u] /\ lock'[u] = lock[u]
  BY <1>3 DEF Others
<1>15. FreeInv(list)'
  BY <1>5, <1>11, <1>13, <1>14 DEF FreeInv
<1>16. HeadInv(list)' /\ ApartInv(list)'
  BY <1>11, <1>13, <1>14 DEF HeadInv, ApartInv
<1>17. TakeInv(list)'
  <2>. SUFFICES ASSUME NEW u \in Thread, pc'[u] \in {"next", "take"} PROVE Taking(list, u)'
    BY DEF TakeInv
  <2>1. /\ u # t /\ pc'[u] = pc[u] /\ Taking(list, u) /\ handle[u] \in Handle
        /\ handle'[u] = handle[u] /\ link'[u] = link[u] /\ lock'[u] = lock[u]
    BY <1>0, <1>3, <1>10 DEF TakeInv, ThreadInv, SharePc, Others
  <2>2. \A v \in Thread : pc'[v] \in {"toFirst", "pushFirst"} =>
           pc[v] \in {"toFirst", "pushFirst"} /\ handle'[v] = handle[v]
    BY DEF Others
  <2>. QED  BY <1>13, <1>14, <2>1, <2>2 DEF Taking
<1>. QED  BY <1>4, <1>6, <1>7, <1>8, <1>9, <1>10, <1>15, <1>16, <1>17 DEF IInv, ListInv

\* A thread with a handle in its hands, before and after a step about it.
LEMMA HeldIs ==
    ASSUME IInv, NEW t \in Thread, pc[t] \in HoldPc
    PROVE  /\ handle[t] \in Handle /\ Usable(handle[t])
           /\ object[handle[t]] = "NULL" <=> pc[t] \in GivePc \cup FreePc
           /\ pc[t] \in {"unlock", "clear"} => object[handle[t]] = "locked"
           /\ pc[t] \in {"pushFirst", "pushLast"} => next[handle[t]] = link[t]
           /\ pc[t] \notin GrowPc
BY DEF IInv, ThreadInv, HoldPc, GivePc, FreePc, GrowPc

LEMMA HolderKept ==
    ASSUME IInv, NEW t \in Thread, Others(t), pages' = pages, pc[t] \notin GrowPc,
           NEW h \in Handle, Usable(h), handle'[t] = h,
           pc'[t] \in HoldPc \ SharePc,
           object'[h] = "NULL" <=> pc'[t] \in GivePc \cup FreePc,
           pc'[t] \in {"unlock", "clear"} => object'[h] = "locked",
           pc'[t] \in {"pushFirst", "pushLast"} => next'[h] = link'[t]
    PROVE  ThreadInv(t)'
<1>1. pc'[t] \notin GrowPc /\ pc'[t] # "share"
  BY DEF HoldPc, GivePc, FreePc, GrowPc
<1>2. Usable(h)'
  BY <1>1, UsableKept
<1>3. Usable(handle[t])'
  BY <1>2 DEF Usable
<1>. QED  BY <1>1, <1>3, HandleIs DEF ThreadInv

LEMMA CountsAre ==
    ASSUME IInv
    PROVE  /\ IsFiniteSet(InUse) /\ IsFiniteSet(Counting)
           /\ Cardinality(InUse) \in Nat /\ Cardinality(Counting) \in Nat
           /\ handleCount = Cardinality(InUse) + Cardinality(Counting)
<1>1. IsFiniteSet(InUse)
  BY HandlesFinite, FS_Subset DEF InUse
<1>2. IsFiniteSet(Counting)
  BY ThreadAssumption, FS_Subset DEF Counting
<1>. QED  BY <1>1, <1>2, FS_CardinalityType DEF IInv

LEMMA CountUpKeepsIInv == ASSUME IInv, NEW t \in Thread, CountUp(t) PROVE IInv'
<1>0. /\ pc[t] = "count" /\ handleCount' = handleCount + 1 /\ pc' = [pc EXCEPT ![t] = "write"]
      /\ UNCHANGED <<firstFree, lastFree, next, object, pages, sharers, owner, handle, link, lock>>
  BY DEF CountUp, listVars, lockVars, localVars, Goto
<1>1. pc'[t] = "write" /\ Others(t)
  BY <1>0, Typed DEF Others
<1>2. TableTypeOK'
  BY <1>0 DEF IInv, TableTypeOK, Pc
<1>3. pc[t] \in HoldPc /\ handle[t] \in Handle /\ Usable(handle[t]) /\ object[handle[t]] = "NULL"
  BY <1>0, HeldIs DEF HoldPc, GivePc
<1>4. ThreadInv(t)'
  BY <1>0, <1>1, <1>3, HolderKept DEF GrowPc, HoldPc, SharePc, GivePc
<1>5. handleCount' = Cardinality(InUse') + Cardinality(Counting')
  <2>1. InUse' = InUse /\ Counting' = Counting \cup {t} /\ t \notin Counting
    BY <1>0, <1>1 DEF InUse, Counting, Others
  <2>2. Cardinality(Counting \cup {t}) = Cardinality(Counting) + 1
    BY <2>1, CountsAre, FS_AddElement
  <2>. QED  BY <1>0, <2>1, <2>2, CountsAre
<1>. QED
  BY <1>0, <1>1, <1>2, <1>3, <1>4, <1>5, OwnKeepsIInv DEF SharePc, TablePc

LEMMA WriteKeepsIInv == ASSUME IInv, NEW t \in Thread, Write(t) PROVE IInv'
<1>. PICK h : h = handle[t]
  OBVIOUS
<1>0. /\ pc[t] = "write" /\ object' = [object EXCEPT ![h] = "locked"]
      /\ next' = [next EXCEPT ![h] = Access] /\ pc' = [pc EXCEPT ![t] = "unlock"]
      /\ UNCHANGED <<firstFree, lastFree, pages, handleCount, sharers, owner, handle, link, lock>>
  BY DEF Write, lockVars, localVars, Goto
<1>1. pc'[t] = "unlock" /\ Others(t)
  BY <1>0, Typed DEF Others
<1>2. TableTypeOK'
  BY <1>0 DEF IInv, TableTypeOK, Pc, Link
<1>3. pc[t] \in HoldPc /\ h \in Handle /\ Usable(h) /\ object[h] = "NULL"
  BY <1>0, HeldIs DEF HoldPc, GivePc
<1>4. /\ object'[h] = "locked"
      /\ \A g \in Handle : g # h => next'[g] = next[g] /\ object'[g] = object[g]
  BY <1>0, <1>3, Typed
<1>5. ThreadInv(t)'
  BY <1>0, <1>1, <1>3, <1>4, HolderKept DEF GrowPc, HoldPc, SharePc, GivePc, FreePc
<1>6. handleCount' = Cardinality(InUse') + Cardinality(Counting')
  <2>1. InUse' = InUse \cup {h} /\ h \notin InUse
    BY <1>3, <1>4 DEF InUse
  <2>2. Counting' = Counting \ {t} /\ t \in Counting
    BY <1>0, <1>1 DEF Counting, Others
  <2>3. /\ Cardinality(InUse \cup {h}) = Cardinality(InUse) + 1
        /\ Cardinality(Counting \ {t}) = Cardinality(Counting) - 1
    BY <2>1, <2>2, CountsAre, FS_AddElement, FS_RemoveElement
  <2>. QED  BY <1>0, <2>1, <2>2, <2>3, CountsAre
<1>. QED
  BY <1>0, <1>1, <1>2, <1>3, <1>4, <1>5, <1>6, OwnKeepsIInv DEF SharePc, TablePc

LEMMA UnlockKeepsIInv == ASSUME IInv, NEW t \in Thread, Unlock(t) PROVE IInv'
<1>. PICK h : h = handle[t]
  OBVIOUS
<1>0. /\ pc[t] = "unlock" /\ object' = [object EXCEPT ![h] = "unlocked"] /\ Return(t)
      /\ UNCHANGED <<firstFree, lastFree, next, pages, handleCount, sharers, owner>>
  BY DEF Unlock, listVars, lockVars
<1>1. /\ pc'[t] = "idle" /\ handle'[t] = 0 /\ Others(t)
      /\ pc' \in [Thread -> Pc] /\ handle' \in [Thread -> Link]
      /\ link' \in [Thread -> Link] /\ lock' \in [Thread -> Locks]
  BY <1>0, ReturnMeans
<1>2. TableTypeOK'
  BY <1>0, <1>1 DEF IInv, TableTypeOK
<1>3. pc[t] \in HoldPc /\ h \in Handle /\ Usable(h) /\ object[h] = "locked"
  BY <1>0, HeldIs DEF HoldPc
<1>4. /\ object'[h] = "unlocked"
      /\ \A g \in Handle : g # h => object'[g] = object[g]
  BY <1>0, <1>3, Typed
<1>5. ThreadInv(t)'
  BY <1>0, <1>1, PlainThread DEF GrowPc, SharePc, HoldPc, GivePc, FreePc
<1>6. handleCount' = Cardinality(InUse') + Cardinality(Counting')
  <2>1. InUse' = InUse /\ Counting' = Counting
    BY <1>0, <1>1, <1>3, <1>4 DEF InUse, Counting, Others
  <2>. QED  BY <1>0, <2>1, CountsAre
<1>. QED
  BY <1>0, <1>1, <1>2, <1>3, <1>4, <1>5, <1>6, OwnKeepsIInv
     DEF SharePc, TablePc, HoldPc, GivePc, FreePc

LEMMA DestroyKeepsIInv == ASSUME IInv, NEW t \in Thread, Destroy(t) PROVE IInv'
<1>0. PICK h \in Handle :
         /\ pc[t] = "idle" /\ object[h] = "unlocked"
         /\ object' = [object EXCEPT ![h] = "locked"] /\ handle' = [handle EXCEPT ![t] = h]
         /\ pc' = [pc EXCEPT ![t] = "clear"]
         /\ UNCHANGED <<firstFree, lastFree, next, pages, handleCount, sharers, owner, link, lock>>
  BY DEF Destroy, listVars, lockVars, SetHandle, Goto
<1>1. pc'[t] = "clear" /\ handle'[t] = h /\ Others(t)
  BY <1>0, Typed DEF Others
<1>2. TableTypeOK'
  BY <1>0 DEF IInv, TableTypeOK, Pc, Link
<1>3. Usable(h)
  BY <1>0 DEF IInv, ObjectInv
<1>4. /\ object'[h] = "locked"
      /\ \A g \in Handle : g # h => object'[g] = object[g]
  BY <1>0, Typed
<1>5. ThreadInv(t)'
  BY <1>0, <1>1, <1>3, <1>4, HolderKept DEF GrowPc, HoldPc, SharePc, GivePc, FreePc
<1>6. handleCount' = Cardinality(InUse') + Cardinality(Counting')
  <2>1. InUse' = InUse /\ Counting' = Counting
    BY <1>0, <1>1, <1>4 DEF InUse, Counting, Others
  <2>. QED  BY <1>0, <2>1, CountsAre
<1>. QED
  BY <1>0, <1>1, <1>2, <1>4, <1>5, <1>6, OwnKeepsIInv DEF SharePc, TablePc

LEMMA ClearKeepsIInv == ASSUME IInv, NEW t \in Thread, Clear(t) PROVE IInv'
<1>. PICK h : h = handle[t]
  OBVIOUS
<1>0. /\ pc[t] = "clear" /\ object' = [object EXCEPT ![h] = "NULL"]
      /\ pc' = [pc EXCEPT ![t] = "uncount"]
      /\ UNCHANGED <<firstFree, lastFree, next, pages, handleCount, sharers, owner, handle, link, lock>>
  BY DEF Clear, listVars, lockVars, localVars, Goto
<1>1. pc'[t] = "uncount" /\ Others(t)
  BY <1>0, Typed DEF Others
<1>2. TableTypeOK'
  BY <1>0 DEF IInv, TableTypeOK, Pc
<1>3. pc[t] \in HoldPc /\ h \in Handle /\ Usable(h) /\ object[h] = "locked"
  BY <1>0, HeldIs DEF HoldPc
<1>4. /\ object'[h] = "NULL"
      /\ \A g \in Handle : g # h => object'[g] = object[g]
  BY <1>0, <1>3, Typed
<1>5. ThreadInv(t)'
  BY <1>0, <1>1, <1>3, <1>4, HolderKept DEF GrowPc, HoldPc, SharePc, FreePc
<1>6. handleCount' = Cardinality(InUse') + Cardinality(Counting')
  <2>1. InUse' = InUse \ {h} /\ h \in InUse
    BY <1>3, <1>4 DEF InUse
  <2>2. Counting' = Counting \cup {t} /\ t \notin Counting
    BY <1>0, <1>1 DEF Counting, Others
  <2>3. /\ Cardinality(InUse \ {h}) = Cardinality(InUse) - 1
        /\ Cardinality(Counting \cup {t}) = Cardinality(Counting) + 1
    BY <2>1, <2>2, CountsAre, FS_AddElement, FS_RemoveElement
  <2>. QED  BY <1>0, <2>1, <2>2, <2>3, CountsAre
<1>. QED
  BY <1>0, <1>1, <1>2, <1>3, <1>4, <1>5, <1>6, OwnKeepsIInv DEF SharePc, TablePc

LEMMA CountDownKeepsIInv == ASSUME IInv, NEW t \in Thread, CountDown(t) PROVE IInv'
<1>0. /\ pc[t] = "uncount" /\ handleCount' = handleCount - 1 /\ pc' = [pc EXCEPT ![t] = "choose"]
      /\ UNCHANGED <<firstFree, lastFree, next, object, pages, sharers, owner, handle, link, lock>>
  BY DEF CountDown, listVars, lockVars, localVars, Goto
<1>1. pc'[t] = "choose" /\ Others(t)
  BY <1>0, Typed DEF Others
<1>2. handleCount' = Cardinality(InUse') + Cardinality(Counting') /\ handleCount' \in Nat
  <2>1. InUse' = InUse /\ Counting' = Counting \ {t} /\ t \in Counting
    BY <1>0, <1>1 DEF InUse, Counting, Others
  <2>2. Cardinality(Counting \ {t}) = Cardinality(Counting) - 1
        /\ Cardinality(Counting \ {t}) \in Nat
    BY <2>1, CountsAre, FS_RemoveElement, FS_CardinalityType
  <2>. QED  BY <1>0, <2>1, <2>2, CountsAre
<1>3. TableTypeOK'
  BY <1>0, <1>2 DEF IInv, TableTypeOK, Pc
<1>4. pc[t] \in HoldPc /\ handle[t] \in Handle /\ Usable(handle[t]) /\ object[handle[t]] = "NULL"
  BY <1>0, HeldIs DEF HoldPc, FreePc
<1>5. ThreadInv(t)'
  BY <1>0, <1>1, <1>4, HolderKept DEF GrowPc, HoldPc, SharePc, FreePc
<1>. QED
  BY <1>0, <1>1, <1>2, <1>3, <1>4, <1>5, OwnKeepsIInv DEF SharePc, TablePc

-----------------------------------------------------------------------------
(* Handles come back *)

LEMMA LinkFreedKeepsIInv == ASSUME IInv, NEW t \in Thread, LinkFreed(t) PROVE IInv'
<1>. PICK h, l, p : /\ h = handle[t]
                    /\ l = IF pc[t] = "toFirst" THEN firstFree ELSE lastFree
                    /\ p = IF pc[t] = "toFirst" THEN "pushFirst" ELSE "pushLast"
  OBVIOUS
<1>0. /\ pc[t] \in {"toFirst", "toLast"} /\ next' = [next EXCEPT ![h] = l]
      /\ link' = [link EXCEPT ![t] = l] /\ pc' = [pc EXCEPT ![t] = p]
      /\ UNCHANGED <<firstFree, lastFree, object, pages, handleCount, sharers, owner, handle, lock>>
  BY DEF LinkFreed, lockVars, SetLink, Goto
<1>1. pc'[t] = p /\ link'[t] = l /\ Others(t)
  BY <1>0, Typed DEF Others
<1>2. TableTypeOK'
  BY <1>0 DEF IInv, TableTypeOK, Pc
<1>3. pc[t] \in HoldPc /\ h \in Handle /\ Usable(h) /\ object[h] = "NULL"
  BY <1>0, HeldIs DEF HoldPc, FreePc
<1>4. next'[h] = l /\ \A g \in Handle : g # h => next'[g] = next[g]
  BY <1>0, <1>3, Typed
<1>5. ThreadInv(t)'
  BY <1>0, <1>1, <1>3, <1>4, HolderKept DEF GrowPc, HoldPc, SharePc, FreePc
<1>6. handleCount' = Cardinality(InUse') + Cardinality(Counting')
  <2>1. InUse' = InUse /\ Counting' = Counting
    BY <1>0, <1>1 DEF InUse, Counting, Others
  <2>. QED  BY <1>0, <2>1, CountsAre
<1>. QED
  BY <1>0, <1>1, <1>2, <1>3, <1>4, <1>5, <1>6, OwnKeepsIInv DEF SharePc, TablePc

\* A freed handle goes in front of a list, whose head has not changed since it
\* was written into the handle's entry.
LEMMA PushedKeepsIInv ==
    ASSUME IInv, NEW t \in Thread, Return(t),
           UNCHANGED <<next, object, pages, handleCount, sharers, owner>>,
           \/ /\ pc[t] = "pushFirst" /\ firstFree = link[t] /\ firstFree' = handle[t]
              /\ lastFree' = lastFree
           \/ /\ pc[t] = "pushLast" /\ lastFree = link[t] /\ lastFree' = handle[t]
              /\ firstFree' = firstFree
    PROVE  IInv'
<1>0. /\ (\A u \in Thread : ThreadInv(u)) /\ HoldInv /\ ObjectInv /\ LockInv /\ PageInv
      /\ handleCount = Cardinality(InUse) + Cardinality(Counting)
  BY DEF IInv
<1>1. /\ pc'[t] = "idle" /\ handle'[t] = 0 /\ Others(t)
      /\ pc' \in [Thread -> Pc] /\ handle' \in [Thread -> Link]
      /\ link' \in [Thread -> Link] /\ lock' \in [Thread -> Locks]
  BY ReturnMeans
<1>. PICK g, label : g = handle[t] /\ label = IF pc[t] = "pushFirst" THEN "first" ELSE "last"
  OBVIOUS
<1>2. /\ pc[t] \in HoldPc /\ g \in Handle /\ Usable(g) /\ object[g] = "NULL" /\ next[g] = link[t]
  BY HeldIs DEF HoldPc, FreePc
<1>3. g # 0 /\ \A u \in Thread \ {t} : pc[u] \in HoldPc => handle[u] # g
  BY <1>0, <1>2, HandleIs DEF HoldInv
<1>4. PICK list \in [Handle -> Lists] : ListInv(list) /\ TakeInv(list)
  BY DEF IInv
<1>5. FreeInv(list) /\ HeadInv(list) /\ ApartInv(list)
  BY <1>4 DEF ListInv
<1>6. list[g] = "none"
  BY <1>2, <1>5 DEF FreeInv
<1>7. TableTypeOK'
  BY <1>1, <1>2 DEF IInv, TableTypeOK
<1>8. LockInv'
  BY <1>0, <1>1, LockKept DEF TablePc, SharePc, WaitPc
<1>9. \A h : Usable(h)' <=> Usable(h)
  BY <1>1, UsableKept DEF GrowPc
<1>10. ThreadInv(t)'
  BY <1>1, PlainThread DEF GrowPc, SharePc, HoldPc, GivePc, FreePc
<1>11. \A u \in Thread : ThreadInv(u)'
  BY <1>0, <1>1, <1>9, <1>10, ThreadsKept
<1>12. HoldInv'
  BY <1>0, <1>1, HoldKept DEF HoldPc, GivePc, FreePc
<1>13. PageInv'
  BY <1>0, <1>1 DEF PageInv, LastOfPage, Others, GrowPc
<1>14. ObjectInv'
  BY <1>0, <1>9 DEF ObjectInv
<1>15. InUse' = InUse /\ Counting' = Counting
  BY <1>1 DEF InUse, Counting, Others
<1>. DEFINE new == [list EXCEPT ![g] = label]
<1>16. /\ new \in [Handle -> Lists] /\ new[g] = label /\ label \in {"first", "last"}
       /\ \A h \in Handle : h # g => new[h] = list[h]
  BY <1>2 DEF Lists
<1>. HIDE DEF new
<1>17. \A u \in Thread :
          /\ pc'[u] \in HoldPc => pc[u] \in HoldPc /\ handle'[u] = handle[u] /\ handle[u] # g
          /\ pc'[u] \in MovePc => pc'[u] = pc[u] /\ link'[u] = link[u] /\ lock'[u] = lock[u]
  BY <1>1, <1>3 DEF Others, HoldPc, GivePc, FreePc, MovePc, WaitPc
<1>18. /\ next[g] # 0 => next[g] \in Handle /\ next[g] # g /\ list[next[g]] = label
       /\ \A h \in Handle : list[h] # "none" /\ next[h] # 0 => next[h] # next[g] /\ next[h] # g
  BY <1>2, <1>5, <1>6 DEF FreeInv, HeadInv, ApartInv
<1>19. FreeInv(new)'
  <2>. SUFFICES ASSUME NEW h \in Handle, new[h] # "none"
       PROVE  /\ Usable(h) /\ object[h] = "NULL"
              /\ \A u \in Thread : pc'[u] \in HoldPc => handle'[u] # h
              /\ next[h] # 0 => next[h] \in Handle /\ new[next[h]] = new[h]
    BY <1>9 DEF FreeInv
  <2>1. CASE h = g
    BY <1>2, <1>16, <1>17, <1>18, <2>1
  <2>2. CASE h # g
    BY <1>5, <1>16, <1>17, <1>18, <2>2 DEF FreeInv
  <2>. QED  BY <2>1, <2>2
<1>20. HeadInv(new)'
  <2>1. firstFree' # 0 => firstFree' \in Handle /\ new[firstFree'] = "first"
    BY <1>2, <1>5, <1>6, <1>16 DEF HeadInv
  <2>2. lastFree' # 0 => lastFree' \in Handle /\ new[lastFree'] = "last"
    BY <1>2, <1>5, <1>6, <1>16 DEF HeadInv
  <2>3. \A u \in Thread : pc'[u] \in MovePc => link'[u] \in Handle /\ new[link'[u]] = "moving"
    BY <1>5, <1>6, <1>16, <1>17 DEF HeadInv
  <2>. QED  BY <2>1, <2>2, <2>3 DEF HeadInv
<1>21. ApartInv(new)'
  <2>1. ASSUME NEW h \in Handle, NEW k \in Handle, new[h] # "none", new[k] # "none",
               next[h] = next[k], next[h] # 0
        PROVE  h = k
    BY <1>5, <1>16, <1>18, <2>1 DEF ApartInv
  <2>2. ASSUME NEW h \in Handle, new[h] # "none", next[h] # 0
        PROVE  next[h] # firstFree' /\ next[h] # lastFree'
    <3>1. CASE h = g
      BY <1>2, <1>5, <1>18, <2>2, <3>1 DEF HeadInv
    <3>2. CASE h # g
      BY <1>5, <1>16, <1>18, <2>2, <3>2 DEF ApartInv
    <3>. QED  BY <3>1, <3>2
  <2>3. ASSUME NEW h \in Handle, new[h] # "none", next[h] # 0, NEW u \in Thread, pc'[u] \in MovePc
        PROVE  next[h] # link'[u]
    <3>1. CASE h = g
      BY <1>5, <1>16, <1>17, <1>18, <2>3, <3>1 DEF HeadInv
    <3>2. CASE h # g
      BY <1>5, <1>16, <1>17, <2>3, <3>2 DEF ApartInv
    <3>. QED  BY <3>1, <3>2
  <2>. QED  BY <2>1, <2>2, <2>3 DEF ApartInv
<1>22. TakeInv(new)'
  <2>. SUFFICES ASSUME NEW u \in Thread, pc'[u] \in {"next", "take"} PROVE Taking(new, u)'
    BY DEF TakeInv
  <2>1. /\ u # t /\ pc'[u] = pc[u] /\ Taking(list, u) /\ handle[u] \in Handle
        /\ handle'[u] = handle[u] /\ link'[u] = link[u] /\ lock'[u] = lock[u]
    BY <1>0, <1>1, <1>4 DEF TakeInv, ThreadInv, SharePc, Others
  <2>2. \A v \in Thread : pc'[v] \in {"toFirst", "pushFirst"} =>
           pc[v] \in {"toFirst", "pushFirst"} /\ handle'[v] = handle[v]
    BY <1>1 DEF Others
  <2>3. CASE handle[u] = g
    <3>1. label = "last"
      BY <1>6, <2>1, <2>3 DEF Taking
    <3>. QED  BY <1>16, <2>1, <2>3, <3>1 DEF Taking
  <2>4. CASE handle[u] # g
    BY <1>16, <1>17, <2>1, <2>2, <2>4 DEF Taking
  <2>. QED  BY <2>3, <2>4
<1>. QED
  BY <1>0, <1>7, <1>8, <1>11, <1>12, <1>13, <1>14, <1>15, <1>16, <1>19, <1>20, <1>21, <1>22
     DEF IInv, ListInv

LEMMA PushFreedKeepsIInv == ASSUME IInv, NEW t \in Thread, PushFreed(t) PROVE IInv'
<1>0. UNCHANGED <<next, object, pages, handleCount, sharers, owner>>
  BY DEF PushFreed, lockVars
<1>1. CASE /\ \/ pc[t] = "pushFirst" /\ pc' = [pc EXCEPT ![t] = "toFirst"]
              \/ pc[t] = "pushLast" /\ pc' = [pc EXCEPT ![t] = "toLast"]
           /\ UNCHANGED <<firstFree, lastFree, handle, link, lock>>
  <2>1. /\ \/ pc[t] = "pushFirst" /\ pc'[t] = "toFirst"
           \/ pc[t] = "pushLast" /\ pc'[t] = "toLast"
        /\ Others(t)
    BY <1>1, Typed DEF Others
  <2>2. TableTypeOK'
    BY <1>0, <1>1 DEF IInv, TableTypeOK, Pc
  <2>3. LockInv'
    BY <1>0, <1>1, <2>1, LockKept DEF IInv, TablePc, SharePc, WaitPc
  <2>4. ThreadInv(t)'
    BY <1>0, <1>1, <2>1, SameThread DEF GrowPc, SharePc, GivePc, FreePc
  <2>. QED
    BY <1>0, <1>1, <2>1, <2>2, <2>3, <2>4, StepKeepsIInv
       DEF GrowPc, HoldPc, GivePc, FreePc, MovePc, WaitPc, Counting
<1>2. CASE /\ Return(t)
           /\ \/ /\ pc[t] = "pushFirst" /\ firstFree = link[t] /\ firstFree' = handle[t]
                 /\ lastFree' = lastFree
              \/ /\ pc[t] = "pushLast" /\ lastFree = link[t] /\ lastFree' = handle[t]
                 /\ firstFree' = firstFree
  BY <1>0, <1>2, PushedKeepsIInv
<1>. QED  BY <1>1, <1>2 DEF PushFreed, Goto, StillHead, localVars

-----------------------------------------------------------------------------
(* The theorems *)

LEMMA InitIInv == ASSUME Init PROVE IInv
<1>0. /\ Page(0) \subseteq Handle /\ 1 \in Page(0) /\ 0 \notin Handle
      /\ \A h \in Page(0) : h \in Int /\ h + 1 # 1 /\ h < PageEntries
  <2>1. 0 \in Nat /\ 0 < MaxPages /\ 0 * PageEntries = 0 /\ (0 + 1) * PageEntries = PageEntries
    BY PageAssumption
  <2>. QED  BY <2>1, PageIs, HandleIs
<1>1. /\ \A h \in Page(0) : next[h] = IF h + 1 \in Page(0) THEN h + 1 ELSE 0
      /\ \A h \in Handle \ Page(0) : next[h] = 0
      /\ next \in [Handle -> Link]
  BY <1>0 DEF Init, Chain, Link
<1>2. TableTypeOK
  BY <1>0, <1>1, PageAssumption, NoOneAssumption DEF Init, TableTypeOK, Pc, Link, Locks
<1>3. ~Growing /\ pages = 1
  BY DEF Init, Growing, GrowPc
<1>4. \A h \in Page(0) : Usable(h)
  BY <1>0, <1>3, PageAssumption DEF Usable
<1>5. LockInv
  BY NoOneAssumption DEF Init, LockInv, SweepInv, TablePc, SharePc, WaitPc, Locks
<1>6. \A t \in Thread : ThreadInv(t)
  BY DEF Init, ThreadInv, SharePc, HoldPc, GivePc, FreePc
<1>7. HoldInv /\ PageInv /\ ObjectInv
  BY DEF Init, HoldInv, PageInv, ObjectInv, HoldPc, GivePc, FreePc, GrowPc
<1>8. handleCount = Cardinality(InUse) + Cardinality(Counting)
  <2>1. InUse = {} /\ Counting = {}
    BY DEF Init, InUse, Counting
  <2>. QED  BY <2>1, FS_EmptySet DEF Init
<1>. DEFINE list == [h \in Handle |-> IF h \in Page(0) THEN "first" ELSE "none"]
<1>9. list \in [Handle -> Lists] /\ \A h \in Handle :
         /\ list[h] # "none" <=> h \in Page(0)
         /\ list[h] = "first" <=> h \in Page(0)
  BY DEF Lists
<1>. HIDE DEF list
<1>10. \A t \in Thread : pc[t] \notin HoldPc \cup MovePc \cup {"next", "take"}
  BY DEF Init, HoldPc, GivePc, FreePc, MovePc, WaitPc
<1>11. FreeInv(list)
  <2>1. \A h \in Page(0) : next[h] # 0 => next[h] \in Page(0)
    BY <1>1
  <2>. QED  BY <1>0, <1>4, <1>9, <1>10, <2>1 DEF Init, FreeInv
<1>12. HeadInv(list)
  BY <1>0, <1>9, <1>10 DEF Init, HeadInv
<1>13. ApartInv(list)
  <2>1. ASSUME NEW h \in Handle, list[h] # "none", next[h] # 0
        PROVE  h \in Int /\ next[h] = h + 1 /\ next[h] # firstFree /\ next[h] # lastFree
    <3>1. h \in Page(0) /\ h \in Int /\ h + 1 # 1
      BY <1>0, <1>9, <2>1
    <3>2. next[h] = h + 1
      BY <1>1, <2>1, <3>1
    <3>3. firstFree = 1 /\ lastFree = 0
      BY DEF Init
    <3>. QED  BY <2>1, <3>1, <3>2, <3>3
  <2>2. ASSUME NEW h \in Handle, NEW g \in Handle, list[h] # "none", list[g] # "none",
               next[h] = next[g], next[h] # 0
        PROVE  h = g
    <3>1. h \in Int /\ g \in Int /\ h + 1 = g + 1
      BY <2>1, <2>2
    <3>. QED  BY <3>1
  <2>. QED  BY <1>10, <2>1, <2>2 DEF ApartInv
<1>14. TakeInv(list)
  BY <1>10 DEF TakeInv
<1>. QED
  BY <1>2, <1>5, <1>6, <1>7, <1>8, <1>9, <1>11, <1>12, <1>13, <1>14 DEF IInv, ListInv

\* A step after which no handle has been exposed keeps the invariant.
LEMMA NextKeepsIInv == ASSUME IInv, [Next]_vars, ~exposed' PROVE IInv'
<1>1. CASE UNCHANGED vars
  BY <1>1 DEF vars, IInv, TableTypeOK, LockInv, SweepInv, ThreadInv, Usable, Growing, HoldInv,
     PageInv, LastOfPage, ObjectInv, InUse, Counting, ListInv, FreeInv, HeadInv, ApartInv, TakeInv,
     Taking
<1>2. ASSUME NEW t \in Thread, Allocate(t) PROVE IInv'
  BY <1>2, ReadFirstKeepsIInv, LockTableKeepsIInv, RecheckKeepsIInv, TakeLastKeepsIInv,
     WaitOnKeepsIInv, WaitAcquireKeepsIInv, WaitReleaseKeepsIInv, MoveToFirstKeepsIInv,
     GrowKeepsIInv, LinkPageKeepsIInv, PushPageKeepsIInv, UnlockTableKeepsIInv, FailedKeepsIInv,
     ShareKeepsIInv, CheckKeepsIInv, ReadNextKeepsIInv, TakeKeepsIInv, UnshareKeepsIInv,
     CountUpKeepsIInv, WriteKeepsIInv, UnlockKeepsIInv DEF Allocate
<1>3. ASSUME NEW t \in Thread, Release(t) PROVE IInv'
  BY <1>3, DestroyKeepsIInv, ClearKeepsIInv, CountDownKeepsIInv, ChooseKeepsIInv,
     LinkFreedKeepsIInv, PushFreedKeepsIInv DEF Release
<1>. QED  BY <1>1, <1>2, <1>3 DEF Next

\* What was exposed stays so.
LEMMA ExposedStays == ASSUME exposed, [Next]_vars PROVE exposed'
BY DEF Next, vars, Allocate, Release, Choose, history

\* Until ExpFreeHandleTableEntry puts a handle back in front of a thread about
\* to take it, the inductive invariant holds.
THEOREM Invariance == Spec => [](exposed \/ IInv)
<1>1. Init => exposed \/ IInv
  BY InitIInv
<1>2. (exposed \/ IInv) /\ [Next]_vars => (exposed \/ IInv)'
  BY NextKeepsIInv, ExposedStays
<1>. QED  BY <1>1, <1>2, PTL DEF Spec
\* One step keeps the types, also after a handle was exposed.
LEMMA NextKeepsTypes == ASSUME TypeOK, [Next]_vars PROVE TypeOK'
<1>0. /\ firstFree \in Link /\ lastFree \in Link /\ next \in [Handle -> Link]
      /\ object \in [Handle -> {"NULL", "locked", "unlocked"}] /\ pages \in 1 .. MaxPages
      /\ handleCount \in Int /\ sharers \in [Locks -> SUBSET Thread]
      /\ owner \in [Locks -> Thread \cup {NoOne}] /\ pc \in [Thread -> Pc]
      /\ handle \in [Thread -> Link] /\ link \in [Thread -> Link] /\ lock \in [Thread -> Locks]
      /\ exposed \in BOOLEAN /\ lost \subseteq Link
  BY DEF TypeOK, TableTypeOK
<1>1. /\ 0 \in Link /\ Access \in Link /\ Handle \subseteq Link
      /\ \A h \in Link : LockOf(h) \in Locks
  <2>1. \A h \in Link : h \in Int
    BY HandleIs DEF Link, Access
  <2>. QED  BY <2>1 DEF Link, LockOf, Locks
<1>2. 0 \in Locks /\ 1 \in Locks /\ \A i \in Locks : i # 3 => i + 1 \in Locks
  BY DEF Locks
<1>3. CASE UNCHANGED vars
  BY <1>0, <1>3 DEF vars, TypeOK, TableTypeOK
<1>4. ASSUME NEW t \in Thread, NEW h \in Link, Continue(t, h)
      PROVE  /\ handle' \in [Thread -> Link] /\ lock' \in [Thread -> Locks]
             /\ pc' \in [Thread -> Pc]
  BY <1>0, <1>1, <1>4 DEF Continue, SetHandle, SetLock, Goto, Pc
<1>5. ASSUME NEW t \in Thread, Return(t)
      PROVE  /\ handle' \in [Thread -> Link] /\ link' \in [Thread -> Link]
             /\ lock' \in [Thread -> Locks] /\ pc' \in [Thread -> Pc]
  BY <1>0, <1>1, <1>2, <1>5 DEF Return, SetHandle, SetLink, SetLock, Goto, Pc
<1>6. ASSUME NEW t \in Thread, NextLock(t)
      PROVE  lock' \in [Thread -> Locks] /\ pc' \in [Thread -> Pc]
  BY <1>0, <1>2, <1>6 DEF NextLock, SetLock, Goto, Pc
<1>7. ASSUME NEW t \in Thread, MoveToFirst(t), UNCHANGED exposed PROVE TypeOK'
  BY <1>0, <1>7 DEF MoveToFirst, SetHandle, Goto, lockVars, TypeOK, TableTypeOK, Pc
<1>8. ASSUME NEW t \in Thread, Choose(t) PROVE TypeOK'
  BY <1>0, <1>8 DEF Choose, ListFor, Goto, tableVars, listVars, lockVars, localVars, TypeOK,
     TableTypeOK, Pc
<1>9. ASSUME NEW t \in Thread, UNCHANGED history,
             ReadFirst(t) \/ LockTable(t) \/ Recheck(t) \/ TakeLast(t)
      PROVE TypeOK'
  <2>1. CASE ReadFirst(t)
    BY <1>0, <1>4, <1>9, <2>1
       DEF ReadFirst, tableVars, listVars, lockVars, history, TypeOK, TableTypeOK
  <2>2. CASE LockTable(t)
    BY <1>0, <1>2, <1>9, <2>2
       DEF LockTable, Own, Goto, listVars, localVars, history, TypeOK, TableTypeOK, Pc
  <2>3. CASE Recheck(t)
    BY <1>0, <1>9, <2>3
       DEF Recheck, SetHandle, Goto, tableVars, listVars, lockVars, history, TypeOK,
           TableTypeOK, Pc
  <2>4. CASE TakeLast(t)
    BY <1>0, <1>1, <1>2, <1>9, <2>4
       DEF TakeLast, SetLink, SetLock, Goto, lockVars, history, TypeOK, TableTypeOK, Pc
  <2>. QED  BY <1>9, <2>1, <2>2, <2>3, <2>4
<1>10. ASSUME NEW t \in Thread, UNCHANGED history,
              WaitOn(t) \/ WaitAcquire(t) \/ WaitRelease(t)
       PROVE TypeOK'
  <2>1. CASE WaitOn(t)
    BY <1>0, <1>6, <1>10, <2>1
       DEF WaitOn, Goto, tableVars, listVars, lockVars, history, TypeOK, TableTypeOK, Pc
  <2>2. CASE WaitAcquire(t)
    BY <1>0, <1>10, <2>2
       DEF WaitAcquire, Own, Goto, listVars, localVars, history, TypeOK, TableTypeOK, Pc
  <2>3. CASE WaitRelease(t)
    BY <1>0, <1>6, <1>10, <2>3
       DEF WaitRelease, Disown, listVars, history, TypeOK, TableTypeOK
  <2>. QED  BY <1>10, <2>1, <2>2, <2>3
<1>11. ASSUME NEW t \in Thread, UNCHANGED history, Grow(t) \/ LinkPage(t) \/ PushPage(t)
       PROVE TypeOK'
  <2>1. CASE Grow(t)
    <3>1. CASE UNCHANGED <<next, pages>> /\ Goto(t, "unlockFailed")
      BY <1>0, <1>11, <2>1, <3>1
         DEF Grow, Goto, lockVars, localVars, history, TypeOK, TableTypeOK, Pc
    <3>2. CASE /\ pages < MaxPages
               /\ next' = [h \in Handle |-> IF h \in Page(pages) THEN Chain(pages, 0)[h]
                                            ELSE next[h]]
               /\ pages' = pages + 1
               /\ Goto(t, "linkPage")
      <4>1. pages \in Nat /\ pages' \in 1 .. MaxPages
        BY <1>0, <3>2, PageAssumption
      <4>2. Page(pages) \subseteq Link
        BY <1>1, <3>2, <4>1, PageIs
      <4>3. \A h \in Page(pages) : Chain(pages, 0)[h] \in Link
        BY <1>1, <4>2 DEF Chain
      <4>4. next' \in [Handle -> Link]
        BY <1>0, <3>2, <4>3
      <4>. QED
        BY <1>0, <1>11, <2>1, <3>2, <4>1, <4>4
           DEF Grow, Goto, lockVars, localVars, history, TypeOK, TableTypeOK, Pc
    <3>. QED  BY <2>1, <3>1, <3>2 DEF Grow
  <2>2. CASE LinkPage(t)
    BY <1>0, <1>11, <2>2
       DEF LinkPage, SetLink, Goto, lockVars, history, TypeOK, TableTypeOK, Pc
  <2>3. CASE PushPage(t)
    <3>1. (pages - 1) * PageEntries + 1 \in Link
      <4>1. pages - 1 \in Nat /\ pages - 1 < MaxPages
        BY <1>0, PageAssumption
      <4>. QED  BY <1>1, <4>1, PageIs
    <3>. QED
      BY <1>0, <1>11, <2>3, <3>1
         DEF PushPage, Goto, lockVars, localVars, history, TypeOK, TableTypeOK, Pc
  <2>. QED  BY <1>11, <2>1, <2>2, <2>3
<1>12. ASSUME NEW t \in Thread, UNCHANGED history,
              UnlockTable(t) \/ Failed(t) \/ Share(t) \/ Check(t)
       PROVE TypeOK'
  <2>1. CASE UnlockTable(t)
    <3>1. handle[t] \in Link /\ link' \in [Thread -> Link]
      BY <1>0, <1>1, <2>1 DEF UnlockTable, SetLink
    <3>2. handle' \in [Thread -> Link] /\ lock' \in [Thread -> Locks] /\ pc' \in [Thread -> Pc]
      BY <1>0, <1>4, <2>1, <3>1 DEF UnlockTable, Goto, Pc
    <3>. QED
      BY <1>0, <1>12, <2>1, <3>1, <3>2
         DEF UnlockTable, Disown, listVars, history, TypeOK, TableTypeOK
  <2>2. CASE Failed(t)
    BY <1>0, <1>4, <1>5, <1>12, <2>2
       DEF Failed, tableVars, listVars, lockVars, history, TypeOK, TableTypeOK
  <2>3. CASE Share(t)
    BY <1>0, <1>12, <2>3
       DEF Share, Goto, listVars, localVars, history, TypeOK, TableTypeOK, Pc
  <2>4. CASE Check(t)
    BY <1>0, <1>12, <2>4
       DEF Check, Goto, tableVars, listVars, lockVars, localVars, history, TypeOK, TableTypeOK, Pc
  <2>. QED  BY <1>12, <2>1, <2>2, <2>3, <2>4
<1>13. ASSUME NEW t \in Thread, UNCHANGED history, ReadNext(t) \/ Take(t) \/ Unshare(t)
       PROVE TypeOK'
  BY <1>0, <1>13
     DEF ReadNext, Take, Unshare, SetLink, Goto, tableVars, listVars, lockVars, localVars, history,
         TypeOK, TableTypeOK, Pc
<1>14. ASSUME NEW t \in Thread, UNCHANGED history, CountUp(t) \/ Write(t) \/ Unlock(t)
       PROVE TypeOK'
  <2>1. CASE CountUp(t)
    BY <1>0, <1>14, <2>1
       DEF CountUp, Goto, listVars, lockVars, localVars, history, TypeOK, TableTypeOK, Pc
  <2>2. CASE Write(t)
    BY <1>0, <1>1, <1>14, <2>2
       DEF Write, Goto, lockVars, localVars, history, TypeOK, TableTypeOK, Pc
  <2>3. CASE Unlock(t)
    BY <1>0, <1>5, <1>14, <2>3
       DEF Unlock, listVars, lockVars, history, TypeOK, TableTypeOK
  <2>. QED  BY <1>14, <2>1, <2>2, <2>3
<1>15. ASSUME NEW t \in Thread, UNCHANGED history, Destroy(t) \/ Clear(t) \/ CountDown(t)
       PROVE TypeOK'
  BY <1>0, <1>1, <1>15
     DEF Destroy, Clear, CountDown, SetHandle, Goto, listVars, lockVars, localVars, history,
         TypeOK, TableTypeOK, Pc
<1>16. ASSUME NEW t \in Thread, UNCHANGED history, LinkFreed(t) \/ PushFreed(t) PROVE TypeOK'
  <2>1. CASE LinkFreed(t)
    BY <1>0, <1>16, <2>1
       DEF LinkFreed, SetLink, Goto, lockVars, history, TypeOK, TableTypeOK, Pc
  <2>2. CASE PushFreed(t)
    BY <1>0, <1>5, <1>16, <2>2
       DEF PushFreed, Goto, lockVars, localVars, history, TypeOK, TableTypeOK, Pc
  <2>. QED  BY <1>16, <2>1, <2>2
<1>17. ASSUME NEW t \in Thread, Allocate(t) PROVE TypeOK'
  BY <1>7, <1>9, <1>10, <1>11, <1>12, <1>13, <1>14, <1>17 DEF Allocate
<1>18. ASSUME NEW t \in Thread, Release(t) PROVE TypeOK'
  BY <1>8, <1>15, <1>16, <1>18 DEF Release
<1>. QED  BY <1>3, <1>17, <1>18 DEF Next

\* The table keeps its types, whatever list a handle is freed to: the links
\* are handles, the pages stay within bounds and the lock indices below four.
THEOREM TypeCorrect == Spec => []TypeOK
<1>1. Init => TypeOK
  BY InitIInv DEF Init, IInv, TypeOK
<1>2. TypeOK /\ [Next]_vars => TypeOK'
  BY NextKeepsTypes
<1>. QED  BY <1>1, <1>2, PTL DEF Spec

\* ExpAllocateHandleTableEntry gives no handle out twice, whatever is freed and
\* moved between the read of an entry's link and the compare-exchange, unless
\* ExpFreeHandleTableEntry has put the handle of a thread that is about to take
\* it back on FirstFree.
THEOREM NoHandleTwice == Spec => []NoDoubleAllocation
<1>1. exposed \/ IInv => NoDoubleAllocation
  <2>. SUFFICES ASSUME IInv, NEW h \in Handle
       PROVE  /\ Cardinality(Holding(h)) <= 1
              /\ object[h] # "NULL" \/ Holding(h) # {} => h # firstFree /\ h # lastFree
    BY DEF NoDoubleAllocation
  <2>1. Holding(h) = {t \in Thread : handle[t] = h /\ pc[t] \in HoldPc}
    BY DEF Holding, HoldPc, GivePc, FreePc
  <2>2. Cardinality(Holding(h)) <= 1
    <3>1. CASE Holding(h) = {}
      BY <3>1, FS_EmptySet
    <3>2. CASE Holding(h) # {}
      <4>1. PICK t : Holding(h) = {t}
        BY <2>1, <3>2 DEF IInv, HoldInv
      <4>2. Cardinality({t}) = 1
        BY FS_Singleton
      <4>. QED  BY <4>1, <4>2
    <3>. QED  BY <3>1, <3>2
  <2>3. object[h] # "NULL" \/ Holding(h) # {} => h # firstFree /\ h # lastFree
    BY <2>1, HeadIs, HandleIs
  <2>. QED  BY <2>2, <2>3
<1>. QED  BY <1>1, Invariance, PTL

\* HandleCount, which ExpAllocateHandleTableEntry and ExpFreeHandleTableEntry
\* change on their own, is exact up to the calls that are between the two, as
\* long as no handle was put back in front of a thread about to take it.
THEOREM HandlesCounted == Spec => []CountExact
<1>1. exposed \/ IInv => CountExact
  <2>. SUFFICES ASSUME IInv PROVE CountExact
    BY DEF CountExact
  <2>1. ASSUME NEW h \in Handle, object[h] # "NULL", NEW t \in Holding(h)
        PROVE  pc[t] \in {"unlock", "clear"}
    <3>1. t \in Thread /\ handle[t] = h /\ pc[t] \in HoldPc
      BY <2>1 DEF Holding, HoldPc, GivePc, FreePc
    <3>. QED  BY <2>1, <3>1, HeldIs DEF HoldPc
  <2>2. {h \in Handle : object[h] # "NULL" /\ \A t \in Holding(h) : pc[t] \in {"unlock", "clear"}}
          = InUse
    BY <2>1 DEF InUse
  <2>. QED  BY <2>2 DEF IInv, CountExact, Counting
<1>. QED  BY <1>1, Invariance, PTL

\* The assertions of ExUnlockHandleTableEntry and of ExDestroyHandle, which the
\* code can fail, fail only after ExpFreeHandleTableEntry has put a handle back
\* in front of a thread that was about to take it.
THEOREM EntriesStayLocked == Spec => [](~exposed => EntryStaysLocked)
<1>1. (exposed \/ IInv) => (~exposed => EntryStaysLocked)
  BY DEF IInv, ThreadInv, EntryStaysLocked
<1>. QED  BY <1>1, Invariance, PTL
=============================================================================
