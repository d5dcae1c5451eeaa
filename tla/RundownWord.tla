---------------------------- MODULE RundownWord ----------------------------
EXTENDS Integers

(***************************************************************************)
(* The EX_RUNDOWN_REF word.  Bit 0 is EX_RUNDOWN_ACTIVE; the other bits    *)
(* are the number of references while it is clear, and the address of the  *)
(* owner's wait block, or zero, while it is set.                           *)
(***************************************************************************)
Counted(n) == [active |-> FALSE, block |-> FALSE, count |-> n]
Active     == [active |-> TRUE,  block |-> FALSE, count |-> 0]
Blocked    == [active |-> TRUE,  block |-> TRUE,  count |-> 0]

\* Mutant: the active bit is left in the value read.
Unmasked(v) == v

\* Value & ~EX_RUNDOWN_ACTIVE: a wait block's address without the bit is
\* not a word the descriptor can hold.
MaskActive(v) == [active |-> FALSE, block |-> v.block, count |-> v.count]

\* Value + EX_RUNDOWN_COUNT_INC * n, and Value - EX_RUNDOWN_COUNT_INC * n.
Plus(v, n)  == [active |-> v.active, block |-> v.block, count |-> v.count + n]
Minus(v, n) == [active |-> v.active, block |-> v.block, count |-> v.count - n]
=============================================================================
