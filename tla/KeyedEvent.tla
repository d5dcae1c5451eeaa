----------------------------- MODULE KeyedEvent -----------------------------
(***************************************************************************)
(* Keyed events: ExpReleaseOrWaitForKeyedEvent of                          *)
(* ntoskrnl/ex/keyedevt.c and the system calls around it.                  *)
(*                                                                         *)
(* A waiter and a releaser that name the same key meet: whoever comes      *)
(* second takes the other one off its list and signals its semaphore.      *)
(* What the code does under the push lock of the hash bucket is one step   *)
(* here; the wait for the semaphore and the clean-up after a wait that     *)
(* failed are steps of their own.  There is one bucket and one process:    *)
(* threads whose keys differ do not meet wherever their keys are hashed.   *)
(*                                                                         *)
(* The module has no specification of its own.  A thread enters with       *)
(* EnterKeyedEvent and goes on with KeyedStep until kpc[t] = "done", where *)
(* the caller takes it back with LeaveKeyedEvent.                          *)
(***************************************************************************)
EXTENDS Integers, Sequences, SequencesExt

CONSTANTS Thread, Key

NoKey == "none"

VARIABLES
    lists,      \* WaitListHead and ReleaseListHead of the bucket, oldest first
    key,        \* KeyedWaitValue of each thread
    semaphore,  \* KeyedWaitSemaphore of each thread is signalled
    timeout,    \* its Timeout: none at all, zero, or some time
    kpc,        \* where it is in the call
    status      \* what the call returns

kvars == <<lists, key, semaphore, timeout, kpc, status>>

Side        == {"wait", "release"}
Other(side) == IF side = "wait" THEN "release" ELSE "wait"

KeyedTypeOK ==
    /\ lists \in [Side -> Seq(Thread)]
    /\ key \in [Thread -> Key \cup {NoKey}]
    /\ semaphore \in [Thread -> BOOLEAN]
    /\ timeout \in [Thread -> {"none", "zero", "some"}]
    /\ kpc \in [Thread -> {"out", "waiting", "failed", "done"}]
    /\ status \in [Thread -> {"success", "timeout"}]

\* ExpInitializeKeyedEvent, and threads that have not used the event.
KeyedInit ==
    /\ lists = [s \in Side |-> << >>]
    /\ key = [t \in Thread |-> NoKey]
    /\ semaphore = [t \in Thread |-> FALSE]
    /\ timeout = [t \in Thread |-> "none"]
    /\ kpc = [t \in Thread |-> "out"]
    /\ status = [t \in Thread |-> "success"]

-----------------------------------------------------------------------------
\* The threads of a list that named key k, by their positions.
Partners(list, k) == {i \in DOMAIN list : key[list[i]] = k}

\* The first loop: the oldest partner is taken off its list and woken, and the
\* call is over.
Meet(t, side, k) ==
    LET list == lists[Other(side)]
    IN  \E i \in Partners(list, k) :
           /\ \A j \in Partners(list, k) : i <= j
           /\ lists' = [lists EXCEPT ![Other(side)] = RemoveAt(list, i)]
           /\ semaphore' = [semaphore EXCEPT ![list[i]] = TRUE]
           /\ kpc' = [kpc EXCEPT ![t] = "done"]
           /\ status' = [status EXCEPT ![t] = "success"]
           /\ UNCHANGED <<key, timeout>>

\* No partner is there: the thread joins the list of its own side.
Join(t, side, k, time) ==
    /\ Partners(lists[Other(side)], k) = {}
    /\ lists' = [lists EXCEPT ![side] = Append(@, t)]
    /\ key' = [key EXCEPT ![t] = k]
    /\ semaphore' = [semaphore EXCEPT ![t] = FALSE]
    /\ timeout' = [timeout EXCEPT ![t] = time]
    /\ kpc' = [kpc EXCEPT ![t] = "waiting"]
    /\ UNCHANGED status

\* NtWaitForKeyedEvent and NtReleaseKeyedEvent up to the wait.
EnterKeyedEvent(t, side, k, time) ==
    /\ kpc[t] = "out"
    /\ Meet(t, side, k) \/ Join(t, side, k, time)

\* KeWaitForSingleObject succeeds.
WaitSucceeds(t) ==
    /\ kpc[t] = "waiting"
    /\ semaphore[t]
    /\ semaphore' = [semaphore EXCEPT ![t] = FALSE]
    /\ status' = [status EXCEPT ![t] = "success"]
    /\ key' = [key EXCEPT ![t] = NoKey]
    /\ kpc' = [kpc EXCEPT ![t] = "done"]
    /\ UNCHANGED <<lists, timeout>>

\* KeWaitForSingleObject times out.
WaitTimesOut(t) ==
    /\ kpc[t] = "waiting"
    /\ ~semaphore[t]
    /\ timeout[t] # "none"
    /\ status' = [status EXCEPT ![t] = "timeout"]
    /\ kpc' = [kpc EXCEPT ![t] = "failed"]
    /\ UNCHANGED <<lists, key, semaphore, timeout>>

\* Mutant: a wait that failed leaves its entry on the list.
LeaveEntryBehind(t) ==
    /\ kpc[t] = "failed"
    /\ key' = [key EXCEPT ![t] = NoKey]
    /\ kpc' = [kpc EXCEPT ![t] = "done"]
    /\ UNCHANGED <<lists, semaphore, timeout, status>>

\* The clean-up after a failed wait: the thread takes itself off the list if
\* nobody has done so meanwhile.  It returns the failure in both cases.
CleanUp(t) ==
    /\ kpc[t] = "failed"
    /\ lists' = [s \in Side |-> RemoveFirst(lists[s], t)]
    /\ key' = [key EXCEPT ![t] = NoKey]
    /\ kpc' = [kpc EXCEPT ![t] = "done"]
    /\ UNCHANGED <<semaphore, timeout, status>>

KeyedStep(t) == WaitSucceeds(t) \/ WaitTimesOut(t) \/ CleanUp(t)

\* The system call returns to its caller, who has the status.
LeaveKeyedEvent(t) ==
    /\ kpc[t] = "done"
    /\ kpc' = [kpc EXCEPT ![t] = "out"]
    /\ timeout' = [timeout EXCEPT ![t] = "none"]
    /\ status' = [status EXCEPT ![t] = "success"]
    /\ UNCHANGED <<lists, key, semaphore>>

-----------------------------------------------------------------------------
\* A waiter and a releaser of one key are never both left on their lists, and
\* a thread that waits is on its list with its semaphore clear or off it with
\* its semaphore signalled: whatever the timeouts do, no meeting is missed and
\* a thread that was taken off a list is woken.
Rendezvous ==
    /\ \A s \in Side : \A i \in DOMAIN lists[s] :
          /\ kpc[lists[s][i]] \in {"waiting", "failed"}
          /\ Partners(lists[Other(s)], key[lists[s][i]]) = {}
    /\ \A t \in Thread : kpc[t] = "waiting" =>
          ((\E s \in Side : Contains(lists[s], t)) <=> ~semaphore[t])
=============================================================================
