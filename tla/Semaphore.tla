------------------------------ MODULE Semaphore ------------------------------
(***************************************************************************)
(* What a counting semaphore promises to its callers, as the exercises     *)
(* under semaphores/ use it: a wait takes one unit of the value in a       *)
(* single step and only when there is one, a post adds one unit in a       *)
(* single step.  How a thread blocks is left open.                         *)
(***************************************************************************)
EXTENDS Integers

CONSTANTS Waiters,    \* threads that call wait
          Posters,    \* threads that call post
          InitValue   \* the argument of Zem_init / Sem_init

VARIABLES value,      \* units available
          returned    \* returned[t]: calls of t that have taken effect

vars == <<value, returned>>

Init ==
  /\ value = InitValue
  /\ returned = [t \in Waiters \cup Posters |-> 0]

Wait(t) ==
  /\ value > 0
  /\ value' = value - 1
  /\ returned' = [returned EXCEPT ![t] = @ + 1]

Post(t) ==
  /\ value' = value + 1
  /\ returned' = [returned EXCEPT ![t] = @ + 1]

Next ==
  \/ \E t \in Waiters : Wait(t)
  \/ \E t \in Posters : Post(t)

Spec == Init /\ [][Next]_vars
==============================================================================
