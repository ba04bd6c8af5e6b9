------------------------------- MODULE NsMutex -------------------------------
(***************************************************************************)
(* mutex-nostarve.c: a mutex that hands ownership to waiting threads in    *)
(* the order of a linked list, and its main program, in which every thread *)
(* acquires and releases the mutex once.                                   *)
(*                                                                         *)
(* The list lives in malloc'd memory: Nodes are addresses, and an address  *)
(* that has been freed can be read, written and allocated again.           *)
(***************************************************************************)
EXTENDS Naturals, FiniteSets

CONSTANTS Threads, Nodes, NULL

NsAssumption ==
  /\ NULL \notin Nodes
  /\ IsFiniteSet(Threads) /\ IsFiniteSet(Nodes)
  /\ Cardinality(Nodes) >= Cardinality(Threads)

VARIABLES locked, head, tail,  \* the fields of ns_mutex_t
          guard,               \* value of m->guard
          heap,                \* allocated addresses
          next, sem,           \* the fields of each node
          n,                   \* n[t]: the node of thread t
          pc

vars == <<locked, head, tail, guard, heap, next, sem, n, pc>>

\* ns_mutex_init
Init ==
  /\ locked = 0 /\ head = NULL /\ tail = NULL /\ guard = 1
  /\ heap = {}
  /\ next = [a \in Nodes |-> NULL]
  /\ sem = [a \in Nodes |-> 0]
  /\ n = [t \in Threads |-> NULL]
  /\ pc = [t \in Threads |-> "start"]

Goto(t, label) == pc' = [pc EXCEPT ![t] = label]

------------------------------------------------------------------------------
(* ns_mutex_acquire *)

\* malloc may return any address that is free, and the node is initialised.
NewNode(t) ==
  /\ pc[t] = "start"
  /\ \E a \in Nodes \ heap :
       /\ heap' = heap \cup {a}
       /\ n' = [n EXCEPT ![t] = a]
       /\ sem' = [sem EXCEPT ![a] = 0]
       /\ next' = [next EXCEPT ![a] = NULL]
  /\ Goto(t, "acquire")
  /\ UNCHANGED <<locked, head, tail, guard>>

\* Sem_wait(&m->guard), in both operations.
WaitGuard(t) ==
  /\ pc[t] \in {"acquire", "release"}
  /\ guard > 0
  /\ guard' = guard - 1
  /\ Goto(t, IF pc[t] = "acquire" THEN "acquiring" ELSE "releasing")
  /\ UNCHANGED <<locked, head, tail, heap, next, sem, n>>

\* The mutex is free: take it, post the guard, free the node.
TakeFree(t) ==
  /\ pc[t] = "acquiring"
  /\ locked = 0
  /\ locked' = 1
  /\ guard' = guard + 1
  /\ Goto(t, "free")
  /\ UNCHANGED <<head, tail, heap, next, sem, n>>

\* The mutex is taken: append the node, and post the guard.  The tail may be the
\* address of a node that has been freed; the write goes there all the same.
Enqueue(t) ==
  /\ pc[t] = "acquiring"
  /\ locked # 0
  /\ IF tail # NULL
     THEN next' = [next EXCEPT ![tail] = n[t]] /\ UNCHANGED head
     ELSE head' = n[t] /\ UNCHANGED next
  /\ tail' = n[t]
  /\ guard' = guard + 1
  /\ Goto(t, "sleep")
  /\ UNCHANGED <<locked, heap, sem, n>>

\* Sem_wait(&n->sem)
Woken(t) ==
  /\ pc[t] = "sleep"
  /\ sem[n[t]] > 0
  /\ sem' = [sem EXCEPT ![n[t]] = @ - 1]
  /\ Goto(t, "free")
  /\ UNCHANGED <<locked, head, tail, guard, heap, next, n>>

\* free(n), and the mutex is held.
FreeNode(t) ==
  /\ pc[t] = "free"
  /\ heap' = heap \ {n[t]}
  /\ n' = [n EXCEPT ![t] = NULL]
  /\ Goto(t, "release")
  /\ UNCHANGED <<locked, head, tail, guard, next, sem>>

------------------------------------------------------------------------------
(* ns_mutex_release *)

\* Nobody is queued: the mutex is free.
Unlock(t) ==
  /\ pc[t] = "releasing"
  /\ head = NULL
  /\ locked' = 0
  /\ guard' = guard + 1
  /\ Goto(t, "done")
  /\ UNCHANGED <<head, tail, heap, next, sem, n>>

\* Mutant: the lock is marked free although the next thread is woken.
HandOverUnlocks(t) ==
  /\ pc[t] = "releasing"
  /\ head # NULL
  /\ head' = next[head]
  /\ sem' = [sem EXCEPT ![head] = @ + 1]
  /\ locked' = 0
  /\ guard' = guard + 1
  /\ Goto(t, "done")
  /\ UNCHANGED <<tail, heap, next, n>>

\* Mutant: the node is dequeued, but its thread is not woken.
HandOverSilently(t) ==
  /\ pc[t] = "releasing"
  /\ head # NULL
  /\ head' = next[head]
  /\ guard' = guard + 1
  /\ Goto(t, "done")
  /\ UNCHANGED <<locked, tail, heap, next, sem, n>>

\* Mutant: the thread is woken, but its node stays at the head.
HandOverKeepsHead(t) ==
  /\ pc[t] = "releasing"
  /\ head # NULL
  /\ sem' = [sem EXCEPT ![head] = @ + 1]
  /\ guard' = guard + 1
  /\ Goto(t, "done")
  /\ UNCHANGED <<locked, head, tail, heap, next, n>>

\* The first thread in the queue gets the mutex, which stays locked.  The tail
\* is not looked at, not even when the queue becomes empty.
HandOver(t) ==
  /\ pc[t] = "releasing"
  /\ head # NULL
  /\ head' = next[head]
  /\ sem' = [sem EXCEPT ![head] = @ + 1]
  /\ guard' = guard + 1
  /\ Goto(t, "done")
  /\ UNCHANGED <<locked, tail, heap, next, n>>

------------------------------------------------------------------------------
Step(t) ==
  \/ NewNode(t) \/ WaitGuard(t) \/ TakeFree(t) \/ Enqueue(t) \/ Woken(t) \/ FreeNode(t)
  \/ Unlock(t) \/ HandOver(t)

\* The threads that are left wait for one another, or all are done.
Stopped ==
  /\ \A t \in Threads : pc[t] = "done" \/ (pc[t] = "sleep" /\ sem[n[t]] = 0)
  /\ UNCHANGED vars

Next == (\E t \in Threads : Step(t)) \/ Stopped

Spec == Init /\ [][Next]_vars

\* Every thread that can run is scheduled.
FairSpec == Spec /\ \A t \in Threads : WF_vars(Step(t))

------------------------------------------------------------------------------
(* Properties *)

TypeOK ==
  /\ locked \in {0, 1} /\ guard \in {0, 1}
  /\ head \in Nodes \cup {NULL} /\ tail \in Nodes \cup {NULL}
  /\ heap \subseteq Nodes
  /\ next \in [Nodes -> Nodes \cup {NULL}]
  /\ sem \in [Nodes -> Nat]
  /\ n \in [Threads -> Nodes \cup {NULL}]
  /\ pc \in [Threads -> {"start", "acquire", "acquiring", "sleep", "free", "release",
                         "releasing", "done"}]

\* t has returned, or is returning, from ns_mutex_acquire and has not released.
Holds(t) ==
  \/ pc[t] \in {"free", "release", "releasing"}
  \/ pc[t] = "sleep" /\ sem[n[t]] > 0

\* At most one thread holds the mutex, and locked says whether one does, also
\* after the list has been appended to through a freed node.
MutualExclusion ==
  /\ \A t, u \in Threads : Holds(t) /\ Holds(u) => t = u
  /\ locked = 1 <=> \E t \in Threads : Holds(t)

\* What release hands over to is a live node whose thread sleeps on it: the
\* dangling tail never makes its way to the head of the list.
HeadIsWaiting ==
  head # NULL => \E t \in Threads : n[t] = head /\ pc[t] = "sleep" /\ sem[head] = 0

\* The thread whose node is at the head of the list gets the mutex.
FirstInQueueServed ==
  \A t \in Threads : (pc[t] = "sleep" /\ head = n[t]) ~> pc[t] = "release"

\* A thread that asks for the mutex gets it: nobody starves.
NoStarvation == \A t \in Threads : pc[t] = "acquire" ~> pc[t] = "release"
==============================================================================
