------------------------------- MODULE Vectors -------------------------------
(***************************************************************************)
(* concurrency-bugs: main-common.c and the five vector_add() it is built   *)
(* with, of which scheme names one: vector-deadlock.c ("deadlock"),        *)
(* vector-global-order.c ("order"), vector-try-wait.c ("try"),             *)
(* vector-avoid-hold-and-wait.c ("hold") and vector-nolock.c ("nolock").   *)
(*                                                                         *)
(* Vectors and their locks are numbered as in the array v, whose order is  *)
(* that of the addresses.  The elements of a vector are added one after    *)
(* the other and never mixed, so a vector has one.  print_lock is taken    *)
(* and released with no other lock held, only to print, and is left out.   *)
(***************************************************************************)
EXTENDS Integers, Sequences, FiniteSets

CONSTANTS num_threads, loops,
          MaxRetry            \* where retry stops counting

\* num_threads and loops come from the command line.
VectorsAssumption == num_threads \in Nat /\ loops \in Nat \ {0} /\ MaxRetry \in Nat \ {0}

Workers == 0..(num_threads - 1)
Schemes == {"deadlock", "order", "try", "hold", "nolock"}
Global == -1                  \* the lock of vector-avoid-hold-and-wait.c
Nobody == -1                  \* the owner of a free lock

VARIABLES
  scheme,
  cause_deadlock,             \* -d: odd threads swap source and destination
  enable_parallelism,         \* -p: every thread has vectors of its own
  v,                          \* values of the vectors
  owner,                      \* owner[l]: the thread that holds lock l
  held,                       \* held[t]: how many of its locks t holds
  reg,                        \* reg[t]: what t has read and computed
  turns,                      \* turns[t]: the loop index i of t
  retry,
  failed,                     \* how often trylock has failed
  pc

options == <<scheme, cause_deadlock, enable_parallelism>>
vars == <<options, v, owner, held, reg, turns, retry, failed, pc>>

\* args[t], and the arguments that worker makes of them.
vector_0(t) == IF enable_parallelism THEN 2 * t ELSE 0
vector_1(t) == vector_0(t) + 1
vector_add_order(t) == cause_deadlock /\ t % 2 = 1
dst(t) == IF vector_add_order(t) THEN vector_1(t) ELSE vector_0(t)
src(t) == IF vector_add_order(t) THEN vector_0(t) ELSE vector_1(t)

Slots == 0..(2 * num_threads + 1)

\* Where vector_add begins.
Top == IF scheme = "nolock" THEN "load" ELSE "lock"

\* main: options, vector_init and Pthread_create.
Init ==
  /\ scheme \in Schemes
  /\ cause_deadlock \in BOOLEAN /\ enable_parallelism \in BOOLEAN
  /\ v = [i \in Slots |-> i]
  /\ owner = [l \in Slots \cup {Global} |-> Nobody]
  /\ held = [t \in Workers |-> 0]
  /\ reg = [t \in Workers |-> 0]
  /\ turns = [t \in Workers |-> 0]
  /\ retry = 0 /\ failed = 0
  /\ pc = [t \in Workers |-> Top]

Goto(t, label) == pc' = [pc EXCEPT ![t] = label]

\* The end of a turn of worker's loop.
EndTurn(t) ==
  /\ turns' = [turns EXCEPT ![t] = @ + 1]
  /\ Goto(t, IF turns[t] + 1 = loops THEN "done" ELSE Top)

------------------------------------------------------------------------------
(* Locks *)

\* Mutant: the order of the addresses is not looked at.
AcquiresUnordered(t) ==
  CASE scheme \in {"deadlock", "try", "order"} -> <<dst(t), src(t)>>
    [] scheme = "hold"   -> <<Global, dst(t), src(t)>>
    [] scheme = "nolock" -> <<>>

\* Mutant: the vector that is only read is not locked.
AcquiresDst(t) ==
  CASE scheme \in {"deadlock", "try", "order"} -> <<dst(t)>>
    [] scheme = "hold"   -> <<Global, dst(t)>>
    [] scheme = "nolock" -> <<>>

\* The locks vector_add takes, in order.
Acquires(t) ==
  CASE scheme \in {"deadlock", "try"} -> <<dst(t), src(t)>>
    [] scheme = "order"  -> IF dst(t) < src(t) THEN <<dst(t), src(t)>>
                            ELSE IF dst(t) > src(t) THEN <<src(t), dst(t)>> ELSE <<src(t)>>
    [] scheme = "hold"   -> <<Global, dst(t), src(t)>>
    [] scheme = "nolock" -> <<>>

\* The locks it still has when it has added, in the order in which it drops them.
Releases(t) ==
  IF scheme = "order"
  THEN IF dst(t) # src(t) THEN <<src(t), dst(t)>> ELSE <<src(t)>>
  ELSE <<dst(t), src(t)>>

Wanted(t) == Acquires(t)[held[t] + 1]

\* Pthread_mutex_lock, or a trylock that succeeds.
Lock(t) ==
  /\ pc[t] = "lock"
  /\ owner[Wanted(t)] = Nobody
  /\ owner' = [owner EXCEPT ![Wanted(t)] = t]
  /\ held' = [held EXCEPT ![t] = @ + 1]
  /\ Goto(t, IF held[t] + 1 < Len(Acquires(t)) THEN "lock"
             ELSE IF scheme = "hold" THEN "ungate" ELSE "load")
  /\ UNCHANGED <<options, v, reg, turns, retry, failed>>

\* Pthread_mutex_unlock(&global)
Ungate(t) ==
  /\ pc[t] = "ungate"
  /\ owner' = [owner EXCEPT ![Global] = Nobody]
  /\ held' = [held EXCEPT ![t] = @ - 1]
  /\ Goto(t, "load")
  /\ UNCHANGED <<options, v, reg, turns, retry, failed>>

\* The trylock of vector-try-wait.c fails: retry++ begins by reading retry.
TryFails(t) ==
  /\ pc[t] = "lock" /\ scheme = "try" /\ held[t] = 1
  /\ owner[Wanted(t)] # Nobody
  /\ reg' = [reg EXCEPT ![t] = retry]
  /\ failed' = IF failed < MaxRetry THEN failed + 1 ELSE failed
  /\ Goto(t, "retry")
  /\ UNCHANGED <<options, v, owner, held, turns, retry>>

\* Mutant: retry is set and not counted.
RetryOnce(t) ==
  /\ pc[t] = "retry"
  /\ retry' = 1
  /\ Goto(t, "backoff")
  /\ UNCHANGED <<options, v, owner, held, reg, turns, failed>>

\* retry++ ends.
Retry(t) ==
  /\ pc[t] = "retry"
  /\ retry' = IF reg[t] < MaxRetry THEN reg[t] + 1 ELSE reg[t]
  /\ Goto(t, "backoff")
  /\ UNCHANGED <<options, v, owner, held, reg, turns, failed>>

\* The first lock is dropped, and vector_add starts again.
BackOff(t) ==
  /\ pc[t] = "backoff"
  /\ owner' = [owner EXCEPT ![dst(t)] = Nobody]
  /\ held' = [held EXCEPT ![t] = 0]
  /\ Goto(t, "lock")
  /\ UNCHANGED <<options, v, reg, turns, retry, failed>>

\* The locks are dropped one by one, and the turn ends.
Unlock(t) ==
  /\ pc[t] = "unlock"
  /\ owner' = [owner EXCEPT ![Releases(t)[Len(Releases(t)) - held[t] + 1]] = Nobody]
  /\ held' = [held EXCEPT ![t] = @ - 1]
  /\ IF held[t] = 1 THEN EndTurn(t) ELSE UNCHANGED <<turns, pc>>
  /\ UNCHANGED <<options, v, reg, retry, failed>>

------------------------------------------------------------------------------
(* v_dst->values[i] = v_dst->values[i] + v_src->values[i] *)

Load(t) ==
  /\ pc[t] = "load"
  /\ reg' = [reg EXCEPT ![t] = v[src(t)]]
  /\ Goto(t, IF scheme = "nolock" THEN "xadd" ELSE "sum")
  /\ UNCHANGED <<options, v, owner, held, turns, retry, failed>>

Sum(t) ==
  /\ pc[t] = "sum"
  /\ reg' = [reg EXCEPT ![t] = v[dst(t)] + @]
  /\ Goto(t, "store")
  /\ UNCHANGED <<options, v, owner, held, turns, retry, failed>>

Store(t) ==
  /\ pc[t] = "store"
  /\ v' = [v EXCEPT ![dst(t)] = reg[t]]
  /\ Goto(t, "unlock")
  /\ UNCHANGED <<options, owner, held, reg, turns, retry, failed>>

fetch_and_add(t) ==
  /\ pc[t] = "xadd"
  /\ v' = [v EXCEPT ![dst(t)] = @ + reg[t]]
  /\ EndTurn(t)
  /\ UNCHANGED <<options, owner, held, reg, retry, failed>>

Step(t) ==
  \/ Lock(t) \/ Ungate(t) \/ TryFails(t) \/ Retry(t) \/ BackOff(t) \/ Unlock(t)
  \/ Load(t) \/ Sum(t) \/ Store(t) \/ fetch_and_add(t)

\* t is blocked in pthread_mutex_lock.
Waits(t) ==
  /\ pc[t] = "lock" /\ owner[Wanted(t)] # Nobody
  /\ ~(scheme = "try" /\ held[t] = 1)

\* Some threads wait for one another in a circle.
Deadlock ==
  \E S \in (SUBSET Workers) \ {{}} : \A t \in S : Waits(t) /\ owner[Wanted(t)] \in S

\* main has joined every thread and calls fini, or waits for ever.
Stopped ==
  /\ \A t \in Workers : pc[t] = "done" \/ (Waits(t) /\ Deadlock)
  /\ UNCHANGED vars

Next == (\E t \in Workers : Step(t)) \/ Stopped

Spec == Init /\ [][Next]_vars

\* Every thread that can run is scheduled.
FairSpec == Spec /\ \A t \in Workers : WF_vars(Step(t))

------------------------------------------------------------------------------
(* Properties *)

\* The odd threads take the locks of the others in the opposite order.
Opposed == cause_deadlock /\ ~enable_parallelism

\* Locks are owned by threads, which hold at most three and take at most loops turns.
TypeOK ==
  /\ owner \in [Slots \cup {Global} -> Workers \cup {Nobody}]
  /\ held \in [Workers -> 0..3]
  /\ turns \in [Workers -> 0..loops]

\* Threads never wait for one another in a circle, except in vector-deadlock.c with -d.
NoDeadlock == Deadlock => scheme = "deadlock" /\ Opposed

\* Every addition is atomic: it adds what the source is to what the destination is
\* when it is written.  vector-nolock.c protects the destination only, so with -d
\* it may add what the source was.
AdditionsAtomic ==
  [][ \/ scheme = "nolock" /\ Opposed
      \/ \E t \in Workers : v' = [v EXCEPT ![dst(t)] = @ + v[src(t)]] ]_v

\* All threads finish, unless they deadlock, or keep each other from the second lock
\* for ever in vector-try-wait.c.
Termination ==
  (Opposed /\ scheme \in {"deadlock", "try"}) \/ <>(\A t \in Workers : pc[t] = "done")

\* The "Retries:" that fini prints: exact without -d, where v[0].lock protects retry.
\* With -d retry is raced for and may be less, but not 0 if a trylock failed.
RetriesCounted ==
  (\A t \in Workers : pc[t] = "done") =>
    /\ retry <= failed
    /\ failed > 0 => retry > 0
    /\ ~Opposed => retry = failed
==============================================================================
