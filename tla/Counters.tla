------------------------------- MODULE Counters -------------------------------
(***************************************************************************)
(* The counters that threads share, of which design names one: the sloppy  *)
(* counters of sloppy_counter.c ("thread": a local count for every         *)
(* thread), sloppy_counter_cpu_based.c ("cpu": one for every processor)    *)
(* and cloppy_counter_only_global_lock.c ("stack": the same as "thread"    *)
(* without locks for the local counts), the counter with a mutex of        *)
(* timer.c ("mutex") and the unprotected one of t1.c ("race").             *)
(***************************************************************************)
EXTENDS Integers, FiniteSets, FiniteSetsExt

CONSTANTS num_threads, num_cpus,
          increments,         \* turns of each thread
          THRESHOLD

CountersAssumption ==
  /\ num_threads \in Nat /\ num_threads >= 2 /\ num_cpus \in Nat \ {0}
  /\ increments \in Nat /\ increments >= 2 /\ THRESHOLD \in Nat \ {0}

Workers == 0..(num_threads - 1)
Nobody == -1                  \* the owner of a free lock

VARIABLES
  design,
  global_count, global_lock,  \* in timer.c and t1.c counter and mutex
  local_counts, local_locks,
  reg,                        \* reg[t]: a count t has read and will write back
  turns,                      \* turns[t]: the loop index i of t
  total,                      \* what main prints in the end
  pc

vars == <<design, global_count, global_lock, local_counts, local_locks, reg, turns, total, pc>>

Sloppy == design \in {"thread", "cpu", "stack"}

\* The local count thread t adds to.
Slot(t) == IF design = "cpu" THEN t % num_cpus ELSE t

\* Where one turn of a thread begins.
Top ==
  CASE design \in {"thread", "cpu"} -> "lock"
    [] design = "stack" -> "count"
    [] design = "mutex" -> "glock"
    [] design = "race"  -> "load"

\* sloppy_counter_init and pthread_create; t1.c has two threads.
Init ==
  /\ design \in {"thread", "cpu", "stack", "mutex", "race"}
  /\ global_count = 0 /\ global_lock = Nobody
  /\ local_counts = [t \in Workers |-> 0]
  /\ local_locks = [t \in Workers |-> Nobody]
  /\ reg = [t \in Workers |-> 0]
  /\ turns = [t \in Workers |-> 0]
  /\ total = -1
  /\ pc = [t \in Workers |-> IF design = "race" /\ t > 1 THEN "done" ELSE Top]

Goto(t, from, to) == pc[t] = from /\ pc' = [pc EXCEPT ![t] = to]

\* The end of a turn of the thread's loop.
EndTurn(t, from) ==
  /\ turns' = [turns EXCEPT ![t] = @ + 1]
  /\ Goto(t, from, IF turns[t] + 1 = increments THEN "done" ELSE Top)

------------------------------------------------------------------------------
(* sloppy_counter_update *)

LockLocal(t) ==
  /\ Goto(t, "lock", "count")
  /\ local_locks[Slot(t)] = Nobody
  /\ local_locks' = [local_locks EXCEPT ![Slot(t)] = t]
  /\ UNCHANGED <<design, global_count, global_lock, local_counts, reg, turns, total>>

\* local_counts[..]++ is a read and a write.
ReadLocal(t) ==
  /\ Goto(t, "count", "counted")
  /\ reg' = [reg EXCEPT ![t] = local_counts[Slot(t)]]
  /\ UNCHANGED <<design, global_count, global_lock, local_counts, local_locks, turns, total>>

\* What follows the write of a local count, or of its reset.
AfterLocal == IF design = "stack" THEN "end" ELSE "unlock"

\* Mutant: the threshold is one too high.
OverThresholdLate(n) == n > THRESHOLD

OverThreshold(n) == n >= THRESHOLD

WriteLocal(t) ==
  /\ Goto(t, "counted", IF OverThreshold(reg[t] + 1) THEN "glock" ELSE AfterLocal)
  /\ local_counts' = [local_counts EXCEPT ![Slot(t)] = reg[t] + 1]
  /\ UNCHANGED <<design, global_count, global_lock, local_locks, reg, turns, total>>

\* Mutant: the global count is not locked.
LockGlobalNot(t) ==
  /\ Goto(t, "glock", "load")
  /\ UNCHANGED <<design, global_count, global_lock, local_counts, local_locks, reg, turns, total>>

LockGlobal(t) ==
  /\ Goto(t, "glock", "load")
  /\ global_lock = Nobody
  /\ global_lock' = t
  /\ UNCHANGED <<design, global_count, local_counts, local_locks, reg, turns, total>>

\* global_count += local_counts[..], or counter++ without local counts.
ReadGlobal(t) ==
  /\ Goto(t, "load", "store")
  /\ reg' = [reg EXCEPT ![t] = global_count + (IF Sloppy THEN local_counts[Slot(t)] ELSE 1)]
  /\ UNCHANGED <<design, global_count, global_lock, local_counts, local_locks, turns, total>>

WriteGlobal(t) ==
  /\ Goto(t, "store", IF design = "race" THEN "end" ELSE "gunlock")
  /\ global_count' = reg[t]
  /\ UNCHANGED <<design, global_lock, local_counts, local_locks, reg, turns, total>>

UnlockGlobal(t) ==
  /\ Goto(t, "gunlock", IF Sloppy THEN "reset" ELSE "end")
  /\ global_lock' = Nobody
  /\ UNCHANGED <<design, global_count, local_counts, local_locks, reg, turns, total>>

\* Mutant: what has been transferred stays in the local count.
ResetLocalNot(t) ==
  /\ Goto(t, "reset", AfterLocal)
  /\ UNCHANGED <<design, global_count, global_lock, local_counts, local_locks, reg, turns, total>>

ResetLocal(t) ==
  /\ Goto(t, "reset", AfterLocal)
  /\ local_counts' = [local_counts EXCEPT ![Slot(t)] = 0]
  /\ UNCHANGED <<design, global_count, global_lock, local_locks, reg, turns, total>>

UnlockLocal(t) ==
  /\ EndTurn(t, "unlock")
  /\ local_locks' = [local_locks EXCEPT ![Slot(t)] = Nobody]
  /\ UNCHANGED <<design, global_count, global_lock, local_counts, reg, total>>

\* A turn that holds no lock ends.
End(t) ==
  /\ EndTurn(t, "end")
  /\ UNCHANGED <<design, global_count, global_lock, local_counts, local_locks, reg, total>>

Step(t) ==
  \/ LockLocal(t) \/ ReadLocal(t) \/ WriteLocal(t)
  \/ LockGlobal(t) \/ ReadGlobal(t) \/ WriteGlobal(t) \/ UnlockGlobal(t)
  \/ ResetLocal(t) \/ UnlockLocal(t) \/ End(t)

------------------------------------------------------------------------------
Joined == \A t \in Workers : pc[t] = "done"
SumOf(f) == MapThenSumSet(LAMBDA t : f[t], Workers)

\* sloppy_counter_get, which main calls when it has joined every thread.
sloppy_counter_get ==
  /\ Joined /\ total = -1
  /\ total' = global_count + SumOf(local_counts)
  /\ UNCHANGED <<design, global_count, global_lock, local_counts, local_locks, reg, turns, pc>>

Finished == total # -1 /\ UNCHANGED vars

Next == (\E t \in Workers : Step(t)) \/ sloppy_counter_get \/ Finished

Spec == Init /\ [][Next]_vars

\* Every thread that can run is scheduled, main included.
FairSpec == Spec /\ WF_vars(sloppy_counter_get) /\ \A t \in Workers : WF_vars(Step(t))

------------------------------------------------------------------------------
(* Properties *)

\* Increments that have been written to a local count.
Made(t) ==
  turns[t] + (IF pc[t] \in {"glock", "load", "store", "gunlock", "reset", "unlock", "end"}
              THEN 1 ELSE 0)

\* What is in a local count and, already, in the global one.
Twice(t) == IF pc[t] \in {"gunlock", "reset"} THEN local_counts[Slot(t)] ELSE 0

\* A sloppy counter loses no increment and counts none twice, in the middle of the
\* transfers of other threads too.
Conserved ==
  Sloppy => global_count + SumOf(local_counts) - SumOf([t \in Workers |-> Twice(t)])
              = SumOf([t \in Workers |-> Made(t)])

\* The global count is never ahead of the increments, and behind them by at most
\* THRESHOLD for each local count.
SloppyBound ==
  Sloppy => SumOf([t \in Workers |-> Made(t)]) - global_count
              \in 0..(THRESHOLD * Cardinality({Slot(t) : t \in Workers}))

\* What main prints is what it says it expects.  In t1.c increments are lost, down
\* to a result of 2, and none is made up.
FinalCount ==
  total # -1 => IF design = "race" THEN total \in 2..(2 * increments)
                ELSE total = num_threads * increments

\* main prints a result: no thread is left behind at a lock.
Termination == <>(total # -1)
===============================================================================
