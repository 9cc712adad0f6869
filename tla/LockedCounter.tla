----------------------------- MODULE LockedCounter -----------------------------
(***************************************************************************)
(* What the locks of cpp-pthread promise to the bodies that use them       *)
(* (src/include/pthread/mutex.hpp, read_write_lock.hpp, lock_guard.hpp):   *)
(* a lock is taken only when nobody holds one that excludes it, it is kept *)
(* until the body that has taken it gives it back, and a counter that is   *)
(* read and then written under the write lock is incremented in one step.  *)
(* Guards, exceptions, waiting and the copies of the counter do not appear *)
(* here; Locks is shown to implement this specification.                   *)
(***************************************************************************)
EXTENDS Integers

CONSTANTS Threads

Kinds == {"mutex", "read", "write"}

VARIABLES held,     \* held[t][k]: the locks of kind k that the body of t has taken
          value     \* the counter

counterVars == <<held, value>>

CounterInit ==
  /\ held = [t \in Threads |-> [k \in Kinds |-> 0]]
  /\ value = 0

Excludes(j, k) == (j = k /\ k # "read") \/ {j, k} = {"read", "write"}

Acquire(t, k) ==
  /\ \A u \in Threads, j \in Kinds : Excludes(j, k) => held[u][j] = 0
  /\ held' = [held EXCEPT ![t][k] = @ + 1]
  /\ UNCHANGED value

GiveBack(t, k) ==
  /\ held[t][k] > 0
  /\ held' = [held EXCEPT ![t][k] = @ - 1]
  /\ UNCHANGED value

Add(t) ==
  /\ held[t]["write"] > 0
  /\ value' = value + 1
  /\ UNCHANGED held

CounterNext ==
  \E t \in Threads : Add(t) \/ (\E k \in Kinds : Acquire(t, k) \/ GiveBack(t, k))

Spec == CounterInit /\ [][CounterNext]_counterVars

=============================================================================
