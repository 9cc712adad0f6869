------------------------------- MODULE Monitor -------------------------------
(***************************************************************************)
(* The synchronisation primitives the rest of the library is built from:   *)
(* pthread::mutex (src/src/mutex.cpp) as lock_guard takes and releases it, *)
(* and the blocking and notifying half of pthread::condition_variable      *)
(* (src/src/condition_variable.cpp).  Every operator is one call; a module *)
(* that EXTENDS this one says at which point of which handler it is made.  *)
(*                                                                         *)
(* A thread that has blocked and is in no wait set any more has been       *)
(* woken, but pthread_cond_wait does not return to it before it has locked *)
(* the mutex again: that last step is Lock, taken by the thread itself.    *)
(***************************************************************************)
EXTENDS FiniteSets

CONSTANTS Threads,     \* the threads that share the monitor
          NoThread     \* "owner" of the free mutex

ASSUME MonitorAssumption == NoThread \notin Threads /\ IsFiniteSet(Threads)

VARIABLES owner,       \* the thread that holds the mutex, or NoThread
          waiters      \* waiters[cv]: the threads blocked on cv

monitorVars == <<owner, waiters>>

(* cvs: the condition variables that are used with the mutex.              *)
MonitorTypeOK(cvs) ==
  /\ owner \in Threads \cup {NoThread}
  /\ waiters \in [cvs -> SUBSET Threads]

MonitorInit(cvs) ==
  /\ owner = NoThread
  /\ waiters = [cv \in cvs |-> {}]

(***************************************************************************)
(* mutex::lock, called by lock_guard's constructor.  The mutex is created  *)
(* with default attributes: a thread that locks it twice waits for itself. *)
(***************************************************************************)
Lock(t) == owner = NoThread /\ owner' = t

(* mutex::unlock, called by lock_guard's destructor on every way out of    *)
(* the guarded scope, exceptions included.                                 *)
Unlock(t) == owner = t /\ owner' = NoThread

(* pthread_cond_wait and pthread_cond_timedwait: the mutex is released and *)
(* the caller is in the wait set in one step.                              *)
Block(cv, t) ==
  /\ Unlock(t)
  /\ waiters' = [waiters EXCEPT ![cv] = @ \cup {t}]

(* A blocked thread leaves the wait set by itself: spuriously, or because  *)
(* its deadline has passed.                                                *)
Leave(cv, t) ==
  /\ t \in waiters[cv]
  /\ waiters' = [waiters EXCEPT ![cv] = @ \ {t}]

(* condition_variable::notify_one: one of the blocked threads, if there is *)
(* any, and no other memory of the call.                                   *)
NotifyOne(cv) ==
  \/ waiters[cv] = {} /\ UNCHANGED waiters
  \/ \E w \in waiters[cv] : waiters' = [waiters EXCEPT ![cv] = @ \ {w}]

(* condition_variable::notify_all.                                         *)
NotifyAll(cv) == waiters' = [waiters EXCEPT ![cv] = {}]

=============================================================================
