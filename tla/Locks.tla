-------------------------------- MODULE Locks --------------------------------
(***************************************************************************)
(* pthread::mutex, read_lock and write_lock, lock_guard, and the           *)
(* exceptions that leave the scope of a guard (src/src/mutex.cpp,          *)
(* src/src/read_write_lock.cpp, src/include/pthread/lock_guard.hpp).       *)
(*                                                                         *)
(* Every thread executes a run() that takes one mutex and one              *)
(* read_write_lock, through a lock_guard or by hand with lock() and        *)
(* try_lock(), also while it holds one.  A counter is protected as in the  *)
(* producer/consumer test: read under the read lock, and incremented under *)
(* the write lock, which is a load and a store.  The body may throw; the   *)
(* guards release their locks, one taken by hand stays with the thread.    *)
(*                                                                         *)
(* pc[t]: run, asking (inside lock()), throwing (the stack is unwound),    *)
(* ended.  owner, writer and readers are the state of the POSIX objects,   *)
(* guards and byHand what the thread believes to hold.  Guards of one      *)
(* thread are nested in the code; here they may be left in any order,      *)
(* since no property depends on it.                                        *)
(***************************************************************************)
EXTENDS Exceptions, Integers

CONSTANTS Threads, NoThread,
          MaxDepth,    \* bound: locks a thread holds at the same time
          MaxValue,    \* bound: the counter
          Raises,      \* the exceptions a body may throw
          Catches      \* the classes of the handlers in run()

ASSUME LocksAssumption ==
  /\ NoThread \notin Threads
  /\ MaxDepth \in Nat /\ MaxValue \in Nat
  /\ Raises \subseteq Classes /\ Catches \subseteq Classes

Kinds == {"mutex", "read", "write"}
RwKinds == {"read", "write"}
NoError == "none"
NoWant == [kind |-> "mutex", guard |-> FALSE]    \* outside lock()
None == -1       \* no copy of the counter

VARIABLES owner,         \* of the mutex, or NoThread
          writer,        \* the thread that has the write lock, or NoThread
          readers,       \* readers[t]: how often t has the read lock
          writersFirst,  \* does a blocked writer keep new readers out?
          guards,        \* guards[t][k]: the lock_guards of kind k in t's scopes
          byHand,        \* byHand[t][k]: the locks taken without a guard
          pc,
          want,          \* want[t]: the lock() t is in
          failure,       \* failure[t]: the class of the exception in flight
          value,         \* the counter
          copy,          \* copy[t]: the counter as t has loaded it, or None
          terminated     \* std::terminate was called

lockVars == <<owner, writer, readers>>
heldVars == <<guards, byHand>>
vars == <<lockVars, writersFirst, heldVars, pc, want, failure, value, copy, terminated>>

(* Default attributes: which side of the read/write lock is preferred is   *)
(* up to the implementation.                                               *)
Init ==
  /\ owner = NoThread
  /\ writer = NoThread
  /\ readers = [t \in Threads |-> 0]
  /\ writersFirst \in BOOLEAN
  /\ guards = [t \in Threads |-> [k \in Kinds |-> 0]]
  /\ byHand = [t \in Threads |-> [k \in Kinds |-> 0]]
  /\ pc = [t \in Threads |-> "run"]
  /\ want = [t \in Threads |-> NoWant]
  /\ failure = [t \in Threads |-> NoError]
  /\ value = 0
  /\ copy = [t \in Threads |-> None]
  /\ terminated = FALSE

GoTo(t, label) == pc' = [pc EXCEPT ![t] = label]
Holds(t, k) == guards[t][k] + byHand[t][k] > 0
HoldsAny(t) == \E k \in Kinds : Holds(t, k)
Depth(t)    == guards[t]["mutex"] + guards[t]["read"] + guards[t]["write"]
               + byHand[t]["mutex"] + byHand[t]["read"] + byHand[t]["write"]

AsksFor(t, k) == pc[t] = "asking" /\ want[t].kind = k

-----------------------------------------------------------------------------
(* pthread_mutex_lock, pthread_rwlock_rdlock, pthread_rwlock_wrlock: does  *)
(* the call succeed now?  The try functions succeed in the same states.    *)
ReaderCanEnter ==
  /\ writer = NoThread
  /\ writersFirst => \A u \in Threads : ~AsksFor(u, "write")
Grantable(k) ==
  \/ k = "mutex" /\ owner = NoThread
  \/ k = "read"  /\ ReaderCanEnter
  \/ k = "write" /\ writer = NoThread /\ \A u \in Threads : readers[u] = 0

Take(t, k) ==
  /\ owner'   = IF k = "mutex" THEN t ELSE owner
  /\ writer'  = IF k = "write" THEN t ELSE writer
  /\ readers' = [readers EXCEPT ![t] = IF k = "read" THEN @ + 1 ELSE @]

(* Mutants of Release: unlocking a read/write lock only ends a write; it   *)
(* ends a read as well.                                                    *)
ReleaseWriteOnly(t, k) ==
  /\ owner'   = IF k = "mutex" THEN NoThread ELSE owner
  /\ writer'  = IF k \in RwKinds /\ writer = t THEN NoThread ELSE writer
  /\ UNCHANGED readers
  /\ copy' = [copy EXCEPT ![t] = IF k \in RwKinds THEN None ELSE @]

ReleaseBoth(t, k) ==
  /\ owner'   = IF k = "mutex" THEN NoThread ELSE owner
  /\ writer'  = IF k \in RwKinds /\ writer = t THEN NoThread ELSE writer
  /\ readers' = [readers EXCEPT ![t] = IF k \in RwKinds THEN @ - 1 ELSE @]
  /\ copy' = [copy EXCEPT ![t] = IF k \in RwKinds THEN None ELSE @]

(* mutex::unlock, and the one unlock that read and write locks share; what *)
(* has been loaded under the lock is used no more.                         *)
Release(t, k) ==
  /\ owner'   = IF k = "mutex" THEN NoThread ELSE owner
  /\ writer'  = IF k \in RwKinds /\ writer = t THEN NoThread ELSE writer
  /\ readers' = [readers EXCEPT ![t] = IF k \in RwKinds /\ writer # t THEN @ - 1 ELSE @]
  /\ copy' = [copy EXCEPT ![t] = IF k \in RwKinds THEN None ELSE @]

-----------------------------------------------------------------------------
(* A lock_guard is constructed, or lock() is called without one.           *)
Ask(t) ==
  /\ pc[t] = "run" /\ Depth(t) < MaxDepth
  /\ \E k \in Kinds, g \in BOOLEAN : want' = [want EXCEPT ![t] = [kind |-> k, guard |-> g]]
  /\ GoTo(t, "asking")
  /\ UNCHANGED <<lockVars, writersFirst, heldVars, failure, value, copy, terminated>>

(* lock() returns; a guard is constructed from now on.                     *)
Grant(t) ==
  LET k == want[t].kind IN
  /\ pc[t] = "asking" /\ Grantable(k)
  /\ Take(t, k)
  /\ IF want[t].guard THEN guards' = [guards EXCEPT ![t][k] = @ + 1] /\ UNCHANGED byHand
                      ELSE byHand' = [byHand EXCEPT ![t][k] = @ + 1] /\ UNCHANGED guards
  /\ GoTo(t, "run") /\ want' = [want EXCEPT ![t] = NoWant]
  /\ UNCHANGED <<writersFirst, failure, value, copy, terminated>>

(* Mutant of Refuse: the guard whose constructor throws is destroyed.      *)
RefuseAndUnlock(t) ==
  /\ pc[t] = "asking" /\ want[t].kind \in RwKinds /\ writer = t
  /\ Release(t, want[t].kind)
  /\ failure' = [failure EXCEPT ![t] = "read_write_lock_exception"]
  /\ GoTo(t, "throwing") /\ want' = [want EXCEPT ![t] = NoWant]
  /\ UNCHANGED <<writersFirst, heldVars, value, terminated>>

(* EDEADLK: the writer itself asks for the read/write lock.  lock() throws *)
(* inside the constructor of the guard, which therefore never unlocks.     *)
(* (An implementation need not detect this: the call may also hang.)       *)
Refuse(t) ==
  /\ pc[t] = "asking" /\ want[t].kind \in RwKinds /\ writer = t
  /\ failure' = [failure EXCEPT ![t] = "read_write_lock_exception"]
  /\ GoTo(t, "throwing") /\ want' = [want EXCEPT ![t] = NoWant]
  /\ UNCHANGED <<lockVars, writersFirst, heldVars, value, copy, terminated>>

(* Mutant of TryLock: try_lock() of a write lock takes the read lock.      *)
TryAsReader(t) ==
  /\ pc[t] = "run" /\ Depth(t) < MaxDepth
  /\ \E k \in Kinds :
       LET taken == IF k = "write" THEN "read" ELSE k IN
       /\ Grantable(taken)
       /\ Take(t, taken)
       /\ byHand' = [byHand EXCEPT ![t][k] = @ + 1]
  /\ UNCHANGED <<writersFirst, guards, pc, want, failure, value, copy, terminated>>

(* try_lock() succeeds.                                                    *)
TryLock(t) ==
  /\ pc[t] = "run" /\ Depth(t) < MaxDepth
  /\ \E k \in Kinds :
       /\ Grantable(k)
       /\ Take(t, k)
       /\ byHand' = [byHand EXCEPT ![t][k] = @ + 1]
  /\ UNCHANGED <<writersFirst, guards, pc, want, failure, value, copy, terminated>>

(* EBUSY: try_lock() of a read or write lock throws.  That of a mutex      *)
(* returns false, which changes nothing and is no step.                    *)
TryFails(t) ==
  /\ pc[t] = "run"
  /\ \E k \in RwKinds : ~Grantable(k)
  /\ failure' = [failure EXCEPT ![t] = "read_write_lock_exception"]
  /\ GoTo(t, "throwing")
  /\ UNCHANGED <<lockVars, writersFirst, heldVars, want, value, copy, terminated>>

(* counter() reads the counter; count() loads it as well, and stores what  *)
(* it has loaded plus one.  (Who holds the write lock has loaded under it: *)
(* no thread can hold both sides.)                                         *)
Load(t) ==
  /\ pc[t] = "run" /\ \E k \in RwKinds : Holds(t, k)
  /\ copy' = [copy EXCEPT ![t] = value]
  /\ UNCHANGED <<lockVars, writersFirst, heldVars, pc, want, failure, value, terminated>>

Increment(t) ==
  /\ pc[t] = "run" /\ Holds(t, "write")
  /\ copy[t] # None /\ value < MaxValue
  /\ value' = copy[t] + 1
  /\ copy' = [copy EXCEPT ![t] = copy[t] + 1]
  /\ UNCHANGED <<lockVars, writersFirst, heldVars, pc, want, failure, terminated>>

(* The scope of a guard ends, or unlock() is called.                       *)
LeaveScope(t, k) ==
  /\ pc[t] = "run"
  /\ Release(t, k)
  /\ \/ /\ guards[t][k] > 0
        /\ guards' = [guards EXCEPT ![t][k] = @ - 1] /\ UNCHANGED byHand
     \/ /\ byHand[t][k] > 0
        /\ byHand' = [byHand EXCEPT ![t][k] = @ - 1] /\ UNCHANGED guards
  /\ UNCHANGED <<writersFirst, pc, want, failure, value, terminated>>

(* Something in the body throws: sleep_for, join, put, get, a wait.        *)
Raise(t) ==
  /\ pc[t] = "run"
  /\ \E c \in Raises : failure' = [failure EXCEPT ![t] = c]
  /\ GoTo(t, "throwing")
  /\ UNCHANGED <<lockVars, writersFirst, heldVars, want, value, copy, terminated>>

(* Mutant of Unwind: the lock is not released on the way to the handler.   *)
UnwindSilently(t) ==
  /\ pc[t] = "throwing" /\ Caught(failure[t], Catches)
  /\ \E k \in Kinds :
       /\ guards[t][k] > 0
       /\ guards' = [guards EXCEPT ![t][k] = @ - 1]
  /\ copy' = [copy EXCEPT ![t] = None]
  /\ UNCHANGED <<lockVars, writersFirst, byHand, pc, want, failure, value, terminated>>

(* The destructors of the guards between throw and handler.                *)
Unwind(t) ==
  /\ pc[t] = "throwing" /\ Caught(failure[t], Catches)
  /\ \E k \in Kinds :
       /\ guards[t][k] > 0
       /\ Release(t, k)
       /\ guards' = [guards EXCEPT ![t][k] = @ - 1]
  /\ UNCHANGED <<writersFirst, byHand, pc, want, failure, value, terminated>>

Catch(t) ==
  /\ pc[t] = "throwing" /\ Caught(failure[t], Catches)
  /\ \A k \in Kinds : guards[t][k] = 0
  /\ failure' = [failure EXCEPT ![t] = NoError]
  /\ GoTo(t, "run")
  /\ UNCHANGED <<lockVars, writersFirst, heldVars, want, value, copy, terminated>>

(* No handler: run() is noexcept, so std::terminate is called before       *)
(* thread_startup_runnable could catch anything.                           *)
Escape(t) ==
  /\ pc[t] = "throwing" /\ ~Caught(failure[t], Catches)
  /\ terminated' = TRUE
  /\ UNCHANGED <<lockVars, writersFirst, heldVars, pc, want, failure, value, copy>>

(* run() returns; a lock taken by hand may have been forgotten.            *)
RunEnds(t) ==
  /\ pc[t] = "run" /\ \A k \in Kinds : guards[t][k] = 0
  /\ GoTo(t, "ended")
  /\ copy' = [copy EXCEPT ![t] = None]
  /\ UNCHANGED <<lockVars, writersFirst, heldVars, want, failure, value, terminated>>

Next ==
  /\ ~terminated
  /\ \E t \in Threads :
       \/ Ask(t) \/ Grant(t) \/ Refuse(t) \/ TryLock(t) \/ TryFails(t)
       \/ Load(t) \/ Increment(t) \/ RunEnds(t)
       \/ \E k \in Kinds : LeaveScope(t, k)
       \/ Raise(t) \/ Unwind(t) \/ Catch(t) \/ Escape(t)

Spec == Init /\ [][Next]_vars

(* Scopes end and what is locked by hand is unlocked at last, also in a    *)
(* body that throws again and again; handlers are reached; and a lock that *)
(* is free again and again is granted at last to whoever keeps waiting.    *)
FairSpec ==
  /\ Spec
  /\ \A t \in Threads : /\ \A k \in Kinds : SF_vars(LeaveScope(t, k) /\ ~terminated)
                        /\ WF_vars((Unwind(t) \/ Catch(t) \/ Escape(t)) /\ ~terminated)
                        /\ SF_vars(Grant(t) /\ ~terminated)

-----------------------------------------------------------------------------
Counts == [Kinds -> Nat]
LocksTypeOK ==
  /\ owner \in Threads \cup {NoThread}
  /\ writer \in Threads \cup {NoThread}
  /\ readers \in [Threads -> Nat]
  /\ writersFirst \in BOOLEAN
  /\ guards \in [Threads -> Counts]
  /\ byHand \in [Threads -> Counts]
  /\ pc \in [Threads -> {"run", "asking", "throwing", "ended"}]
  /\ want \in [Threads -> [kind : Kinds, guard : BOOLEAN]]
  /\ failure \in [Threads -> Classes \cup {NoError}]
  /\ value \in Nat
  /\ copy \in [Threads -> Nat \cup {None}]
  /\ terminated \in BOOLEAN

(* The POSIX objects and the scopes agree, whatever exceptions have been   *)
(* thrown, in the constructor of a guard included: a thread owns exactly   *)
(* the locks it has a guard for or has taken by hand.  A guard never       *)
(* unlocks what it does not hold, and no lock stays behind without one.    *)
GuardsMatch ==
  \A t \in Threads :
    /\ guards[t]["mutex"] + byHand[t]["mutex"] = (IF owner = t THEN 1 ELSE 0)
    /\ guards[t]["write"] + byHand[t]["write"] = (IF writer = t THEN 1 ELSE 0)
    /\ guards[t]["read"] + byHand[t]["read"] = readers[t]

(* What a thread has read of the counter under the read or the write lock  *)
(* is still its value as long as the thread uses it: increments are not    *)
(* lost, and readers see a stable value.                                   *)
CopiesCurrent == \A t \in Threads : copy[t] # None => copy[t] = value

(* To the bodies all this is a set of locks of which none is granted next  *)
(* to one that excludes it or given back by somebody else, and a counter   *)
(* whose increments are atomic.                                            *)
Held == [t \in Threads |-> [k \in Kinds |-> guards[t][k] + byHand[t][k]]]
Protected == INSTANCE LockedCounter WITH held <- Held
CounterProtected == Protected!Spec

(* Only a program that asks for a lock while it holds one, or that ends a  *)
(* thread without unlocking what it has locked by hand, can come to a      *)
(* halt: otherwise, when somebody waits, a lock can be granted or a thread *)
(* that holds one is free to go on.                                        *)
Nested(t)    == pc[t] = "asking" /\ HoldsAny(t)
Forgotten(t) == pc[t] = "ended" /\ HoldsAny(t)
Careful      == \A t \in Threads : ~Nested(t) /\ ~Forgotten(t)
NoHang ==
  Careful /\ (\E t \in Threads : pc[t] = "asking") =>
    \/ \E t \in Threads : pc[t] = "asking" /\ Grantable(want[t].kind)
    \/ \E t \in Threads : pc[t] \in {"run", "throwing"} /\ HoldsAny(t)

(* Handlers for the two families catch whatever the library throws: what   *)
(* reaches the end of run(), and ends the program there, is an exception   *)
(* of somebody else.                                                       *)
OnlyForeignEscapes ==
  terminated /\ Catches = Families => \E t \in Threads : failure[t] = "exception"

(* In a careful program nobody on the preferred side of the read/write     *)
(* lock starves, and nobody who waits for the mutex.                       *)
Served(k) == \A t \in Threads : AsksFor(t, k) ~> ~AsksFor(t, k)
PreferredServed ==
  []Careful /\ []~terminated =>
    Served("mutex") /\ (writersFirst => Served("write")) /\ (~writersFirst => Served("read"))

(* What the comment on read_lock::try_lock says: it fails when any thread  *)
(* holds the lock, for reading or writing; so at least when another does.  *)
TryReadAlone ==
  [][\A t \in Threads :
       TryLock(t) /\ byHand'[t]["read"] > byHand[t]["read"]
         => \A u \in Threads \ {t} : writer # u /\ readers[u] = 0]_vars

=============================================================================
