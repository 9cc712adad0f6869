------------------------------ MODULE SyncQueue ------------------------------
(***************************************************************************)
(* pthread::util::sync_queue (src/include/pthread/sync_queue.hpp), the     *)
(* C++11 branch, which is the one CMakeLists.txt builds: a list, a mutex,  *)
(* two condition variables and an atomic maximum size that set_max_size    *)
(* writes without the mutex.                                               *)
(*                                                                         *)
(* put and get have the same shape, and so do their timed overloads: lock, *)
(* test a predicate, block on a condition variable while it is false, move *)
(* the item, notify the other condition variable, unlock.  pc[t] says      *)
(* where thread t is in that sequence:                                     *)
(*   idle     not in a call                                                *)
(*   lock     in lock_guard's constructor                                  *)
(*   test     holds the mutex, about to evaluate the predicate             *)
(*   wait     in pthread_cond_(timed)wait                                  *)
(*   act      the predicate was true, about to move the item               *)
(*   notify   the item is moved, about to call notify_one                  *)
(*   expired  timed out with a false predicate, about to call notify_all   *)
(*   unlock   about to leave the scope of the lock_guard                   *)
(***************************************************************************)
EXTENDS Monitor, Integers, Sequences

CONSTANTS Items,        \* the values of type T
          NoItem,       \* the target of a get before it has received an item
          InitSize,     \* argument of the constructor, an int
          Sizes,        \* arguments of set_max_size, values of size_t
          IntModulus,   \* 2^w for the width w of int
          SizeModulus,  \* 2^w for the width w of size_t
          CopyThrows    \* may copying a T (or allocating its node) throw?

Ops == {"get", "put"}
OwnSide(op) == op          \* mutant of Other: the caller's own side is notified
Other(op) == IF op = "get" THEN "put" ELSE "get"

(* The condition variable the two overloads of an operation block on.      *)
CvOf(op) == IF op = "get" THEN "not_empty" ELSE "not_full"
CVs == {"not_empty", "not_full"}

Ints == -(IntModulus \div 2) .. (IntModulus \div 2) - 1

ASSUME QueueAssumption ==
  /\ NoItem \notin Items
  /\ IntModulus \in Nat \ {0} /\ IntModulus % 2 = 0 /\ SizeModulus \in Nat \ {0}
  /\ InitSize \in Ints
  /\ Sizes \subseteq 0 .. SizeModulus - 1
  /\ CopyThrows \in BOOLEAN

VARIABLES items,    \* _items, oldest first
          maxSize,  \* _max_size
          pc, call, \* the control state and the call of every thread
          status,   \* wait_for's local status (cv_status)
          result    \* how the call in progress has ended, "none" before

queueVars == <<items, maxSize, pc, call, status, result>>
vars == <<monitorVars, queueVars>>

Calls == [op : {"put"}, timed : BOOLEAN, item : Items]
           \cup [op : {"get"}, timed : BOOLEAN, item : {NoItem}]
NoCall == [op |-> "get", timed |-> FALSE, item |-> NoItem]
Results == {"none", "ok", "queue_full", "queue_timeout", "cv_exception", "copy_exception"}
Labels  == {"idle", "lock", "test", "wait", "act", "notify", "expired", "unlock"}

-----------------------------------------------------------------------------
(* The conversions the maximum size goes through: set_max_size narrows a   *)
(* size_t to the int it stores, the predicates compare that int with a     *)
(* size_t, which widens it.                                                *)
ToIntUnchecked(n) == n                       \* mutant: no narrowing
ToInt(n)   == LET r == n % IntModulus
              IN  IF r < IntModulus \div 2 THEN r ELSE r - IntModulus
ToSizeT(i) == i % SizeModulus

(* The number of items the predicate of put compares size() with.          *)
Cap == ToSizeT(maxSize)

(* The lambdas the operations pass to wait and wait_for.                   *)
OffByOne    == Len(items) <= Cap       \* mutant of HasRoom: <= for <
OneKeptFree == Len(items) + 1 < Cap    \* mutant of HasRoom: + 1 < for <
HasRoom     == Len(items) < Cap
HasItem     == items # <<>>
Predicate(op) == (op = "get" /\ HasItem) \/ (op = "put" /\ HasRoom)

GoTo(t, label) == pc' = [pc EXCEPT ![t] = label]
End(t, r)      == GoTo(t, "unlock") /\ result' = [result EXCEPT ![t] = r]

Init ==
  /\ MonitorInit(CVs)
  /\ items = <<>>
  /\ maxSize = InitSize
  /\ pc = [t \in Threads |-> "idle"]
  /\ call = [t \in Threads |-> NoCall]
  /\ status = [t \in Threads |-> "no_timeout"]
  /\ result = [t \in Threads |-> "none"]

-----------------------------------------------------------------------------
(* A client calls put or get; the lock_guard is the first statement.       *)
Invoke(t) ==
  /\ pc[t] = "idle"
  /\ \E c \in Calls : call' = [call EXCEPT ![t] = c]
  /\ GoTo(t, "lock")
  /\ UNCHANGED <<monitorVars, items, maxSize, status, result>>

Acquire(t) ==
  /\ pc[t] = "lock"
  /\ Lock(t)
  /\ GoTo(t, "test")
  /\ UNCHANGED <<waiters, items, maxSize, call, status, result>>

(* The lambda returns true: wait and wait_for return true, whatever status *)
(* wait_for has noted.                                                     *)
Ready(t) ==
  /\ pc[t] = "test" /\ Predicate(call[t].op)
  /\ GoTo(t, "act")
  /\ UNCHANGED <<monitorVars, items, maxSize, call, status, result>>

(* The lambda returns false and no deadline has passed: block.             *)
Wait(t) ==
  /\ pc[t] = "test" /\ ~Predicate(call[t].op)
  /\ status[t] = "no_timeout"
  /\ Block(CvOf(call[t].op), t)
  /\ GoTo(t, "wait")
  /\ UNCHANGED <<items, maxSize, call, status, result>>

(* As Wait, but pthread_cond_timedwait refuses the deadline (EINVAL): it   *)
(* returns at once, with the mutex held, and wait_for throws.              *)
WaitRefused(t) ==
  /\ pc[t] = "test" /\ ~Predicate(call[t].op)
  /\ status[t] = "no_timeout" /\ call[t].timed
  /\ End(t, "cv_exception")
  /\ UNCHANGED <<monitorVars, items, maxSize, call, status>>

(* pthread_cond_wait may return without having been signalled.             *)
SpuriousWake(t) ==
  /\ pc[t] = "wait"
  /\ Leave(CvOf(call[t].op), t)
  /\ UNCHANGED <<owner, queueVars>>

(* ETIMEDOUT.  Only a thread that no notification has reached can time out. *)
Timeout(t) ==
  /\ pc[t] = "wait" /\ call[t].timed
  /\ Leave(CvOf(call[t].op), t)
  /\ status' = [status EXCEPT ![t] = "timedout"]
  /\ UNCHANGED <<owner, items, maxSize, pc, call, result>>

(* Mutant of Resume: an if in place of the loops around both waits.        *)
ResumeTrusting(t) ==
  /\ pc[t] = "wait" /\ t \notin waiters[CvOf(call[t].op)]
  /\ Lock(t)
  /\ GoTo(t, "act")
  /\ UNCHANGED <<waiters, items, maxSize, call, status, result>>

(* The wait returns: the thread has left the wait set and gets the mutex.  *)
Resume(t) ==
  /\ pc[t] = "wait" /\ t \notin waiters[CvOf(call[t].op)]
  /\ Lock(t)
  /\ GoTo(t, "test")
  /\ UNCHANGED <<waiters, items, maxSize, call, status, result>>

(* Mutants of Push and Pop: notify only when the queue stops being empty   *)
(* or full, an "optimisation" that forgets the other waiters.              *)
PushQuietly(t) ==
  /\ pc[t] = "act" /\ call[t].op = "put"
  /\ items' = Append(items, call[t].item)
  /\ GoTo(t, IF items = <<>> THEN "notify" ELSE "unlock")
  /\ result' = [result EXCEPT ![t] = "ok"]
  /\ UNCHANGED <<monitorVars, maxSize, call, status>>

PopQuietly(t) ==
  /\ pc[t] = "act" /\ call[t].op = "get"
  /\ call' = [call EXCEPT ![t].item = Head(items)]
  /\ items' = Tail(items)
  /\ GoTo(t, IF Len(items) >= Cap THEN "notify" ELSE "unlock")
  /\ result' = [result EXCEPT ![t] = "ok"]
  /\ UNCHANGED <<monitorVars, maxSize, status>>

(* push_back; front and pop_front.                                         *)
Push(t) ==
  /\ pc[t] = "act" /\ call[t].op = "put"
  /\ items' = Append(items, call[t].item)
  /\ GoTo(t, "notify")
  /\ result' = [result EXCEPT ![t] = "ok"]
  /\ UNCHANGED <<monitorVars, maxSize, call, status>>

Pop(t) ==
  /\ pc[t] = "act" /\ call[t].op = "get"
  /\ call' = [call EXCEPT ![t].item = Head(items)]
  /\ items' = Tail(items)
  /\ GoTo(t, "notify")
  /\ result' = [result EXCEPT ![t] = "ok"]
  /\ UNCHANGED <<monitorVars, maxSize, status>>

(* push_back throws, or the assignment from front() does: the list is      *)
(* unchanged, and the exception skips the call of notify_one.              *)
CopyFails(t) ==
  /\ CopyThrows
  /\ pc[t] = "act"
  /\ End(t, "copy_exception")
  /\ UNCHANGED <<monitorVars, items, maxSize, call, status>>

(* The last statement of put and get.                                      *)
Notify(t) ==
  /\ pc[t] = "notify"
  /\ NotifyOne(CvOf(Other(call[t].op)))
  /\ GoTo(t, "unlock")
  /\ UNCHANGED <<owner, items, maxSize, call, status, result>>

(* Mutant of GiveUp: the predicate is not tested again after ETIMEDOUT.    *)
GiveUpUntested(t) ==
  /\ pc[t] = "test"
  /\ status[t] = "timedout"
  /\ result' = [result EXCEPT ![t] = IF call[t].op = "put" THEN "queue_full"
                                                         ELSE "queue_timeout"]
  /\ GoTo(t, "expired")
  /\ UNCHANGED <<monitorVars, items, maxSize, call, status>>

(* The timed overloads, when the predicate is false after the deadline:    *)
(* queue_full or queue_timeout is thrown after the other side is notified. *)
GiveUp(t) ==
  /\ pc[t] = "test" /\ ~Predicate(call[t].op)
  /\ status[t] = "timedout"
  /\ result' = [result EXCEPT ![t] = IF call[t].op = "put" THEN "queue_full"
                                                         ELSE "queue_timeout"]
  /\ GoTo(t, "expired")
  /\ UNCHANGED <<monitorVars, items, maxSize, call, status>>

NotifyExpired(t) ==
  /\ pc[t] = "expired"
  /\ NotifyAll(CvOf(Other(call[t].op)))
  /\ GoTo(t, "unlock")
  /\ UNCHANGED <<owner, items, maxSize, call, status, result>>

(* The call ends, normally or with an exception.                           *)
Return(t) ==
  /\ pc[t] = "unlock"
  /\ Unlock(t)
  /\ GoTo(t, "idle")
  /\ call' = [call EXCEPT ![t] = NoCall]
  /\ status' = [status EXCEPT ![t] = "no_timeout"]
  /\ result' = [result EXCEPT ![t] = "none"]
  /\ UNCHANGED <<waiters, items, maxSize>>

(* set_max_size.  The argument is unsigned, so the test max_size >= 0 in   *)
(* front of the assignment is always true; neither the mutex nor the       *)
(* condition variables are used.                                           *)
SetMaxSize ==
  /\ \E n \in Sizes : maxSize' = ToInt(n)
  /\ UNCHANGED <<monitorVars, items, pc, call, status, result>>

(* What a thread does once it has made a call.                             *)
Step(t) ==
  \/ Acquire(t) \/ Resume(t)
  \/ Ready(t) \/ Wait(t) \/ WaitRefused(t) \/ GiveUp(t)
  \/ Push(t) \/ Pop(t) \/ CopyFails(t)
  \/ Notify(t) \/ NotifyExpired(t) \/ Return(t)

Next ==
  \/ \E t \in Threads : Invoke(t) \/ Step(t) \/ SpuriousWake(t) \/ Timeout(t)
  \/ SetMaxSize

Spec == Init /\ [][Next]_vars

(* A thread in a call keeps running and, as the mutex is released again    *)
(* and again, is not kept out of it for ever.  Nobody has to call, to wake *)
(* up spuriously or to time out.                                           *)
FairSpec == Spec /\ \A t \in Threads : WF_vars(Step(t)) /\ SF_vars(Acquire(t) \/ Resume(t))

-----------------------------------------------------------------------------
TypeOK ==
  /\ MonitorTypeOK(CVs)
  /\ items \in Seq(Items)
  /\ maxSize \in Ints
  /\ pc \in [Threads -> Labels]
  /\ call \in [Threads -> [op : Ops, timed : BOOLEAN, item : Items \cup {NoItem}]]
  /\ status \in [Threads -> {"no_timeout", "timedout"}]
  /\ result \in [Threads -> Results]

(* What the control state of a thread says about the rest of the state:    *)
(* the mutex is held exactly by the thread that is between its lock and    *)
(* its unlock or wait; a wait set holds only threads that are blocked on   *)
(* that condition variable; a put has an item and a get about to pop still *)
(* sees one; only a timed call in progress has timed out.                  *)
Inside == {"test", "act", "notify", "expired", "unlock"}

Consistent ==
  /\ \A t \in Threads : owner = t <=> pc[t] \in Inside
  /\ \A op \in Ops : \A t \in waiters[CvOf(op)] : pc[t] = "wait" /\ call[t].op = op
  /\ \A t \in Threads : call[t].op = "put" => call[t].item \in Items
  /\ \A t \in Threads : pc[t] = "act" /\ call[t].op = "get" => items # <<>>
  /\ \A t \in Threads : status[t] = "timedout" => pc[t] # "idle" /\ call[t].timed

IInv == TypeOK /\ Consistent

(* The threads that have been woken, or have not blocked, inside op and    *)
(* will test its predicate; those that will notify op's condition variable *)
(* because they have just moved an item.                                   *)
Seeking(op)   == {t \in Threads : /\ call[t].op = op
                                  /\ \/ pc[t] \in {"test", "act"}
                                     \/ pc[t] = "wait" /\ t \notin waiters[CvOf(op)]}
Notifying(op) == {t \in Threads : call[t].op = Other(op) /\ pc[t] = "notify"}
Aware(op)     == Seeking(op) \cup Notifying(op)

(* What the threads blocked in op wait for: items, or room for items.      *)
Supply(op) == IF op = "get" THEN Len(items) ELSE Cap - Len(items)

NoneLost(op) == waiters[CvOf(op)] # {} => Supply(op) <= Cardinality(Aware(op))

(* No wake-up of a get is lost: while a get is blocked, every item in the  *)
(* queue has been announced to some other get that is on its way to it, or *)
(* is about to be announced.  (put notifies one waiter per item; new       *)
(* callers may overtake the thread that was notified.)                     *)
NoLostItem == NoneLost("get")

(* No wake-up of a put is lost: while a put is blocked, every free place   *)
(* has been announced to some other put, or is about to be.                *)
NoLostRoom == NoneLost("put")

(* Wake-ups are lost in two kinds of step only: a copy that throws takes   *)
(* with it the wake-up of a thread that waits for the same operation, and  *)
(* a size that is raised is announced to no put.  Time-outs, refused       *)
(* deadlines, spurious wake-ups and sizes that shrink lose nothing.        *)
LostOnlyByFailure ==
  [][\A op \in Ops :
       NoneLost(op) /\ ~NoneLost(op)' =>
         \/ \E t \in Threads : CopyFails(t) /\ call[t].op = op
         \/ op = "put" /\ Cap' > Cap]_vars

(* Gets and puts never wait for each other: unless the maximum size is 0,  *)
(* it cannot be that a get and a put are blocked and no thread is on its   *)
(* way to either predicate.                                                *)
NoStandoff ==
  ~ /\ Cap > 0
    /\ waiters["not_empty"] # {} /\ waiters["not_full"] # {}
    /\ \A t \in Threads :
         \/ pc[t] \in {"idle", "lock", "unlock"}
         \/ pc[t] = "wait" /\ t \in waiters[CvOf(call[t].op)]

(* put stores an item only while the queue holds fewer than max_size.      *)
PutRespectsMaxSize == [][Len(items') > Len(items) => Len(items) < Cap]_vars

(* Every call takes effect in one instant: sync_queue is a FIFO queue that *)
(* loses, duplicates and reorders nothing, and whose timed calls give up   *)
(* only when the queue is full or empty.                                   *)
Phase(t) == IF pc[t] = "idle" THEN "idle"
            ELSE IF pc[t] \in {"notify", "expired", "unlock"} THEN "done"
            ELSE IF pc[t] = "act" /\ call[t].op = "put" THEN "reserved"
            ELSE "called"

Phases == [t \in Threads |-> Phase(t)]

Abstract == INSTANCE BoundedQueue WITH queue <- items, room <- Cap, phase <- Phases

Linearizable == Abstract!Spec

(* If a get stays blocked although there are items, then it is because     *)
(* other gets keep taking them: the gets as a whole never come to a halt.  *)
GetsProgress == <>[](items # <<>> /\ waiters["not_empty"] # {})
                  => []<><<\E t \in Threads : Pop(t)>>_vars

(* If a put stays blocked although there is room, then it is because other *)
(* puts keep taking it.                                                    *)
PutsProgress == <>[](Len(items) < Cap /\ waiters["not_full"] # {})
                  => []<><<\E t \in Threads : Push(t)>>_vars

=============================================================================
