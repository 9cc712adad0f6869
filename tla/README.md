# A TLA+ model of cpp-pthread

cpp-pthread wraps POSIX threads in the classes that C++11 has in its standard
library (`thread`, `mutex`, `condition_variable`, `lock_guard`) and builds on
them a few of its own (`sync_queue`, `thread_group`, read and write locks).
This directory holds TLA+ specifications of that code, TLC configurations that
check them on small instances, and proofs for TLAPS that cover every instance.
Line numbers refer to the files of the repository.

The specifications describe the C++11 branch, which is the one `CMakeLists.txt`
builds, not the one for older compilers.

## 1. Inventory

| component | state | operations | works with |
|---|---|---|---|
| `mutex`, `lock_guard` (`mutex.cpp`, `lock_guard.hpp`) | the POSIX mutex | `lock`, `try_lock`, `unlock`; a guard locks in its constructor and unlocks in its destructor | everything below |
| `condition_variable` (`condition_variable.hpp`, `.cpp`) | the POSIX condition variable, the member `timeout` | `wait` and `wait_for`, with and without a lambda; `notify_one`, `notify_all`; `milliseconds` computes `timeout` | the mutex or guard it is given |
| `sync_queue` (`sync_queue.hpp`) | a list, a mutex, two condition variables, an atomic maximum size | `put` and `get`, each with and without a time limit; `set_max_size`, `max_size`, `size`, `empty` | the three above |
| `read_lock`, `write_lock` (`read_write_lock.hpp`, `.cpp`) | the POSIX read/write lock | `lock`, `try_lock`, `unlock` | `lock_guard` |
| `thread` (`thread.hpp`, `thread.cpp`) | `_thread` (the id), `_status`, the attributes | construction, `join`, `joinable`, both moves, destruction | `runnable::run` |
| `abstract_thread` (same files) | the pointer `_thread` to a `thread` | `start`, `join`, `joinable`, destruction | `thread` |
| `thread_group` (same files) | the list `_threads`, `_destructor_joins_first` | `add`, `start`, `join`, `size`, destruction | `abstract_thread` |
| `this_thread::sleep_for`, `condition_variable::milliseconds` | none | arithmetic on durations | the clock |
| exceptions (`exceptions.hpp`) | two families of classes | throw and catch | all |
| version | a string | none | none |
| producer/consumer (`tests/synchronized_queue_tests.cpp`) | counters and a stop message | a client of the queue | `sync_queue`, `thread_group` |

**What is hard in this code**, and the properties that say it is right:

* *Two condition variables on one mutex* (`sync_queue`). A notification wakes
  one caller; a new caller may take the item first; a caller that was woken may
  time out. No wake-up may be lost (`NoLostItem`, `NoLostRoom`), the two sides
  may not block each other (`NoStandoff`), calls as a whole must make progress
  (`GetsProgress`, `PutsProgress`), and the queue must be a FIFO queue to its
  clients (`Linearizable`). Where a wake-up is lost after all, it must be in
  a step of a known kind (`LostOnlyByFailure`).
* *A maximum size that is changed without the mutex*, and that is narrowed to
  `int` and widened again (`TypeOK`, `Linearizable`, `PutRespectsMaxSize`).
* *A deadline that is a member*, computed by every waiter and read through a
  pointer after the mutex has been released (`NoEarlyTimeout`,
  `EarlyOnlyIfOverwritten`, `RefusedOnlyIfNegative`), and its arithmetic on
  seconds and rests (`CvTypeOK`).
* *A thread id that is used again* once it is joined, and *objects that are
  moved* (`OneOwner`, `StatusMatches`, `JoinDefined`, `NeverDropped`).
* *A join in five steps*, which others may execute at the same time, also with
  an id that denotes another thread by then (`JoinMeansEnded`), including the
  worker itself (`SelfJoinThrows`).
* *A destructor that joins and deletes* while workers run and join one another,
  after a start that may have failed half-way (`NoUseAfterFree`, `AllReaped`,
  `ForksAndJoins`, `Termination`).
* *Locks and exceptions*: guards whose constructor throws, bodies that throw,
  one `unlock` for both sides of a read/write lock, nested requests
  (`GuardsMatch`, `CopiesCurrent`, `CounterProtected`, `NoHang`,
  `PreferredServed`), and a `run()` that is `noexcept` (`OnlyForeignEscapes`).
* *Reads without the mutex*: `empty()`, `size()` and `max_size()`, and programs
  that act on what they are told (`PromiseKept`, `PollNeverBlocks`).
* *A stop message among messages*, several consumers and a producer that may be
  blocked (`Conserved`, `NothingLeft`, `AllConsumed`, `NotificationsSuffice`,
  `ProgramEnds`).

## 2. Modules

```
Monitor  <-- SyncQueue  --> BoundedQueue (implemented by SyncQueue)
             SyncQueue  <-- QueueObserver
             SyncQueue  <-- ProducerConsumer
Monitor  <-- ConditionVariable
Thread   <-- ThreadGroup --> ForkJoin (implemented by ThreadGroup)
Exceptions <-- Locks     --> LockedCounter (implemented by Locks)
MC<module>       small instances for TLC
<module>Proofs   theorems
```

(`A <-- B`: B extends A. `A --> B`: A contains an INSTANCE of B, with a
refinement mapping.)

| module | models |
|---|---|
| `Monitor` | `mutex::lock`, `mutex::unlock`, and blocking, leaving and notifying of a condition variable, as operators |
| `BoundedQueue` | what a `sync_queue` promises: every call is one atomic step of a FIFO queue |
| `SyncQueue` | `sync_queue`, all four operations and `set_max_size` |
| `QueueObserver` | `empty`, `size`, `max_size` next to the calls of `SyncQueue`, and programs that poll |
| `ProducerConsumer` | the program of `tests/synchronized_queue_tests.cpp`, over `SyncQueue` with all its steps |
| `ConditionVariable` | the timed waits and the deadline; the arithmetic of `sleep_for` |
| `Thread` | `thread`: construction, join, moves, destruction |
| `ThreadGroup` | `abstract_thread` and `thread_group` with a program that uses them |
| `ForkJoin` | what a `thread_group` promises: workers are started, end, are joined and then deleted, each once |
| `Exceptions` | the hierarchy of the exception classes, and what a handler catches |
| `Locks` | `mutex`, `read_lock`, `write_lock` and `lock_guard` in bodies that throw |
| `LockedCounter` | what the locks promise to a body: exclusion, locks that only their holder gives back, atomic increments |

### SyncQueue

One variable per member (`items`, `maxSize`, the mutex as `owner`, the wait sets
as `waiters`), and for every thread its place in the call (`pc`), its arguments
(`call`), `wait_for`'s local `status` and the `result`. A step is what the code
does between two points at which another thread can be observed:

| action | code |
|---|---|
| `Invoke`, `Acquire`, `Return` | call, constructor and destructor of the `lock_guard` |
| `Ready`, `Wait`, `WaitRefused`, `GiveUp` | one evaluation of the lambda in the loops of `wait` and `wait_for`, and what follows from it |
| `SpuriousWake`, `Timeout`, `Resume` | the end of `pthread_cond_(timed)wait` |
| `Push`, `Pop`, `CopyFails` | `push_back`; `front` and `pop_front`; an exception of either |
| `Notify`, `NotifyExpired` | `notify_one`; `notify_all` before `queue_full` or `queue_timeout` |
| `SetMaxSize` | `set_max_size`, at any moment |

`maxSize` is a signed number of `IntModulus` values that `put` compares after
conversion to one of `SizeModulus` values (`ToInt`, `ToSizeT`).

`BoundedQueue` has neither mutex nor wait sets. A put reserves room and then
stores its item: two steps, because the size may be lowered between them. The
refinement mapping sends `items` to `queue`, the converted size to `room`, and
`pc` to the five phases of a call (`Phase`).

### QueueObserver and ProducerConsumer

Both extend `SyncQueue` and leave its steps as they are; they only say when a
thread makes a call and what it does with the result.

In `QueueObserver` one thread, the `Poller`, asks before it calls: `!empty()`
before a get, `size() < max_size()` (two reads, `AskSize` and `AskMaxSize`)
before a put. All other threads call the other operation. `polled` chooses the
program; with `"none"` everybody calls everything, which is the workload of the
properties of the queue. The size is fixed. The reads race with `push_back` and `pop_front`. One
field is read, so the model places the read before or after the change.

In `ProducerConsumer`, `at` is where `run()` is outside the calls of the queue.
The producer puts `Messages` messages and the stop message (`Produce`,
`Produced`); a consumer gets with a time limit (`Consume`, `Received`,
`TimedOut`), counts (`Count`), and stops the program when it holds the stop
message (`Handle`). `count()` is one step, which is what `CopiesCurrent` of
`Locks` says of an increment under the write lock.

### ConditionVariable

Time counts in milliseconds, and a `timespec` is a number of seconds and a rest.
The actions follow `wait_for`: `Enter`, `ReadClock`, the stores of
`milliseconds` (`Store`, or with `Torn` one store per field: `StoreSec`,
`StoreCarry`, `StorePart`), `Test` for the lambda, `BlockTimed` or `Refuse`,
and the end of the wait (`Expire`, `Spurious`, `Wake`, `Depart`).
`ReadDeadline` is external: `pthread_cond_timedwait` receives a pointer, so it
may read the member when others have already overwritten it. The member starts
with an arbitrary value, as the constructor does not set it. `wanted` is the time
until which a call has asked to wait: its clock reading plus its duration.
`author` is history, which only the properties read: whose call has stored the
member last. `SleepFor` is what
`sleep_for` asks the system for, in microseconds.

### Thread and ThreadGroup

`os` and `joiner` are the operating system's: which ids denote a thread, whether
it has ended, who waits for it in `pthread_join`. `tid`, `status` and `exists`
are the objects. A join is five steps: the test of `_thread` (`JoinCall`), the
two other tests (`JoinGuard`), the call of `pthread_join` (`JoinAttach`), its
return with the assignment of `_status` (`JoinReap`), and the assignment of
`_thread` (`JoinClear`). Moving is `Swap`, as in the code.

`ThreadGroup` adds the pointer of `abstract_thread`, which `start` stores after
the new thread has begun (`StartThread`, `StorePointer`), and the loops of
`thread_group`. The id of a new thread is one that was never used or that belonged
to a thread which has been joined; `runs` says whose `run()` the thread with an id
executes, and `Has`, `Running` and `Gone` which thread is a worker's. A join that
was slower than another one on the same worker may therefore wait for the thread
of a worker that was started later. An iteration of a join asks `joinable()`, which reads `_thread`
(`AskJoinable`), and then calls `join` (`JoinAsked`); others may join the same
worker in between. `Main` is the program the documentation
shows: add, start, perhaps join, leave the scope. Without joins in the
destructor it calls `join`, as the tests do. `targets` says which workers a
`run()` may join, and is one of `Programs`; `run()` catches what `join` throws.
`joinsFirst` is `_destructor_joins_first`, which no step changes, and `failed`
notes that `start` has thrown: the exception ends the scope of the group, so
that a group that was to be joined by hand is not joined.

`ForkJoin` has no iterator, no ids and no calls of join. The refinement mapping
computes the stage of a worker's life (`Life`) from `deleted`, `os`, `runs`,
`exists` and `tid`: a worker with a pointer or an id and without a thread has been
joined. What the specification promises depends on whether the program is
`Careful`, which it ceases to be when a start fails in a group that does not join
in its destructor.

### Locks

Every thread runs a body that takes one mutex and one read/write lock in any
order, with a guard or by hand, also while it holds a lock, that loads and
increments a counter, and that may throw. `owner`, `writer` and `readers` are
the state of the POSIX objects; `guards` and `byHand` are what the program
believes. `Ask` and `Grant` are a `lock()`, `Refuse` its EDEADLK, `TryLock` and
`TryFails` the three `try_lock`s, `LeaveScope` the end of a guard's scope or an
`unlock()`. After a throw, `Unwind` runs the destructors of the guards and
`Catch` the handler, or `Escape` ends the program: `run()` is `noexcept`, so
`std::terminate` is called and the `catch (...)` of `thread_startup_runnable`
is never reached. `writersFirst` is the preference of the implementation, which
default attributes leave open.

`LockedCounter` knows neither guards nor exceptions: `held` counts the locks a
body has, however it has taken them, and `value` is incremented in one step by
whoever has the write lock. The mapping adds `guards` and `byHand`; `copy`, and
with it the load before an increment, disappears.

## 3. Runs

Every run and its properties are in `PROJECT.json`; the bounds are these.

| run | instance | distinct states | shows |
|---|---|---|---|
| `queue_progress` | 3 threads, one of which may poll, 1 item, size 2 | 39,126 | no lost wake-up, no standoff, progress, the size is respected, polling works |
| `queue_faults` | 3 threads, 2 items, sizes 1 and 4 on 2-bit ints, copies may throw | 321,904 | types, control state, refinement of `BoundedQueue`, which steps lose a wake-up |
| `queue_resize_progress` | 3 threads, 1 item, sizes 1 and 2 | violation | raising the size wakes no blocked put |
| `producer_consumer` | a producer, 3 consumers, 4 messages, size 2 | 44,838 | every message is counted once, nothing is left, nobody needs a time-out before the stop, the program ends |
| `cv_shared` | 2 timed threads, durations -3, -1, 0, 1, 3, half-stored deadlines | 5,660,868 | the deadline is normalised; a time-out that is early and a refusal that is not deserved are another call's doing |
| `cv_mixed` | 2 timed threads, durations 1 and 3 | violation | the shorter wait ends the longer one |
| `thread_moves` | 3 objects, 3 ids | 12,360 | ownership through moves, joins and destructions |
| `thread_moved_from` | the same | violation | the source of an assignment may still be a thread |
| `group_scope` | 4 workers, 4 programs (`AllPrograms`): joins of later workers or of oneself, of the first worker by all others, in a chain, and of one worker by two others while its id may pass to the fourth; starts may fail; joins in the destructor or by hand | 346,839 | nothing is used after it is deleted, a join that returns has waited, all threads are joined, refinement of `ForkJoin`, the program ends |
| `group_self_join` | 4 workers | violation | a self-join before the pointer is stored does nothing |
| `locks` | 2 threads, 2 nested locks, 2 exceptions | 89,520 | guards and locks agree, no lost increment, what can hang or escape, refinement of `LockedCounter` |
| `rw_try_lock` | the same | violation | `try_lock` of a read lock succeeds while another thread has it |

**Why these bounds are enough.** Three threads are the smallest number with a
waiter, the thread that notifies it and a third that overtakes it. `NoLostItem`
needs two blocked gets and a put, `NoLostRoom` two puts and a get. A size of 2
separates "no longer empty" from "full". Two items tell orders apart; two-bit
ints make 4 wrap to 0 while 1 does not, so a queue that takes nothing occurs.
The durations with seconds of 2 milliseconds cover whole and mixed numbers of
seconds of both signs, and with every rest of the clock a carry. `MaxTime` lets
a wait of the longest duration expire after another one has begun. Three workers
give chains of joins and two threads that join a third; a fourth one can get the
id of the third while the slower of the two joins is in progress, and then waits
for a thread it was not called for (`Shared`). A worker that joins an
earlier one may use it after the destructor has deleted it (Observations), so
`NoUseAfterFree` and `AllReaped` speak of programs whose joins point forward, and
the other properties of all four; rings of workers that join one another never end
and are left out. Four messages and a size of 2 let the producer
block on a full queue; three consumers let one hold a message, one hold the
stop message and one wait. Two threads with two locks each give every pair of
reader, writer, mutex holder and nested request; a counter that goes up to 1
(`MaxValue`) can already be lost once. The theorems below remove the bounds where
they apply.

`CHECK_DEADLOCK FALSE` appears in the two runs of `Locks` only: a program that
asks for a lock while it holds one, or that ends a thread with a lock taken by
hand, really stops, and so does one that `std::terminate` has ended. `NoHang`
says that nothing else stops it.

**Fairness.** A run that states progress assumes only that threads are scheduled:
in the queue, every thread that is in a call goes on (`WF` of `Step`), and a
thread that asks for the mutex again and again when it is free gets it at last
(`SF` of `Acquire \/ Resume`). The mutex is free again and again, since the
guarded sections are finite; without strong fairness a thread could be passed
over for ever. Nothing makes a client call, a wait time out, a wake-up spurious
or the size change. In the group, `Main` and a `run()` that is inside a join go
on (`WF`), and `run()` ends at last (`SF` of `RunReturns`: it may start joins
that return at once, but not for ever). The repository asks for such bodies:
the destructor of a group waits for them.

In `producer_consumer` every `run()` goes on, and a timed wait ends at last,
however often the thread wakes up spuriously before (`SF` of `Timeout`): the
deadline is fixed when the wait begins. In `locks` a scope that can be
left again and again is left at last, also in a body that keeps throwing (`SF` of
`LeaveScope`), the stack is unwound (`WF`), and who waits for a lock that is free
again and again gets it (`SF` of `Grant`). On a read/write lock that alone would not
do: the lock must be free again and again, which is what `writersFirst` decides
and why `PreferredServed` promises nothing to the other side.

**Symmetry** of the two threads is used in `cv_shared`, which checks invariants
only. It is not sound with liveness properties, and the other instances are small.

**Mutants.** Every property of a passing run has a variant of one action that
breaks it, defined next to the action and named in `PROJECT.json`: a
notification that is sent only when the queue stops being empty, a notification
to the wrong side, `<=` for `<`, `if` for `while` around a wait, a time-out
without a last test, a rest that is not reduced, a swap that copies, a delete that
does not wait. The variants are never part of a specification.

## 4. Findings

Where a comment or a test of the repository says something else than the code
does, a run shows the difference:

1. `set_max_size` notifies nobody, so a put that is blocked when the size is
   raised stays blocked (`queue_resize_progress`; `sync_queue.hpp:53`, and the
   rule for shared variables at `condition_variable.hpp:47`).
2. Two waits with different durations on one condition variable share the
   deadline (`cv_mixed`; `condition_variable.hpp:158`).
3. Move assignment swaps, so a source that is a thread receives the target's thread
   (`thread_moved_from`; `thread.hpp:194`).
4. A worker that joins itself before `start` has stored the pointer gets no
   exception (`group_self_join`; `abstract_thread_tests.cpp:67`).
5. `read_lock::try_lock` succeeds while another thread holds the lock for reading
   (`rw_try_lock`; `read_write_lock.hpp:47-48`).

Observations that no run is kept for:

* `set_max_size` does not take the mutex either, so a put that has tested the
  old size stores its item in a queue that has become full: with changing sizes
  `PutRespectsMaxSize` fails, and it is checked for a fixed size
  (`sync_queue.hpp:41-42` promises that such a put is blocked).
* `set_max_size(0)` is accepted, since `max_size >= 0` holds for every `size_t`;
  `put` then blocks until the size is raised and another call notifies it.
* When the copy of an item throws, the wake-up of that caller is not passed on:
  `NoLostItem` and `NoLostRoom` are therefore stated for copies that do not
  throw, and for `NoLostRoom` also for a fixed size. `LostOnlyByFailure` says
  that these two exceptions are the only ones.
* When `start` throws in a group that does not join in its destructor (the
  default), the workers that were started before are deleted while they run:
  a program cannot join them by hand, since the exception passes its call of
  `join`. Hence the second half of `Careful`.
* With `Torn`, `NoEarlyTimeout` also fails for equal durations: the reader may
  combine new seconds with an old rest.
* `join` on an object that is not a thread returns, where `thread.hpp:159`
  announces an exception: the test of `_thread` comes before that of `_status`.
* Two threads that join the same object may call `pthread_join` for an id that
  was joined already, or for 0, because `_thread` is read again without a lock.
* In a group that is still starting workers, such an id may belong to a worker that
  was started since. The slower join then waits for that worker, and `Main`'s own
  join of it gets EINVAL. The destructor passes over the exception, which is
  harmless there; a `join` by hand ends with it, and the group is left with workers
  that run. `Careful` therefore excludes, for groups that are joined by hand only,
  two workers that join the same third one (`JoinsUnshared`).
* If `run()` joins a worker that was added earlier, that join may be between its
  assignments to `_status` and `_thread` when the destructor of the group finds
  the worker joinable, gets an exception from its own join, and deletes it:
  `NoUseAfterFree` needs joins that point forward.
* A ring of three workers that join one another is not detected by anybody.
* `queue_exception` is not a `pthread_exception`: a handler for the latter does
  not catch a `queue_timeout`, which then ends the program (`Escape`).
* The overloads of `condition_variable` that take a `lock_guard` by value cannot
  be given a named guard, since guards cannot be copied.
* `status::running()` of the test reads a plain `bool` that `stop()` writes under
  a mutex, and `ProducerConsumer` makes it one load. With several producers,
  which the test's `PRODUCERS` allows for but does not use, the first stop
  message would end the consumers while another producer is blocked.

## 5. Proofs

| module | theorem | for all | about |
|---|---|---|---|
| `SyncQueueProofs` | `TypeCorrect`, `MonitorCorrect` | threads, items, widths, sizes | `TypeOK`, `Consistent` |
| | `Linearizability` | the same | `Spec => Abstract!Spec` |
| | `ItemsAnnounced` | copies that do not throw | `NoLostItem` |
| | `RoomAnnounced`, `StandoffFree` | copies that do not throw, a fixed size | `NoLostRoom`, `NoStandoff` |
| | `RoomRespected` | a fixed size | `PutRespectsMaxSize` |
| | `WakeupsLostOnlyByFailure` | the same as `Linearizability` | the action property `LostOnlyByFailure` |
| `ConditionVariableProofs` | `CvTypeCorrect` | threads, durations, seconds | `CvTypeOK` |
| | `TimeoutsOnTime` | one timed thread, or equal durations stored in one piece | `NoEarlyTimeout` |
| | `EarlyOnlyWhenOverwritten` | threads, durations, half-stored deadlines | `EarlyOnlyIfOverwritten` |
| | `RefusalsDeserved` | the same | `RefusedOnlyIfNegative` |
| `ThreadProofs` | `ThreadTypeCorrect`, `UniqueOwnership`, `StatusCorrect`, `JoinsDefined` | objects, ids | types, `OneOwner`, `StatusMatches`, `JoinDefined` |
| | `NoThreadDropped` | the same | the action property `NeverDropped` |
| `ConditionVariableProofs` | `SleepsBounded` | durations that are natural numbers | `SleepNearlyExact`: `sleep_for` never sleeps too long, nor a second or more too short |
| `ThreadGroupProofs` | `GroupTypeCorrect`, `JoinsWait` | workers, orders, programs, with and without joins in the destructor | `GroupTypeOK`, `JoinMeansEnded` |
| | `NothingFreedInUse`, `EveryThreadReaped` | the same (the properties themselves speak of careful programs) | `NoUseAfterFree`, `AllReaped` |
| | `GroupForksAndJoins` | the same | `GroupSpec => Forked!Spec` |
| `QueueObserverProofs` | `PromisesKept`, `PollsNeverBlock` | threads, items, sizes (fixed while somebody polls) | `PromiseKept`, `PollNeverBlocks` |
| `ProducerConsumerProofs` | `ProgramTypeCorrect`, `MessagesConserved`, `NothingLeftBehind`, `EveryMessageCounted` | consumers, messages, sizes of the queue | `ProgramTypeOK`, `Conserved`, `NothingLeft`, `AllConsumed` |
| | `NobodyStuck` | the same | `NotificationsSuffice` |
| | `ProgramUsesQueue` | the same | `ProgramSpec => Spec`, and so `Linearizable` |
| `LocksProofs` | `LocksTypeCorrect`, `GuardsSound`, `CounterSound`, `HangsOnlyWhenNested` | threads, depths, exceptions, handlers | `LocksTypeOK`, `GuardsMatch`, `CopiesCurrent`, `NoHang` |
| | `NoLibraryErrorEscapes` | the same | `OnlyForeignEscapes` |
| | `LocksProtect` | the same | `Spec => Protected!Spec` |

The assumptions are those named in the modules: `MonitorAssumption`
(finitely many threads), `QueueAssumption` (an even `IntModulus`, an initial
size that is an `int`, sizes that are `size_t`), `DeadlineAssumption`,
`ThreadAssumption`, `GroupAssumption` (every worker is in the list once),
`ObserverAssumption`, `ProgramAssumption` (there is a consumer, the queue has
room for at least one item, and its size is a number that `size_t` can hold),
`LocksAssumption`.

**SyncQueue.** `IInv` joins the types with `Consistent`: the mutex is held
exactly between lock and unlock or wait; a wait set holds only blocked threads;
a get that is about to call `front()` sees an item. Neither half is inductive
alone: `Pop` keeps `items` a sequence of items only because it is not empty, and
it is not empty because nobody else holds the mutex. The refinement is
proved action by action on top of it. For the lost wake-ups the inductive fact
is `NoneLost(op)` itself: while somebody is blocked, the supply (items, or free
places) is at most the number of threads that are on their way to the predicate
or about to notify. Every action leaves both numbers, changes both by
one, adds such a thread, or makes the supply 0; four lemmas on the cardinality of `Aware` say
so. `NoneLostStep` proves this for every step but a copy that throws in the same
operation and a size that is raised, which is `LostOnlyByFailure`; the two
theorems on `NoLostItem` and `NoLostRoom` exclude these steps by their hypotheses. `StandoffFree` is a consequence: with somebody blocked on either side and
nobody on the way, the items are at most 0 and the free places are at most 0.

**ConditionVariable.** `DeadlineExact` is the arithmetic: for every clock and
every duration the three stores of `milliseconds` add up to the clock plus the
duration, and leave a rest that `pthread_cond_timedwait` accepts when the
duration is not negative. `DeadlineInv` then says that no value that may still
be read as a deadline lies before the time a thread has asked for, unless that
time has come. This is needed although `NoEarlyTimeout` speaks of the end only,
because a wait may be resumed with a deadline that another call has stored.

`EarlyOnlyWhenOverwritten` covers what the run `cv_mixed` refutes `NoEarlyTimeout`
for: several timed waits with different durations, and reads between the stores of
the fields. `OwnDeadlineInv` follows one call at a time: as long as no other call
has stored its deadline since, the member, or the copy that
`pthread_cond_timedwait` has read, covers the time this call has asked for. The
stores of a deadline are made under the mutex, so the call that stores does not
see its own stores torn; whoever reads them half-done is a call whose deadline has
been replaced. `RefusalsDeserved` argues in the same way (`ValidInv`): a deadline
that was computed from a duration which is not negative has a valid rest until
another call replaces it.

**Thread.** `ThreadIInv` adds to `OneOwner` that an object with the status of a
thread refers to an id that has not been joined. That makes `Construct` safe:
the id it receives is free, so no object can hold it.

**ThreadGroup.** `MemberIInv` has four parts besides the types. `ThreadsOwned`: a
thread that has not been joined is that of one worker, which holds its id; an id
that is out of date denotes the thread of a worker added later. `JoinersWait`:
whoever is blocked in `pthread_join` waits for the thread of the worker it joins,
or for another one when the worker's own is gone. `CallsSound`: the thread is gone
when a join has reset the status or returned, whoever else joined it, which is
`JoinsWait`. `Position` says which workers `Main` has not started.

For `NoUseAfterFree` and `AllReaped` the invariant `Reaping` follows the two
loops that join, the one of `thread_group::join` and the one of the destructor.
`Passed` is what the iterator has behind it: these workers have no thread any
more, and whoever joins a worker stands before it in the list. The join of either
loop cannot fail for a worker that runs: nobody else is left who could wait for
its thread (`CurrentUnattached`), not even one who has an older id of it in mind,
since his worker is not behind the iterator either. When a group does not join in its destructor, all workers are behind the
iterator of `join` before the destructor begins, unless `start` has thrown; this
is where `Careful` is needed. A program does not become careful again
(`CarefulBefore`), so the invariant can be stated for the careful states alone.
A join by hand must not fail at all, and for that `HandJoining` says that no join
has an id that is out of date: while the thread of a worker is gone and its id is
still there, the one who is about to reset it is the only one in a join on the
worker, as no two workers join the same one (`OwnJoin`).

`GroupForksAndJoins` maps every step to `Start`, `End`, `Join`, `Delete`, `Close`,
`Neglect` or a stutter of `ForkJoin` (`StepIsForked`). It rests on `GroupIInv`:
`Position` makes the worker that `StartThread` starts a new one, `ThreadsOwned`
gives it at most one thread, and `Deleting` says that what the destructor has
deleted is what its iterator has passed. That a careful program deletes only what
is new or joined is `Reaping`.

**QueueObserver.** Every step of an observed program is a step of `SyncQueue`
or leaves the queue alone, so `IInv` holds there too. `ObserverIInv` adds that
nobody but the poller is in the operation it polls for (`PollerAlone`), and that
it is there only with a promise. The predicate can then only be made false by the poller itself.

**ProducerConsumer.** Steps map to steps of `SyncQueue` in the same way.
`ProgramIInv` needs three facts besides the conserved sum: how `at` and `pc`
agree (`Shape`), that a result is `"ok"` exactly from the move of the item to
the return (`Outcomes`), and that the stop message is the last item ever put
(`StopIsLast`). The last is the heart: when somebody holds the stop message, or
the program is stopped, the queue is empty and nothing is left to send.
The assertion at the end of the test follows from the sum, all other
terms being 0.

`NobodyStuck` is the absence of deadlocks, stated without ENABLED and without the
help of spurious wake-ups, which TLC's own deadlock check counts as steps.
`WakingIInv` adds to `ProgramIInv` that no wake-up is lost (`NoLostItem` and
`NoLostRoom`, by `NoneLostStep`) and that the stop message, once put, stays in
the queue or with a consumer until it is obeyed (`StopDelivered`). If no thread
can go on, nobody is on the way to a predicate, so the queue is empty if a get
is blocked and full if a put is: not both. While the program runs all
consumers are blocked, so the producer is not, and has ended; but then the stop
message would have to be in the empty queue.

**Locks.** `GuardsMatch` is inductive with the types and `Exclusion`, a fact about
the POSIX lock that only the proofs use: what a thread releases, it holds. `CopiesCurrent` rests on it, because a copy is kept
only while the thread holds the lock, and the one who changes the value is the
writer. For `NoHang`, a request that cannot be granted names a holder; in a
careful program the holder is neither waiting nor ended.
`Thrown` says that a throwing thread has thrown one of the known classes, and that
a terminated program has a thread whose exception no handler takes; every class of
the library is below one of the two families (`FamiliesCatch`), so that exception is
foreign. In `LocksProtect` a grant is an `Acquire` because `GuardsMatch`
turns the state of the POSIX objects into counts of locks, and the end of a
scope, the unwinding of a guard and an `unlock()` each give back a lock that is
held; `Increment` is atomic because the copy is current.

**Only model-checked:** `GetsProgress`, `PutsProgress`, `Termination`,
`ProgramEnds` and `PreferredServed`: liveness under fairness is beyond TLAPS.
Every safety property of a passing run is proved. Only proved: `TimeoutsOnTime`,
whose property no passing run checks (`cv_mixed` is about its violation),
`ProgramSpec => Spec`, and `SleepNearlyExact`, which is about a formula and no
state; negative durations, of which no document says what they should do, are
outside it.

## 6. Not modelled

* What a data race may do beyond reading an old or a new value: `size()` and
  `empty()` of the queue, and `running()` of the test.
* `set_max_size` next to a program that polls for room: it takes back what
  `size()` and `max_size()` have promised, so `QueueObserver` leaves it out.
* A second `start()` of an `abstract_thread`: it overwrites the pointer to the
  first thread, and no document says what it should do.
* Destruction of a mutex, a condition variable or a queue that is in use.
* Failures of `pthread_mutex_lock`, `pthread_cond_init` and the like: the
  default attributes and valid objects leave no way to reach them.
* Thread attributes: the stack size, and its checks before `pthread_create`,
  appear as one way in which a start fails, and `stack_size()` not at all.
* An implementation that does not detect a nested request of the writer (EDEADLK):
  the call then hangs, which the model shows for all other nested requests.
* The text of exceptions and the version.
* After a use of a deleted worker the program has no meaning; the model goes on
  with the old values, so what follows says nothing.

## 7. Plan

Done, in this order: `Monitor`, `BoundedQueue`, `SyncQueue` and their proofs;
`ConditionVariable` and its proofs; `Thread` and `ThreadGroup` and their proofs;
`Exceptions`, `Locks`, `QueueObserver` and `ProducerConsumer` and their proofs.

After that the proofs were extended: the refinements of `ForkJoin` and
`LockedCounter`, groups that are joined by hand, the steps that lose wake-ups,
the absence of deadlocks in the test program, time-outs of waits that disturb each
other, and ids that are used again while a group is started.

Next, by importance:

1. `SyncQueue`: `NoLostItem` restated for copies that throw, with the calls that
   failed on the side of the aware, so that it says how many wake-ups are missing.
2. `ConditionVariable`: the overload with a lambda, where the predicate is
   tested once more after an early time-out: what is then true of the result.
3. `SyncQueue`: what a program may do with `set_max_size` so that no put is
   forgotten, e.g. only lower the size, or call `get` or `put` afterwards.
4. `ThreadGroup`: the invariants restated for joins that point backward, with the
   weakest condition under which nothing is freed in use.

The number of runs is kept at a dozen, one per question.
