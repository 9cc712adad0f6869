-------------------------- MODULE ConditionVariable --------------------------
(***************************************************************************)
(* The timed waits of pthread::condition_variable                          *)
(* (src/include/pthread/condition_variable.hpp, src/src/                   *)
(* condition_variable.cpp) and the deadline they compute.                  *)
(*                                                                         *)
(* The deadline is the member "timeout" of the condition variable.  A call *)
(* computes it while it holds the mutex, but pthread_cond_timedwait gets a *)
(* pointer to it and reads it after the mutex has been released, when      *)
(* another call may have overwritten it.                                   *)
(*                                                                         *)
(* Time is counted in milliseconds; a timespec is a number of seconds and  *)
(* a rest in milliseconds.  pc[t] says where thread t is in its call:      *)
(*   idle    not in a call                                                 *)
(*   clock   holds the mutex, about to read the clock                      *)
(*   sec, carry, part   about to store the deadline, see the actions       *)
(*   test    about to run the lambda                                       *)
(*   block   about to call pthread_cond_timedwait                          *)
(*   wait    in pthread_cond_timedwait                                     *)
(*   leave   the result of the call is known                               *)
(***************************************************************************)
EXTENDS Monitor, Integers

CONSTANTS Timed,      \* the threads that make timed calls; all others only notify
          Durations,  \* the arguments "millis", ints
          Second,     \* milliseconds in a second
          Torn,       \* may a timespec be read between the stores of its fields?
          UsecModulus,\* 2^w for the width w of useconds_t, the argument of usleep
          MaxTime     \* bound on the clock

ASSUME DeadlineAssumption ==
  /\ Timed \subseteq Threads
  /\ Durations \subseteq Int
  /\ Second \in Nat \ {0}
  /\ Torn \in BOOLEAN
  /\ UsecModulus \in Nat /\ UsecModulus > Second * 1000
  /\ MaxTime \in Nat

VARIABLES now,        \* gettimeofday
          condition,  \* what the lambdas return
          timeout,    \* the member timeout
          author,     \* history: whose call has stored timeout last, or NoThread
          deadline,   \* deadline[t]: the timespec pthread_cond_timedwait has read
          pc, call,   \* the control state and the arguments of every thread
          status,     \* the cv_status of the call
          refused,    \* has the call ended with a condition_variable_exception?
          wanted      \* the time until which the thread has asked to wait

clientVars == <<pc, call>>
cvVars == <<monitorVars, now, condition, timeout, author, deadline, clientVars, status, refused, wanted>>

Cv == "condition"

(* loop: the overloads with a lambda.                                      *)
TimedCalls == [loop : BOOLEAN, millis : Durations]
CallLabels == {"idle", "clock", "sec", "carry", "part", "test", "block", "wait", "leave"}

-----------------------------------------------------------------------------
(* Division and remainder of C++, which round towards zero.                *)
Quot(a, b) == IF a >= 0 THEN a \div b ELSE -((-a) \div b)
Rem(a, b)  == a - b * Quot(a, b)

(* The three stores of condition_variable::milliseconds, for a clock that  *)
(* shows "time": the seconds of the clock, the seconds to add, the rest.   *)
ClockSec(time)     == Quot(time, Second)
Nanos(time, ms)    == Rem(time, Second) + Rem(ms, Second)
Carry(time, ms)    == Quot(ms, Second) + Quot(Nanos(time, ms), Second)
RestUnreduced(time, ms) == Nanos(time, ms)       \* mutant: no nanos % 1000000000
Rest(time, ms)     == Rem(Nanos(time, ms), Second)

DeadlineOf(time, ms) == [sec |-> ClockSec(time) + Carry(time, ms), part |-> Rest(time, ms)]

(* this_thread::sleep_for, in microseconds: usleep takes an unsigned       *)
(* number, from one second on sleep takes whole seconds.                   *)
SleepFor(ms) == IF ms < Second THEN (ms * 1000) % UsecModulus
                               ELSE Quot(ms, Second) * Second * 1000

Value(ts)   == ts.sec * Second + ts.part
IsValid(ts) == 0 <= ts.part /\ ts.part < Second

Zero   == [sec |-> 0, part |-> 0]            \* no deadline is read outside a wait
NoCall == [loop |-> FALSE, millis |-> 0]     \* outside a call

(* A fresh condition variable: its constructor leaves timeout as it is.    *)
Garbage == {Zero, [sec |-> 0, part |-> -1], [sec |-> MaxTime + 1, part |-> 0]}

CvInit ==
  /\ MonitorInit({Cv})
  /\ now = 0
  /\ condition \in BOOLEAN
  /\ timeout \in Garbage /\ author = NoThread
  /\ deadline = [t \in Threads |-> Zero]
  /\ pc = [t \in Threads |-> "idle"]
  /\ call = [t \in Threads |-> NoCall]
  /\ status = [t \in Threads |-> "no_timeout"]
  /\ refused = [t \in Threads |-> FALSE]
  /\ wanted = [t \in Threads |-> 0]

Goto(t, label) == pc' = [pc EXCEPT ![t] = label]
AfterStore(t)  == Goto(t, IF call[t].loop THEN "test" ELSE "block")

-----------------------------------------------------------------------------
Tick ==
  /\ now < MaxTime
  /\ now' = now + 1
  /\ UNCHANGED <<monitorVars, condition, timeout, author, deadline, clientVars, status, refused, wanted>>

(* Another thread changes the shared state under the mutex and notifies.   *)
Signal(t) ==
  /\ pc[t] = "idle" /\ owner = NoThread
  /\ condition' \in BOOLEAN
  /\ NotifyOne(Cv) \/ NotifyAll(Cv)
  /\ UNCHANGED <<owner, now, timeout, author, deadline, clientVars, status, refused, wanted>>

(* A thread that has locked the mutex calls wait_for.  Without a lambda, a *)
(* negative duration means that timeout is not calculated again.           *)
Enter(t) ==
  /\ t \in Timed /\ pc[t] = "idle"
  /\ Lock(t)
  /\ \E c \in TimedCalls :
       /\ call' = [call EXCEPT ![t] = c]
       /\ Goto(t, IF c.loop \/ c.millis >= 0 THEN "clock" ELSE "block")
  /\ UNCHANGED <<waiters, now, condition, timeout, author, deadline, status, refused, wanted>>

(* milliseconds(millis): the clock is read first ...                       *)
ReadClock(t) ==
  /\ pc[t] = "clock"
  /\ wanted' = [wanted EXCEPT ![t] = now + call[t].millis]
  /\ Goto(t, "sec")
  /\ UNCHANGED <<monitorVars, now, condition, timeout, author, deadline, call, status, refused>>

(* ... and then the deadline is stored, as one value or, with Torn, also   *)
(* field by field.                                                         *)
ClockRead(t) == wanted[t] - call[t].millis

Stored(t) ==
  /\ author' = t
  /\ UNCHANGED <<monitorVars, now, condition, deadline, call, status, refused, wanted>>

Store(t) ==
  /\ pc[t] = "sec"
  /\ timeout' = DeadlineOf(ClockRead(t), call[t].millis)
  /\ AfterStore(t) /\ Stored(t)

StoreSec(t) ==
  /\ Torn /\ pc[t] = "sec"
  /\ timeout' = [timeout EXCEPT !.sec = ClockSec(ClockRead(t))]
  /\ Goto(t, "carry") /\ Stored(t)

StoreCarry(t) ==
  /\ Torn /\ pc[t] = "carry"
  /\ timeout' = [timeout EXCEPT !.sec = @ + Carry(ClockRead(t), call[t].millis)]
  /\ Goto(t, "part") /\ Stored(t)

StorePart(t) ==
  /\ Torn /\ pc[t] = "part"
  /\ timeout' = [timeout EXCEPT !.part = Rest(ClockRead(t), call[t].millis)]
  /\ AfterStore(t) /\ Stored(t)

(* The loop of the overload with a lambda: it ends when the lambda is true *)
(* or when the last wait has timed out.                                    *)
Test(t) ==
  /\ pc[t] = "test"
  /\ Goto(t, IF condition \/ status[t] = "timedout" THEN "leave" ELSE "block")
  /\ UNCHANGED <<monitorVars, now, condition, timeout, author, deadline, call, status, refused, wanted>>

(* pthread_cond_timedwait checks the deadline and releases the mutex.      *)
BlockTimed(t) ==
  /\ pc[t] = "block" /\ IsValid(timeout)
  /\ Block(Cv, t)
  /\ deadline' = [deadline EXCEPT ![t] = timeout]
  /\ Goto(t, "wait")
  /\ UNCHANGED <<now, condition, timeout, author, call, status, refused, wanted>>

(* It refuses a timespec whose nanoseconds are out of range (EINVAL).      *)
Refuse(t) ==
  /\ pc[t] = "block" /\ ~IsValid(timeout)
  /\ refused' = [refused EXCEPT ![t] = TRUE]
  /\ Goto(t, "leave")
  /\ UNCHANGED <<monitorVars, now, condition, timeout, author, deadline, call, status, wanted>>

(* It reads the deadline through the pointer when it goes to sleep, at any *)
(* time while the thread is blocked.                                       *)
ReadDeadline(t) ==
  /\ pc[t] = "wait" /\ t \in waiters[Cv]
  /\ deadline' = [deadline EXCEPT ![t] = timeout]
  /\ UNCHANGED <<monitorVars, now, condition, timeout, author, clientVars, status, refused, wanted>>

(* Mutant of Expire: every wake-up is taken for a time-out.                *)
WakeAsTimeout(t) ==
  /\ pc[t] = "wait"
  /\ Leave(Cv, t)
  /\ status' = [status EXCEPT ![t] = "timedout"]
  /\ UNCHANGED <<owner, now, condition, timeout, author, deadline, clientVars, refused, wanted>>

(* ETIMEDOUT: the clock has reached the deadline that was read.            *)
Expire(t) ==
  /\ pc[t] = "wait" /\ now >= Value(deadline[t])
  /\ Leave(Cv, t)
  /\ status' = [status EXCEPT ![t] = "timedout"]
  /\ UNCHANGED <<owner, now, condition, timeout, author, deadline, clientVars, refused, wanted>>

Spurious(t) ==
  /\ pc[t] = "wait"
  /\ Leave(Cv, t)
  /\ UNCHANGED <<owner, now, condition, timeout, author, deadline, clientVars, status, refused, wanted>>

(* pthread_cond_timedwait returns with the mutex locked again.             *)
Wake(t) ==
  /\ pc[t] = "wait" /\ t \notin waiters[Cv]
  /\ Lock(t)
  /\ Goto(t, IF call[t].loop THEN "test" ELSE "leave")
  /\ deadline' = [deadline EXCEPT ![t] = Zero]
  /\ UNCHANGED <<waiters, now, condition, timeout, author, call, status, refused, wanted>>

(* The caller gets the status or the exception, and unlocks the mutex.     *)
Depart(t) ==
  /\ pc[t] = "leave"
  /\ Unlock(t)
  /\ Goto(t, "idle")
  /\ call' = [call EXCEPT ![t] = NoCall]
  /\ status' = [status EXCEPT ![t] = "no_timeout"]
  /\ refused' = [refused EXCEPT ![t] = FALSE]
  /\ UNCHANGED <<waiters, now, condition, timeout, author, deadline, wanted>>

CvNext ==
  \/ Tick
  \/ \E t \in Threads :
       \/ Signal(t) \/ Enter(t) \/ ReadClock(t)
       \/ Store(t) \/ StoreSec(t) \/ StoreCarry(t) \/ StorePart(t)
       \/ Test(t) \/ BlockTimed(t) \/ Refuse(t) \/ ReadDeadline(t)
       \/ Expire(t) \/ Spurious(t) \/ Wake(t) \/ Depart(t)

CvSpec == CvInit /\ [][CvNext]_cvVars

-----------------------------------------------------------------------------
(* What the stores leave in a timespec: a remainder keeps its sign.        *)
Timespec == [sec : Int, part : -Second .. Second - 1]

CvTypeOK ==
  /\ MonitorTypeOK({Cv})
  /\ now \in Nat
  /\ condition \in BOOLEAN
  /\ timeout \in Timespec /\ author \in Timed \cup {NoThread}
  /\ deadline \in [Threads -> Timespec]
  /\ pc \in [Threads -> CallLabels]
  /\ call \in [Threads -> [loop : BOOLEAN, millis : Int]]
  /\ status \in [Threads -> {"no_timeout", "timedout"}]
  /\ refused \in [Threads -> BOOLEAN]
  /\ wanted \in [Threads -> Int]

(* The mutex is held exactly between the entry of a call and its wait, and *)
(* between the wait and the end of the call; only a timed call is ever in  *)
(* progress; while it stores its deadline the clock it has read is past.   *)
Computing == {"clock", "sec", "carry", "part"}

CvConsistent ==
  /\ \A t \in Threads : owner = t <=> pc[t] \notin {"idle", "wait"}
  /\ \A t \in Threads \ Timed : pc[t] = "idle" /\ wanted[t] = 0
  /\ \A t \in Threads : pc[t] # "idle" => call[t].millis \in Durations
  /\ \A t \in Threads : pc[t] \in {"sec", "carry", "part"} => ClockRead(t) \in 0 .. now

(* When calls cannot disturb each other's deadline: only one thread makes  *)
(* timed calls, or all ask for the same duration and a timespec is stored  *)
(* in one piece.                                                           *)
Uniform     == ~Torn /\ Durations \subseteq Nat /\ \A d, e \in Durations : d = e
Undisturbed == Uniform \/ \E t \in Threads : Timed \subseteq {t}

(* Then no deadline that may still be read lies before the time a thread   *)
(* has asked for, unless that time has come.                               *)
Covers(ts, t) == wanted[t] <= now \/ wanted[t] <= Value(ts)

DeadlineInv ==
  /\ \A t \in Threads : pc[t] = "carry" => timeout.sec = ClockSec(ClockRead(t))
  /\ \A t \in Threads : pc[t] = "part" =>
       timeout.sec = ClockSec(ClockRead(t)) + Carry(ClockRead(t), call[t].millis)
  /\ \A t \in Threads : pc[t] \notin Computing => Covers(timeout, t)
  /\ \A t \in Threads : pc[t] = "wait" => Covers(deadline[t], t)
  /\ \A t \in Threads : status[t] = "timedout" =>
       pc[t] \notin Computing \cup {"idle"} /\ wanted[t] <= now
  /\ Uniform => /\ \A u \in Threads, d \in Durations : wanted[u] <= now + d
                /\ \A t, u \in Threads : pc[t] = "sec" => wanted[u] <= wanted[t]

(* A wait that reports a time-out has lasted as long as it was asked to,   *)
(* also when it was resumed with a negative duration.                      *)
NoEarlyTimeout == \A t \in Threads : status[t] = "timedout" => now >= wanted[t]

(* When it has not, another call has stored its own deadline since: the    *)
(* arithmetic, spurious wake-ups, the loops and the field by field stores  *)
(* of the call itself never make a time-out early.                         *)
Overwritten(t) == author \in Timed \ {t}
EarlyOnlyIfOverwritten ==
  \A t \in Threads : status[t] = "timedout" /\ now < wanted[t] => Overwritten(t)

(* Only a negative duration makes a call fail with EINVAL, the call's own  *)
(* or that of a call that has stored its deadline since.                   *)
RefusedOnlyIfNegative ==
  \A t \in Threads : refused[t] /\ call[t].millis >= 0 => Overwritten(t)

(* sleep_for never sleeps longer than it was asked to, and falls short of  *)
(* it by less than a second: usleep and sleep share the durations without  *)
(* a gap, and the product of usleep does not wrap.                         *)
SleepNearlyExact(ms) == /\ SleepFor(ms) <= ms * 1000
                        /\ ms * 1000 - SleepFor(ms) < Second * 1000

=============================================================================
