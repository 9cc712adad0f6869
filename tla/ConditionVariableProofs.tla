----------------------- MODULE ConditionVariableProofs -----------------------
(***************************************************************************)
(* Theorems about ConditionVariable, for any number of threads, any length *)
(* of a second and an unbounded time: the bound MaxTime only stops the     *)
(* clock.                                                                  *)
(***************************************************************************)
EXTENDS ConditionVariable, TLAPS

(* The remainder of a division that rounds towards zero.                   *)
LEMMA RemType == ASSUME NEW a \in Int
                 PROVE  /\ Quot(a, Second) \in Int
                        /\ Rem(a, Second) \in -(Second - 1) .. Second - 1
                        /\ a = Second * Quot(a, Second) + Rem(a, Second)
                        /\ a >= 0 => Rem(a, Second) >= 0
<1>1. ASSUME NEW n \in Nat
      PROVE  /\ n \div Second \in Nat
             /\ n - Second * (n \div Second) \in 0 .. Second - 1
  BY <1>1, DeadlineAssumption
<1>2. CASE a >= 0
  <2>1. Quot(a, Second) = a \div Second
    BY <1>2 DEF Quot
  <2> QED
    BY <1>1, <1>2, <2>1, DeadlineAssumption DEF Rem
<1>3. CASE a < 0
  <2>1. Quot(a, Second) = -((-a) \div Second) /\ -a \in Nat
    BY <1>3 DEF Quot
  <2>2. Second * (-((-a) \div Second)) = -(Second * ((-a) \div Second))
    BY <1>1, <2>1, DeadlineAssumption
  <2>3. /\ (-a) \div Second \in Nat
        /\ (-a) - Second * ((-a) \div Second) \in 0 .. Second - 1
    BY <1>1, <2>1
  <2> QED
    BY <1>3, <2>1, <2>2, <2>3, DeadlineAssumption DEF Rem
<1> QED
  BY <1>2, <1>3

(* milliseconds() adds the duration to the clock exactly, and leaves a     *)
(* timespec that pthread_cond_timedwait accepts when it is not negative.   *)
LEMMA DeadlineExact ==
  ASSUME NEW time \in Nat, NEW ms \in Int
  PROVE  /\ DeadlineOf(time, ms) \in Timespec
         /\ Value(DeadlineOf(time, ms)) = time + ms
         /\ ms >= 0 => IsValid(DeadlineOf(time, ms))
<1> DEFINE c == Quot(time, Second)
           q == Quot(ms, Second)
           n == Nanos(time, ms)
           k == Quot(n, Second)
           r == Rem(n, Second)
<1>1. /\ c \in Int /\ time = Second * c + Rem(time, Second)
      /\ Rem(time, Second) \in Int /\ Rem(time, Second) >= 0
  BY RemType
<1>2. q \in Int /\ ms = Second * q + Rem(ms, Second) /\ Rem(ms, Second) \in Int
  BY RemType
<1>3. n \in Int /\ n = Rem(time, Second) + Rem(ms, Second) /\ (ms >= 0 => n >= 0)
  BY <1>1, <1>2, RemType DEF Nanos
<1>4. k \in Int /\ r \in -(Second - 1) .. Second - 1 /\ n = Second * k + r /\ (n >= 0 => r >= 0)
  BY <1>3, RemType
<1>5. DeadlineOf(time, ms) = [sec |-> c + (q + k), part |-> r]
  BY DEF DeadlineOf, ClockSec, Carry, Rest
<1>6. (c + (q + k)) * Second = Second * c + Second * q + Second * k
  <2>1. \A x, y, z \in Int : (x + (y + z)) * Second = Second * x + Second * y + Second * z
    BY DeadlineAssumption
  <2> QED
    BY <1>1, <1>2, <1>4, <2>1
<1> HIDE DEF c, q, n, k, r
<1>7. Value(DeadlineOf(time, ms)) = time + ms
  <2>1. Second * c \in Int /\ Second * q \in Int /\ Second * k \in Int
    BY <1>1, <1>2, <1>4, DeadlineAssumption
  <2>2. Value(DeadlineOf(time, ms)) = (c + (q + k)) * Second + r
    BY <1>5 DEF Value
  <2> QED
    BY <1>1, <1>2, <1>3, <1>4, <1>6, <2>1, <2>2, DeadlineAssumption
<1> QED
  BY <1>1, <1>2, <1>3, <1>4, <1>5, <1>7, DeadlineAssumption DEF Timespec, IsValid

LEMMA StoreTypes ==
  ASSUME NEW time \in Nat, NEW ms \in Int
  PROVE  /\ ClockSec(time) \in Int /\ Carry(time, ms) \in Int
         /\ Rest(time, ms) \in -Second .. Second - 1
<1>1. Nanos(time, ms) \in Int
  BY RemType, DeadlineAssumption DEF Nanos
<1>2. ClockSec(time) \in Int
  BY RemType DEF ClockSec
<1>3. Quot(ms, Second) \in Int /\ Quot(Nanos(time, ms), Second) \in Int
  BY <1>1, RemType
<1>4. Rest(time, ms) \in -(Second - 1) .. Second - 1
  BY <1>1, RemType DEF Rest
<1> QED
  BY <1>2, <1>3, <1>4, DeadlineAssumption DEF Carry

-----------------------------------------------------------------------------
CvIInv == CvTypeOK /\ CvConsistent

LEMMA CvIInvInit == CvInit => CvIInv
<1> SUFFICES ASSUME CvInit PROVE CvIInv
  OBVIOUS
<1>1. timeout \in Timespec
  <2>1. 0 \in -Second .. Second - 1 /\ -1 \in -Second .. Second - 1 /\ MaxTime + 1 \in Int
    BY DeadlineAssumption
  <2>2. [sec |-> 0, part |-> 0] \in Timespec /\ [sec |-> 0, part |-> -1] \in Timespec
    BY <2>1 DEF Timespec
  <2>3. [sec |-> MaxTime + 1, part |-> 0] \in Timespec
    BY <2>1 DEF Timespec
  <2> QED
    BY <2>2, <2>3 DEF CvInit, Garbage, Zero
<1>z. Zero \in Timespec /\ NoCall \in [loop : BOOLEAN, millis : Int]
  BY DeadlineAssumption DEF Zero, NoCall, Timespec
<1>2. CvTypeOK
  BY <1>1, <1>z, MonitorAssumption DEF CvInit, CvTypeOK, MonitorInit, MonitorTypeOK, CallLabels
<1>3. CvConsistent
  BY MonitorAssumption DEF CvInit, CvConsistent, MonitorInit
<1> QED
  BY <1>2, <1>3 DEF CvIInv

LEMMA CvIInvNext == CvIInv /\ [CvNext]_cvVars => CvIInv'
<1> SUFFICES ASSUME CvIInv, [CvNext]_cvVars PROVE CvIInv'
  OBVIOUS
<1> USE MonitorAssumption, DeadlineAssumption
    DEF CvIInv, CvTypeOK, CvConsistent, MonitorTypeOK, CallLabels, Goto, ClockRead
<1>z. Zero \in Timespec /\ NoCall \in [loop : BOOLEAN, millis : Int]
  BY DEF Zero, NoCall, Timespec
<1>0. ASSUME Tick PROVE CvIInv'
  BY <1>0 DEF Tick, clientVars, monitorVars
<1>1. ASSUME NEW t \in Threads, Signal(t) PROVE CvIInv'
  BY <1>1 DEF Signal, NotifyOne, NotifyAll, clientVars
<1>2. ASSUME NEW t \in Threads, Enter(t) PROVE CvIInv'
  <2>1. PICK c \in TimedCalls :
          /\ call' = [call EXCEPT ![t] = c]
          /\ Goto(t, IF c.loop \/ c.millis >= 0 THEN "clock" ELSE "block")
    BY <1>2 DEF Enter
  <2>2. c \in [loop : BOOLEAN, millis : Int] /\ c.millis \in Durations
    BY DEF TimedCalls
  <2>3. pc'[t] \in {"clock", "block"}
    BY <2>1
  <2>4. CvTypeOK'
    BY <1>2, <2>1, <2>2 DEF Enter, Lock
  <2> QED
    BY <1>2, <2>1, <2>2, <2>3, <2>4 DEF Enter, Lock
<1>3. ASSUME NEW t \in Threads, ReadClock(t) PROVE CvIInv'
  BY <1>3 DEF ReadClock, monitorVars
<1>4. ASSUME NEW t \in Threads, Store(t) PROVE CvIInv'
  <2>1. timeout' \in Timespec
    BY <1>4, DeadlineExact DEF Store
  <2> QED
    BY <1>4, <2>1 DEF Store, Stored, AfterStore, monitorVars
<1>5. ASSUME NEW t \in Threads, StoreSec(t) PROVE CvIInv'
  <2>0. call[t].millis \in Int /\ ClockRead(t) \in Nat
    BY <1>5 DEF StoreSec
  <2>1. timeout' \in Timespec
    BY <1>5, <2>0, StoreTypes DEF StoreSec, Timespec
  <2> QED
    BY <1>5, <2>1 DEF StoreSec, Stored, monitorVars
<1>6. ASSUME NEW t \in Threads, StoreCarry(t) PROVE CvIInv'
  <2>1. timeout' \in Timespec
    BY <1>6, StoreTypes DEF StoreCarry, Timespec
  <2> QED
    BY <1>6, <2>1 DEF StoreCarry, Stored, monitorVars
<1>7. ASSUME NEW t \in Threads, StorePart(t) PROVE CvIInv'
  <2>1. timeout' \in Timespec
    BY <1>7, StoreTypes DEF StorePart, Timespec
  <2> QED
    BY <1>7, <2>1 DEF StorePart, Stored, AfterStore, monitorVars
<1>8. ASSUME NEW t \in Threads, Test(t) PROVE CvIInv'
  BY <1>8 DEF Test, monitorVars
<1>9. ASSUME NEW t \in Threads, BlockTimed(t) PROVE CvIInv'
  BY <1>9 DEF BlockTimed, Block, Unlock
<1>10. ASSUME NEW t \in Threads, Refuse(t) PROVE CvIInv'
  BY <1>10 DEF Refuse, monitorVars
<1>11. ASSUME NEW t \in Threads, ReadDeadline(t) PROVE CvIInv'
  BY <1>11 DEF ReadDeadline, clientVars, monitorVars
<1>12. ASSUME NEW t \in Threads, Expire(t) PROVE CvIInv'
  BY <1>12 DEF Expire, Leave, clientVars
<1>13. ASSUME NEW t \in Threads, Spurious(t) PROVE CvIInv'
  BY <1>13 DEF Spurious, Leave, clientVars
<1>14. ASSUME NEW t \in Threads, Wake(t) PROVE CvIInv'
  BY <1>14, <1>z DEF Wake, Lock
<1>15. ASSUME NEW t \in Threads, Depart(t) PROVE CvIInv'
  BY <1>15, <1>z DEF Depart, Unlock
<1>16. CASE UNCHANGED cvVars
  BY <1>16 DEF cvVars, clientVars, monitorVars
<1> QED
  BY <1>0, <1>1, <1>2, <1>3, <1>4, <1>5, <1>6, <1>7, <1>8, <1>9, <1>10, <1>11, <1>12, <1>13,
     <1>14, <1>15, <1>16 DEF CvNext

-----------------------------------------------------------------------------
(* Whatever durations are asked for, negative ones included, and however   *)
(* calls overlap, every variable of the timed waits keeps its type.        *)
THEOREM CvTypeCorrect == CvSpec => []CvTypeOK
<1>1. CvIInv => CvTypeOK
  BY DEF CvIInv
<1> QED
  BY <1>1, CvIInvInit, CvIInvNext, PTL DEF CvSpec

-----------------------------------------------------------------------------
(* The deadline.  A store leaves the time the thread has asked for ...     *)
LEMMA StoredValue ==
  ASSUME CvIInv, NEW t \in Threads, pc[t] \in {"sec", "carry", "part"}
  PROVE  /\ ClockRead(t) \in Nat /\ call[t].millis \in Int
         /\ Value(DeadlineOf(ClockRead(t), call[t].millis)) = wanted[t]
<1>1. ClockRead(t) \in Nat /\ call[t].millis \in Int /\ wanted[t] \in Int
  BY DEF CvIInv, CvTypeOK, CvConsistent
<1>2. Value(DeadlineOf(ClockRead(t), call[t].millis)) = ClockRead(t) + call[t].millis
  BY <1>1, DeadlineExact
<1>3. ClockRead(t) + call[t].millis = wanted[t]
  BY <1>1 DEF ClockRead
<1> QED
  BY <1>1, <1>2, <1>3

(* ... which covers the wait of every other thread: there is none, or all  *)
(* have asked for no later time.                                           *)
LEMMA OthersCovered ==
  ASSUME Undisturbed, CvIInv, DeadlineInv,
         NEW t \in Threads, pc[t] \in {"sec", "carry", "part"}, Torn \/ pc[t] = "sec",
         NEW u \in Threads, u # t
  PROVE  wanted[u] <= now \/ (~Torn /\ wanted[u] <= wanted[t])
<1>1. CASE Uniform
  BY <1>1 DEF Uniform, DeadlineInv
<1>2. CASE \E x \in Threads : Timed \subseteq {x}
  <2>1. t \in Timed
    BY DEF CvIInv, CvConsistent
  <2>2. wanted[u] = 0 /\ now \in Nat
    BY <1>2, <2>1 DEF CvIInv, CvConsistent, CvTypeOK
  <2> QED
    BY <2>2
<1> QED
  BY <1>1, <1>2 DEF Undisturbed

LEMMA ValueType == ASSUME NEW ts \in Timespec PROVE Value(ts) \in Int
  BY DeadlineAssumption DEF Value, Timespec

LEMMA DeadlineInvInit == CvInit => DeadlineInv
<1> SUFFICES ASSUME CvInit PROVE DeadlineInv
  OBVIOUS
<1>1. ASSUME Uniform PROVE \A d \in Durations : 0 <= 0 + d
  BY <1>1 DEF Uniform
<1> QED
  BY <1>1 DEF CvInit, DeadlineInv, Covers, Computing

LEMMA DeadlineInvNext ==
  Undisturbed /\ CvIInv /\ DeadlineInv /\ [CvNext]_cvVars => DeadlineInv'
<1> SUFFICES ASSUME Undisturbed, CvIInv, DeadlineInv, [CvNext]_cvVars PROVE DeadlineInv'
  OBVIOUS
<1> USE MonitorAssumption, DeadlineAssumption DEF DeadlineInv, Covers, Computing, Goto
<1>t. /\ now \in Nat /\ timeout \in Timespec
      /\ pc \in [Threads -> CallLabels] /\ deadline \in [Threads -> Timespec]
      /\ call \in [Threads -> [loop : BOOLEAN, millis : Int]]
      /\ status \in [Threads -> {"no_timeout", "timedout"}]
      /\ wanted \in [Threads -> Int]
  BY DEF CvIInv, CvTypeOK
<1>o. \A t, u \in Threads : (t # u /\ pc[t] \notin {"idle", "wait"}) => pc[u] \in {"idle", "wait"}
  BY DEF CvIInv, CvConsistent
<1>0. ASSUME Tick PROVE DeadlineInv'
  <2>1. now' \in Nat /\ now <= now'
    BY <1>0, <1>t DEF Tick
  <2>2. ASSUME Uniform PROVE \A u \in Threads, d \in Durations : wanted[u] <= now' + d
    BY <1>0, <1>t, <2>2 DEF Tick, Uniform
  <2> QED
    BY <1>0, <1>t, <2>1, <2>2 DEF Tick, clientVars, ClockRead
<1>1. ASSUME NEW t \in Threads, Signal(t) PROVE DeadlineInv'
  BY <1>1 DEF Signal, clientVars, ClockRead
<1>2. ASSUME NEW t \in Threads, Enter(t) PROVE DeadlineInv'
  <2>1. pc[t] = "idle" /\ pc'[t] \in {"clock", "block"} /\ \A u \in Threads \ {t} : pc'[u] = pc[u]
    BY <1>2, <1>t DEF Enter
  <2>2. \A u \in Threads \ {t} : ClockRead(u)' = ClockRead(u) /\ call'[u] = call[u]
    BY <1>2, <1>t DEF Enter, ClockRead
  <2> QED
    BY <1>2, <1>t, <2>1, <2>2 DEF Enter
<1>3. ASSUME NEW t \in Threads, ReadClock(t) PROVE DeadlineInv'
  <2>1. pc[t] = "clock" /\ pc'[t] = "sec" /\ \A u \in Threads \ {t} : pc'[u] = pc[u]
    BY <1>3, <1>t DEF ReadClock
  <2>2. wanted'[t] = now + call[t].millis /\ \A u \in Threads \ {t} : wanted'[u] = wanted[u]
    BY <1>3, <1>t DEF ReadClock
  <2>3. \A u \in Threads \ {t} : ClockRead(u)' = ClockRead(u)
    BY <1>3, <2>2 DEF ReadClock, ClockRead
  <2>4. ASSUME Uniform
        PROVE  /\ \A u \in Threads, d \in Durations : wanted'[u] <= now + d
               /\ \A u \in Threads : wanted'[u] <= wanted'[t]
    <3>1. call[t].millis \in Durations
      BY <2>1 DEF CvIInv, CvConsistent
    <3>2. \A d \in Durations : d = call[t].millis
      BY <2>4, <3>1 DEF Uniform
    <3>3. \A u \in Threads : wanted[u] <= now + call[t].millis
      BY <2>4, <3>1
    <3>4. \A u \in Threads : wanted'[u] <= now + call[t].millis
      BY <1>t, <2>2, <3>3
    <3> QED
      BY <2>2, <3>2, <3>4
  <2>5. \A u \in Threads \ {t} : pc[u] \notin {"sec", "carry", "part"}
    BY <1>o, <2>1
  <2> QED
    BY <1>3, <1>t, <2>1, <2>2, <2>3, <2>4, <2>5 DEF ReadClock
<1>4. ASSUME NEW t \in Threads, Store(t) PROVE DeadlineInv'
  <2>1. pc[t] = "sec" /\ pc'[t] \in {"test", "block"} /\ \A u \in Threads \ {t} : pc'[u] = pc[u]
    BY <1>4, <1>t DEF Store, AfterStore
  <2>2. Value(timeout') = wanted[t]
    BY <1>4, <2>1, StoredValue DEF Store
  <2>3. \A u \in Threads : wanted[u] <= now \/ wanted[u] <= Value(timeout')
    BY <1>t, <2>1, <2>2, OthersCovered
  <2>4. \A u \in Threads : pc'[u] \notin {"sec", "carry", "part"}
    BY <1>o, <2>1
  <2> QED
    BY <1>4, <1>t, <2>1, <2>3, <2>4 DEF Store, Stored
<1>5. ASSUME NEW t \in Threads, StoreSec(t) PROVE DeadlineInv'
  <2>1. Torn /\ pc[t] = "sec" /\ pc'[t] = "carry" /\ \A u \in Threads \ {t} : pc'[u] = pc[u]
    BY <1>5, <1>t DEF StoreSec
  <2>2. timeout'.sec = ClockSec(ClockRead(t))
    BY <1>5, <1>t DEF StoreSec, Timespec
  <2>3. \A u \in Threads \ {t} : wanted[u] <= now
    BY <2>1, OthersCovered
  <2>4. \A u \in Threads \ {t} : pc'[u] \in {"idle", "wait"}
    BY <1>o, <2>1
  <2>5. ~Uniform
    BY <2>1 DEF Uniform
  <2> QED
    BY <1>5, <1>t, <2>1, <2>2, <2>3, <2>4, <2>5 DEF StoreSec, Stored, ClockRead
<1>6. ASSUME NEW t \in Threads, StoreCarry(t) PROVE DeadlineInv'
  <2>1. Torn /\ pc[t] = "carry" /\ pc'[t] = "part" /\ \A u \in Threads \ {t} : pc'[u] = pc[u]
    BY <1>6, <1>t DEF StoreCarry
  <2>2. timeout'.sec = ClockSec(ClockRead(t)) + Carry(ClockRead(t), call[t].millis)
    BY <1>6, <1>t DEF StoreCarry, Timespec
  <2>3. \A u \in Threads \ {t} : wanted[u] <= now
    BY <2>1, OthersCovered
  <2>4. \A u \in Threads \ {t} : pc'[u] \in {"idle", "wait"}
    BY <1>o, <2>1
  <2>5. ~Uniform
    BY <2>1 DEF Uniform
  <2> QED
    BY <1>6, <1>t, <2>1, <2>2, <2>3, <2>4, <2>5 DEF StoreCarry, Stored, ClockRead
<1>7. ASSUME NEW t \in Threads, StorePart(t) PROVE DeadlineInv'
  <2>1. Torn /\ pc[t] = "part" /\ pc'[t] \in {"test", "block"} /\ \A u \in Threads \ {t} : pc'[u] = pc[u]
    BY <1>7, <1>t DEF StorePart, AfterStore
  <2>2. timeout' = DeadlineOf(ClockRead(t), call[t].millis)
    <3>1. timeout.sec = ClockSec(ClockRead(t)) + Carry(ClockRead(t), call[t].millis)
      BY <2>1
    <3>2. timeout' = [sec |-> timeout.sec, part |-> Rest(ClockRead(t), call[t].millis)]
      BY <1>7, <1>t DEF StorePart, Timespec
    <3> QED
      BY <3>1, <3>2 DEF DeadlineOf
  <2>3. Value(timeout') = wanted[t]
    BY <2>1, <2>2, StoredValue
  <2>4. \A u \in Threads : wanted[u] <= now \/ wanted[u] <= Value(timeout')
    BY <1>t, <2>1, <2>3, OthersCovered
  <2>5. \A u \in Threads : pc'[u] \notin {"sec", "carry", "part"}
    BY <1>o, <2>1
  <2> QED
    BY <1>7, <1>t, <2>1, <2>4, <2>5 DEF StorePart, Stored
<1>8. ASSUME NEW t \in Threads, Test(t) PROVE DeadlineInv'
  BY <1>8, <1>t DEF Test, ClockRead
<1>9. ASSUME NEW t \in Threads, BlockTimed(t) PROVE DeadlineInv'
  BY <1>9, <1>t DEF BlockTimed, ClockRead
<1>10. ASSUME NEW t \in Threads, Refuse(t) PROVE DeadlineInv'
  BY <1>10, <1>t DEF Refuse, ClockRead
<1>11. ASSUME NEW t \in Threads, ReadDeadline(t) PROVE DeadlineInv'
  BY <1>11, <1>t DEF ReadDeadline, clientVars, ClockRead
<1>12. ASSUME NEW t \in Threads, Expire(t) PROVE DeadlineInv'
  <2>1. Value(deadline[t]) \in Int
    BY <1>t, ValueType
  <2>2. wanted[t] <= now /\ pc[t] = "wait"
    BY <1>12, <1>t, <2>1 DEF Expire
  <2> QED
    BY <1>12, <1>t, <2>2 DEF Expire, clientVars, ClockRead
<1>13. ASSUME NEW t \in Threads, Spurious(t) PROVE DeadlineInv'
  BY <1>13 DEF Spurious, clientVars, ClockRead
<1>14. ASSUME NEW t \in Threads, Wake(t) PROVE DeadlineInv'
  BY <1>14, <1>t DEF Wake, ClockRead
<1>15. ASSUME NEW t \in Threads, Depart(t) PROVE DeadlineInv'
  BY <1>15, <1>t DEF Depart, ClockRead
<1>16. CASE UNCHANGED cvVars
  BY <1>16 DEF cvVars, clientVars, ClockRead
<1> QED
  BY <1>0, <1>1, <1>2, <1>3, <1>4, <1>5, <1>6, <1>7, <1>8, <1>9, <1>10, <1>11, <1>12, <1>13,
     <1>14, <1>15, <1>16 DEF CvNext

(* When only one thread makes timed calls, or when all calls ask for the   *)
(* same duration and the deadline is stored in one piece, no call reports  *)
(* a time-out before its time (condition_variable::wait_for).              *)
THEOREM TimeoutsOnTime == ASSUME Undisturbed PROVE CvSpec => []NoEarlyTimeout
<1>1. CvIInv /\ DeadlineInv => NoEarlyTimeout
  BY DEF CvIInv, CvTypeOK, DeadlineInv, NoEarlyTimeout
<1>2. Undisturbed
  OBVIOUS
<1>3. CvIInv /\ DeadlineInv /\ [CvNext]_cvVars => DeadlineInv'
  BY <1>2, DeadlineInvNext
<1> QED
  BY <1>1, <1>3, CvIInvInit, CvIInvNext, DeadlineInvInit, PTL DEF CvSpec

-----------------------------------------------------------------------------
(* Nothing is assumed of the threads and their durations now.  As long as  *)
(* no other call has stored its deadline since t has stored its own, the   *)
(* deadline that t may still read covers its wait.                         *)
OwnDeadlineInv ==
  /\ \A t \in Threads : pc[t] = "carry" => timeout.sec = ClockSec(ClockRead(t))
  /\ \A t \in Threads : pc[t] = "part" =>
       timeout.sec = ClockSec(ClockRead(t)) + Carry(ClockRead(t), call[t].millis)
  /\ \A t \in Threads : pc[t] \notin Computing => Covers(timeout, t) \/ Overwritten(t)
  /\ \A t \in Threads : pc[t] = "wait" => Covers(deadline[t], t) \/ Overwritten(t)
  /\ \A t \in Threads : status[t] = "timedout" =>
       pc[t] \notin Computing \cup {"idle"} /\ (wanted[t] <= now \/ Overwritten(t))

LEMMA OwnDeadlineInvInit == CvInit => OwnDeadlineInv
  BY DEF CvInit, OwnDeadlineInv, Covers, Computing

LEMMA OwnDeadlineInvNext == CvIInv /\ OwnDeadlineInv /\ [CvNext]_cvVars => OwnDeadlineInv'
<1> SUFFICES ASSUME CvIInv, OwnDeadlineInv, [CvNext]_cvVars PROVE OwnDeadlineInv'
  OBVIOUS
<1> USE DEF OwnDeadlineInv, Covers, Computing, Overwritten, Goto
<1>t. /\ now \in Nat /\ timeout \in Timespec
      /\ pc \in [Threads -> CallLabels] /\ deadline \in [Threads -> Timespec]
      /\ call \in [Threads -> [loop : BOOLEAN, millis : Int]]
      /\ status \in [Threads -> {"no_timeout", "timedout"}]
      /\ wanted \in [Threads -> Int]
  BY DEF CvIInv, CvTypeOK
<1>o. \A t, u \in Threads : (t # u /\ pc[t] \notin {"idle", "wait"}) => pc[u] \in {"idle", "wait"}
  BY DEF CvIInv, CvConsistent
<1>a. \A t \in Threads : pc[t] # "idle" => t \in Timed
  BY DEF CvIInv, CvConsistent
<1>0. ASSUME Tick PROVE OwnDeadlineInv'
  <2>1. now' \in Nat /\ now <= now'
    BY <1>0, <1>t DEF Tick
  <2> QED
    BY <1>0, <1>t, <2>1 DEF Tick, clientVars, ClockRead
<1>1. ASSUME NEW t \in Threads, Signal(t) PROVE OwnDeadlineInv'
  BY <1>1 DEF Signal, clientVars, ClockRead
<1>2. ASSUME NEW t \in Threads, Enter(t) PROVE OwnDeadlineInv'
  <2>1. pc[t] = "idle" /\ pc'[t] \in {"clock", "block"} /\ \A u \in Threads \ {t} : pc'[u] = pc[u]
    BY <1>2, <1>t DEF Enter
  <2>2. \A u \in Threads \ {t} : ClockRead(u)' = ClockRead(u) /\ call'[u] = call[u]
    BY <1>2, <1>t DEF Enter, ClockRead
  <2> QED
    BY <1>2, <1>t, <2>1, <2>2 DEF Enter
<1>3. ASSUME NEW t \in Threads, ReadClock(t) PROVE OwnDeadlineInv'
  <2>1. pc[t] = "clock" /\ pc'[t] = "sec" /\ \A u \in Threads \ {t} : pc'[u] = pc[u]
    BY <1>3, <1>t DEF ReadClock
  <2>2. \A u \in Threads \ {t} : wanted'[u] = wanted[u] /\ ClockRead(u)' = ClockRead(u)
    BY <1>3, <1>t DEF ReadClock, ClockRead
  <2> QED
    BY <1>3, <1>t, <2>1, <2>2 DEF ReadClock
<1>4. ASSUME NEW t \in Threads, Store(t) PROVE OwnDeadlineInv'
  <2>1. pc[t] = "sec" /\ pc'[t] \in {"test", "block"} /\ \A u \in Threads \ {t} : pc'[u] = pc[u]
    BY <1>4, <1>t DEF Store, AfterStore
  <2>2. Value(timeout') = wanted[t] /\ wanted'[t] = wanted[t]
    BY <1>4, <2>1, StoredValue DEF Store, Stored
  <2>3. \A u \in Threads \ {t} : Overwritten(u)'
    BY <1>4, <1>a, <2>1 DEF Store, Stored
  <2>4. \A u \in Threads : pc'[u] \notin {"sec", "carry", "part"}
    BY <1>o, <2>1
  <2> QED
    BY <1>4, <1>t, <2>1, <2>2, <2>3, <2>4 DEF Store, Stored
<1>5. ASSUME NEW t \in Threads, StoreSec(t) PROVE OwnDeadlineInv'
  <2>1. pc[t] = "sec" /\ pc'[t] = "carry" /\ \A u \in Threads \ {t} : pc'[u] = pc[u]
    BY <1>5, <1>t DEF StoreSec
  <2>2. timeout'.sec = ClockSec(ClockRead(t))
    BY <1>5, <1>t DEF StoreSec, Timespec
  <2>3. \A u \in Threads \ {t} : Overwritten(u)'
    BY <1>5, <1>a, <2>1 DEF StoreSec, Stored
  <2>4. \A u \in Threads \ {t} : pc'[u] \in {"idle", "wait"}
    BY <1>o, <2>1
  <2> QED
    BY <1>5, <1>t, <2>1, <2>2, <2>3, <2>4 DEF StoreSec, Stored, ClockRead
<1>6. ASSUME NEW t \in Threads, StoreCarry(t) PROVE OwnDeadlineInv'
  <2>1. pc[t] = "carry" /\ pc'[t] = "part" /\ \A u \in Threads \ {t} : pc'[u] = pc[u]
    BY <1>6, <1>t DEF StoreCarry
  <2>2. timeout'.sec = ClockSec(ClockRead(t)) + Carry(ClockRead(t), call[t].millis)
    BY <1>6, <1>t, <2>1 DEF StoreCarry, Timespec
  <2>3. \A u \in Threads \ {t} : Overwritten(u)'
    BY <1>6, <1>a, <2>1 DEF StoreCarry, Stored
  <2>4. \A u \in Threads \ {t} : pc'[u] \in {"idle", "wait"}
    BY <1>o, <2>1
  <2> QED
    BY <1>6, <1>t, <2>1, <2>2, <2>3, <2>4 DEF StoreCarry, Stored, ClockRead
<1>7. ASSUME NEW t \in Threads, StorePart(t) PROVE OwnDeadlineInv'
  <2>1. pc[t] = "part" /\ pc'[t] \in {"test", "block"} /\ \A u \in Threads \ {t} : pc'[u] = pc[u]
    BY <1>7, <1>t DEF StorePart, AfterStore
  <2>2. timeout' = DeadlineOf(ClockRead(t), call[t].millis)
    <3>1. timeout.sec = ClockSec(ClockRead(t)) + Carry(ClockRead(t), call[t].millis)
      BY <2>1
    <3>2. timeout' = [sec |-> timeout.sec, part |-> Rest(ClockRead(t), call[t].millis)]
      BY <1>7, <1>t DEF StorePart, Timespec
    <3> QED
      BY <3>1, <3>2 DEF DeadlineOf
  <2>3. Value(timeout') = wanted[t] /\ wanted'[t] = wanted[t]
    BY <1>7, <2>1, <2>2, StoredValue DEF StorePart, Stored
  <2>4. \A u \in Threads \ {t} : Overwritten(u)'
    BY <1>7, <1>a, <2>1 DEF StorePart, Stored
  <2>5. \A u \in Threads : pc'[u] \notin {"sec", "carry", "part"}
    BY <1>o, <2>1
  <2> QED
    BY <1>7, <1>t, <2>1, <2>3, <2>4, <2>5 DEF StorePart, Stored
<1>8. ASSUME NEW t \in Threads, Test(t) \/ Refuse(t) PROVE OwnDeadlineInv'
  BY <1>8, <1>t DEF Test, Refuse, ClockRead
<1>9. ASSUME NEW t \in Threads, BlockTimed(t) PROVE OwnDeadlineInv'
  BY <1>9, <1>t DEF BlockTimed, ClockRead
<1>10. ASSUME NEW t \in Threads, ReadDeadline(t) PROVE OwnDeadlineInv'
  BY <1>10, <1>t DEF ReadDeadline, clientVars, ClockRead
<1>11. ASSUME NEW t \in Threads, Expire(t) PROVE OwnDeadlineInv'
  <2>1. Value(deadline[t]) \in Int /\ Value(deadline[t]) <= now /\ wanted[t] \in Int
    BY <1>11, <1>t, ValueType DEF Expire
  <2>2. wanted[t] <= now \/ Overwritten(t)
    BY <1>11, <1>t, <2>1 DEF Expire
  <2> QED
    BY <1>11, <1>t, <2>2 DEF Expire, clientVars, ClockRead
<1>12. ASSUME NEW t \in Threads, Spurious(t) PROVE OwnDeadlineInv'
  BY <1>12 DEF Spurious, clientVars, ClockRead
<1>13. ASSUME NEW t \in Threads, Wake(t) \/ Depart(t) PROVE OwnDeadlineInv'
  <2>1. /\ pc[t] \in {"wait", "leave"} /\ pc'[t] \in {"test", "leave", "idle"}
        /\ \A u \in Threads \ {t} : pc'[u] = pc[u]
    BY <1>13, <1>t DEF Wake, Depart
  <2>2. \A u \in Threads \ {t} : /\ ClockRead(u)' = ClockRead(u) /\ call'[u] = call[u]
                                 /\ deadline'[u] = deadline[u] /\ status'[u] = status[u]
    BY <1>13, <1>t DEF Wake, Depart, ClockRead
  <2>3. /\ status'[t] = "timedout" => status[t] = "timedout" /\ pc'[t] # "idle"
        /\ UNCHANGED <<now, timeout, author, wanted>>
    BY <1>13, <1>t DEF Wake, Depart
  <2> QED
    BY <1>t, <2>1, <2>2, <2>3
<1>14. CASE UNCHANGED cvVars
  BY <1>14 DEF cvVars, clientVars, ClockRead
<1> QED
  BY <1>0, <1>1, <1>2, <1>3, <1>4, <1>5, <1>6, <1>7, <1>8, <1>9, <1>10, <1>11, <1>12, <1>13,
     <1>14 DEF CvNext

(* Whatever durations the threads ask for, negative ones included, and     *)
(* also when a deadline is read between the stores of its fields: a call   *)
(* that reports a time-out too early (the run cv_mixed) has had its        *)
(* deadline replaced by another call (condition_variable.cpp, milliseconds *)
(* and wait_for).  Its own arithmetic, stores and resumed waits are never  *)
(* the reason.                                                             *)
THEOREM EarlyOnlyWhenOverwritten == CvSpec => []EarlyOnlyIfOverwritten
<1>1. CvIInv /\ OwnDeadlineInv => EarlyOnlyIfOverwritten
  BY DEF CvIInv, CvTypeOK, OwnDeadlineInv, EarlyOnlyIfOverwritten
<1> QED
  BY <1>1, CvIInvInit, CvIInvNext, OwnDeadlineInvInit, OwnDeadlineInvNext, PTL DEF CvSpec

-----------------------------------------------------------------------------
(* A deadline that was computed from a duration which is not negative is   *)
(* still valid when it is used, unless another call has replaced it.       *)
ValidInv ==
  /\ \A t \in Threads : pc[t] \in {"test", "block", "wait"} /\ call[t].millis >= 0 =>
       IsValid(timeout) \/ Overwritten(t)
  /\ \A t \in Threads : refused[t] => pc[t] = "leave"
  /\ RefusedOnlyIfNegative

LEMMA ValidInvInit == CvInit => ValidInv
  BY DEF CvInit, ValidInv, RefusedOnlyIfNegative

LEMMA ValidInvNext == CvIInv /\ ValidInv /\ [CvNext]_cvVars => ValidInv'
<1> SUFFICES ASSUME CvIInv, ValidInv, [CvNext]_cvVars PROVE ValidInv'
  OBVIOUS
<1> USE DEF ValidInv, RefusedOnlyIfNegative, Overwritten, Goto
<1>t. /\ timeout \in Timespec
      /\ pc \in [Threads -> CallLabels]
      /\ call \in [Threads -> [loop : BOOLEAN, millis : Int]]
      /\ refused \in [Threads -> BOOLEAN]
  BY DEF CvIInv, CvTypeOK
<1>a. \A t \in Threads : pc[t] # "idle" => t \in Timed
  BY DEF CvIInv, CvConsistent
<1>c. ASSUME NEW t \in Threads, pc[t] \in {"sec", "carry", "part"}, call[t].millis >= 0,
             timeout'.part = Rest(ClockRead(t), call[t].millis)
      PROVE  IsValid(timeout')
  <2>1. IsValid(DeadlineOf(ClockRead(t), call[t].millis))
    BY <1>c, StoredValue, DeadlineExact
  <2> QED
    BY <1>c, <2>1 DEF IsValid, DeadlineOf
<1>1. ASSUME NEW t \in Threads, Enter(t) PROVE ValidInv'
  <2>1. PICK c \in TimedCalls :
          /\ call' = [call EXCEPT ![t] = c]
          /\ Goto(t, IF c.loop \/ c.millis >= 0 THEN "clock" ELSE "block")
    BY <1>1 DEF Enter
  <2>2. pc'[t] = "block" => call'[t].millis < 0
    <3>1. call'[t] = c /\ c.millis \in Int
      BY <1>t, <2>1, DeadlineAssumption DEF TimedCalls
    <3>2. CASE c.millis >= 0
      <4>1. pc'[t] = "clock"
        BY <1>t, <2>1, <3>2
      <4> QED
        BY <4>1
    <3> QED
      BY <3>1, <3>2
  <2>3. ~refused[t] /\ pc'[t] \in {"clock", "block"}
    BY <1>1, <1>t, <2>1 DEF Enter
  <2> QED
    BY <1>1, <1>t, <2>1, <2>2, <2>3 DEF Enter
<1>2. ASSUME NEW t \in Threads, Store(t) PROVE ValidInv'
  <2>1. pc[t] = "sec" /\ \A u \in Threads \ {t} : pc'[u] = pc[u]
    BY <1>2, <1>t DEF Store, AfterStore
  <2>2. call[t].millis >= 0 => IsValid(timeout')
    BY <1>2, <1>c, <2>1 DEF Store, DeadlineOf
  <2>3. \A u \in Threads \ {t} : Overwritten(u)'
    BY <1>2, <1>a, <2>1 DEF Store, Stored
  <2> QED
    BY <1>2, <2>1, <2>2, <2>3 DEF Store, Stored
<1>3. ASSUME NEW t \in Threads, StoreSec(t) \/ StoreCarry(t) PROVE ValidInv'
  <2>1. /\ pc[t] \in {"sec", "carry"} /\ pc'[t] \in {"carry", "part"}
        /\ \A u \in Threads \ {t} : pc'[u] = pc[u]
    BY <1>3, <1>t DEF StoreSec, StoreCarry
  <2>2. \A u \in Threads \ {t} : Overwritten(u)'
    BY <1>3, <1>a, <2>1 DEF StoreSec, StoreCarry, Stored
  <2> QED
    BY <1>3, <2>1, <2>2 DEF StoreSec, StoreCarry, Stored
<1>4. ASSUME NEW t \in Threads, StorePart(t) PROVE ValidInv'
  <2>1. pc[t] = "part" /\ \A u \in Threads \ {t} : pc'[u] = pc[u]
    BY <1>4, <1>t DEF StorePart, AfterStore
  <2>2. timeout'.part = Rest(ClockRead(t), call[t].millis)
    BY <1>4, <1>t DEF StorePart, Timespec
  <2>3. call[t].millis >= 0 => IsValid(timeout')
    BY <1>c, <2>1, <2>2
  <2>4. \A u \in Threads \ {t} : Overwritten(u)'
    BY <1>4, <1>a, <2>1 DEF StorePart, Stored
  <2> QED
    BY <1>4, <2>1, <2>3, <2>4 DEF StorePart, Stored
<1>5. ASSUME NEW t \in Threads, Refuse(t) PROVE ValidInv'
  <2>1. call[t].millis >= 0 => Overwritten(t)
    BY <1>5, <1>t DEF Refuse
  <2> QED
    BY <1>5, <1>t, <2>1 DEF Refuse
<1>6. ASSUME NEW t \in Threads, Test(t) \/ BlockTimed(t) \/ Wake(t) PROVE ValidInv'
  BY <1>6, <1>t DEF Test, BlockTimed, Wake
<1>7. ASSUME NEW t \in Threads, ReadClock(t) \/ Depart(t) PROVE ValidInv'
  <2>1. /\ pc[t] \in {"clock", "leave"} /\ pc'[t] \in {"sec", "idle"}
        /\ \A u \in Threads \ {t} : pc'[u] = pc[u] /\ call'[u] = call[u] /\ refused'[u] = refused[u]
    BY <1>7, <1>t DEF ReadClock, Depart
  <2>2. ~refused'[t] /\ UNCHANGED <<timeout, author>>
    BY <1>7, <1>t DEF ReadClock, Depart
  <2> QED
    BY <1>t, <2>1, <2>2
<1>8. ASSUME Tick \/ \E t \in Threads : \/ Signal(t) \/ ReadDeadline(t)
                                        \/ Expire(t) \/ Spurious(t)
      PROVE  ValidInv'
  BY <1>8 DEF Tick, Signal, ReadDeadline, Expire, Spurious, clientVars
<1>9. CASE UNCHANGED cvVars
  BY <1>9 DEF cvVars, clientVars
<1> QED
  BY <1>1, <1>2, <1>3, <1>4, <1>5, <1>6, <1>7, <1>8, <1>9 DEF CvNext

(* A call with a duration that is not negative ends with the exception     *)
(* wait_for throws for EINVAL only when another call has replaced its      *)
(* deadline: the three stores of milliseconds() leave a normalised         *)
(* timespec, and it stays one until it is used.                            *)
THEOREM RefusalsDeserved == CvSpec => []RefusedOnlyIfNegative
<1>1. ValidInv => RefusedOnlyIfNegative
  BY DEF ValidInv
<1> QED
  BY <1>1, CvIInvInit, CvIInvNext, ValidInvInit, ValidInvNext, PTL DEF CvSpec

(* Whatever the length of a second and the width of useconds_t: a duration *)
(* that is not negative never makes sleep_for sleep too long, or a second  *)
(* or more too short.                                                      *)
THEOREM SleepsBounded == ASSUME NEW ms \in Nat PROVE SleepNearlyExact(ms)
<1>1. CASE ms < Second
  <2>1. ms * 1000 \in Nat /\ ms * 1000 < UsecModulus
    BY <1>1, DeadlineAssumption
  <2>2. (ms * 1000) % UsecModulus = ms * 1000
    BY <2>1, DeadlineAssumption
  <2> QED
    BY <1>1, <2>2, DeadlineAssumption DEF SleepNearlyExact, SleepFor
<1>2. CASE ms >= Second
  <2> DEFINE q == Quot(ms, Second)
             r == Rem(ms, Second)
  <2>1. q \in Int /\ r \in 0 .. Second - 1 /\ ms = Second * q + r
    BY RemType, DeadlineAssumption
  <2>2. SleepFor(ms) = q * Second * 1000
    BY <1>2, DeadlineAssumption DEF SleepFor
  <2> HIDE DEF q, r
  <2>3. q * Second \in Int /\ q * Second = ms - r
    BY <2>1, DeadlineAssumption
  <2> QED
    BY <2>1, <2>2, <2>3, DeadlineAssumption DEF SleepNearlyExact
<1> QED
  BY <1>1, <1>2, DeadlineAssumption

=============================================================================
