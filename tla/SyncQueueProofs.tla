--------------------------- MODULE SyncQueueProofs ---------------------------
(***************************************************************************)
(* Theorems about SyncQueue, for any number of threads, any items, any     *)
(* sizes and any widths of int and size_t.                                 *)
(***************************************************************************)
EXTENDS SyncQueue, FiniteSetTheorems, TLAPS

(* The conversions stay within their types.                                *)
LEMMA ToIntType == ASSUME NEW n \in Nat PROVE ToInt(n) \in Ints
<1> DEFINE r == n % IntModulus
           h == IntModulus \div 2
<1>1. r \in 0 .. IntModulus - 1
  BY QueueAssumption
<1>2. h \in Nat /\ IntModulus = h + h
  BY QueueAssumption
<1>3. ToInt(n) = IF r < h THEN r ELSE r - IntModulus
  BY DEF ToInt
<1>4. Ints = -h .. h - 1
  BY DEF Ints
<1> HIDE DEF r, h
<1> QED
  BY <1>1, <1>2, <1>3, <1>4, QueueAssumption

LEMMA ToSizeTType == ASSUME NEW i \in Ints PROVE ToSizeT(i) \in Nat
BY QueueAssumption DEF ToSizeT, Ints

-----------------------------------------------------------------------------
LEMMA TypeInit == Init => TypeOK
BY QueueAssumption, MonitorAssumption
   DEF Init, TypeOK, MonitorInit, MonitorTypeOK, CVs, Ops, Labels, Results, Calls, NoCall

LEMMA TypeNext == TypeOK /\ Consistent /\ [Next]_vars => TypeOK'
<1> SUFFICES ASSUME TypeOK, Consistent, [Next]_vars PROVE TypeOK'
  OBVIOUS
<1> USE DEF TypeOK, MonitorTypeOK, CVs, Ops, Labels, Results, GoTo, End
<1>1. ASSUME NEW t \in Threads, Invoke(t) PROVE TypeOK'
  BY <1>1 DEF Invoke, monitorVars, Calls
<1>2. ASSUME NEW t \in Threads, Acquire(t) PROVE TypeOK'
  BY <1>2 DEF Acquire, Lock
<1>3. ASSUME NEW t \in Threads, Resume(t) PROVE TypeOK'
  BY <1>3 DEF Resume, Lock
<1>4. ASSUME NEW t \in Threads, Ready(t) PROVE TypeOK'
  BY <1>4 DEF Ready, monitorVars
<1>5. ASSUME NEW t \in Threads, Wait(t) PROVE TypeOK'
  BY <1>5 DEF Wait, Block, Unlock
<1>6. ASSUME NEW t \in Threads, WaitRefused(t) PROVE TypeOK'
  BY <1>6 DEF WaitRefused, monitorVars
<1>7. ASSUME NEW t \in Threads, GiveUp(t) PROVE TypeOK'
  BY <1>7 DEF GiveUp, monitorVars
<1>8. ASSUME NEW t \in Threads, Push(t) PROVE TypeOK'
  <2>1. call[t].item \in Items
    BY <1>8 DEF Push, Consistent
  <2>2. Append(items, call[t].item) \in Seq(Items)
    BY <2>1
  <2> QED
    BY <1>8, <2>2 DEF Push, monitorVars
<1>9. ASSUME NEW t \in Threads, Pop(t) PROVE TypeOK'
  <2>1. items # <<>>
    BY <1>9 DEF Pop, Consistent
  <2>2. Head(items) \in Items /\ Tail(items) \in Seq(Items)
    BY <2>1
  <2> QED
    BY <1>9, <2>2 DEF Pop, monitorVars
<1>10. ASSUME NEW t \in Threads, CopyFails(t) PROVE TypeOK'
  BY <1>10 DEF CopyFails, monitorVars
<1>11. ASSUME NEW t \in Threads, Notify(t) PROVE TypeOK'
  BY <1>11 DEF Notify, NotifyOne
<1>12. ASSUME NEW t \in Threads, NotifyExpired(t) PROVE TypeOK'
  BY <1>12 DEF NotifyExpired, NotifyAll
<1>13. ASSUME NEW t \in Threads, Return(t) PROVE TypeOK'
  BY <1>13 DEF Return, Unlock, Calls, NoCall
<1>14. ASSUME NEW t \in Threads, SpuriousWake(t) PROVE TypeOK'
  BY <1>14 DEF SpuriousWake, Leave, queueVars
<1>15. ASSUME NEW t \in Threads, Timeout(t) PROVE TypeOK'
  BY <1>15 DEF Timeout, Leave
<1>16. ASSUME SetMaxSize PROVE TypeOK'
  BY <1>16, ToIntType, QueueAssumption DEF SetMaxSize, monitorVars
<1>17. CASE UNCHANGED vars
  BY <1>17 DEF vars, monitorVars, queueVars
<1> QED
  BY <1>1, <1>2, <1>3, <1>4, <1>5, <1>6, <1>7, <1>8, <1>9, <1>10, <1>11, <1>12,
     <1>13, <1>14, <1>15, <1>16, <1>17 DEF Next, Step

-----------------------------------------------------------------------------
LEMMA ConsistentInit == Init => Consistent
BY MonitorAssumption
   DEF Init, Consistent, MonitorInit, CVs, Ops, CvOf, Inside, NoCall

LEMMA ConsistentNext == TypeOK /\ Consistent /\ [Next]_vars => Consistent'
<1> SUFFICES ASSUME TypeOK, Consistent, [Next]_vars PROVE Consistent'
  OBVIOUS
<1> USE MonitorAssumption DEF TypeOK, MonitorTypeOK, Consistent, Inside, CVs, Ops, CvOf, Other,
                              Labels, GoTo, End
<1>1. ASSUME NEW t \in Threads, Invoke(t) PROVE Consistent'
  <2>1. PICK c \in Calls : call' = [call EXCEPT ![t] = c]
    BY <1>1 DEF Invoke
  <2>2. c.op = "put" => c.item \in Items
    BY DEF Calls
  <2>3. \A u \in Threads : pc[u] # "idle" => u # t
    BY <1>1 DEF Invoke
  <2>4. status[t] = "no_timeout"
    BY <1>1 DEF Invoke
  <2> QED
    BY <1>1, <2>1, <2>2, <2>3, <2>4 DEF Invoke, monitorVars
<1>2. ASSUME NEW t \in Threads, Acquire(t) PROVE Consistent'
  BY <1>2 DEF Acquire, Lock
<1>3. ASSUME NEW t \in Threads, Resume(t) PROVE Consistent'
  BY <1>3 DEF Resume, Lock
<1>4. ASSUME NEW t \in Threads, Ready(t) PROVE Consistent'
  BY <1>4 DEF Ready, Predicate, HasItem, HasRoom, monitorVars
<1>5. ASSUME NEW t \in Threads, Wait(t) PROVE Consistent'
  BY <1>5 DEF Wait, Block, Unlock
<1>6. ASSUME NEW t \in Threads, WaitRefused(t) PROVE Consistent'
  BY <1>6 DEF WaitRefused, monitorVars
<1>7. ASSUME NEW t \in Threads, GiveUp(t) PROVE Consistent'
  BY <1>7 DEF GiveUp, monitorVars
<1>8. ASSUME NEW t \in Threads, Push(t) PROVE Consistent'
  BY <1>8 DEF Push, monitorVars
<1>9. ASSUME NEW t \in Threads, Pop(t) PROVE Consistent'
  BY <1>9 DEF Pop, monitorVars
<1>10. ASSUME NEW t \in Threads, CopyFails(t) PROVE Consistent'
  BY <1>10 DEF CopyFails, monitorVars
<1>11. ASSUME NEW t \in Threads, Notify(t) PROVE Consistent'
  BY <1>11 DEF Notify, NotifyOne
<1>12. ASSUME NEW t \in Threads, NotifyExpired(t) PROVE Consistent'
  BY <1>12 DEF NotifyExpired, NotifyAll
<1>13. ASSUME NEW t \in Threads, Return(t) PROVE Consistent'
  BY <1>13 DEF Return, Unlock, NoCall
<1>14. ASSUME NEW t \in Threads, SpuriousWake(t) PROVE Consistent'
  BY <1>14 DEF SpuriousWake, Leave, queueVars
<1>15. ASSUME NEW t \in Threads, Timeout(t) PROVE Consistent'
  BY <1>15 DEF Timeout, Leave
<1>16. ASSUME SetMaxSize PROVE Consistent'
  BY <1>16 DEF SetMaxSize, monitorVars
<1>17. CASE UNCHANGED vars
  BY <1>17 DEF vars, monitorVars, queueVars
<1> QED
  BY <1>1, <1>2, <1>3, <1>4, <1>5, <1>6, <1>7, <1>8, <1>9, <1>10, <1>11, <1>12,
     <1>13, <1>14, <1>15, <1>16, <1>17 DEF Next, Step

-----------------------------------------------------------------------------
(* The inductive invariant, from which the two halves follow.              *)
THEOREM Invariance == Spec => []IInv
<1>1. Init => IInv
  BY TypeInit, ConsistentInit DEF IInv
<1>2. IInv /\ [Next]_vars => IInv'
  BY TypeNext, ConsistentNext DEF IInv
<1> QED
  BY <1>1, <1>2, PTL DEF Spec

(* Every variable keeps its type: in particular what set_max_size stores   *)
(* is an int, whatever size_t it is given (sync_queue.hpp:129).            *)
THEOREM TypeCorrect == Spec => []TypeOK
<1>1. IInv => TypeOK
  BY DEF IInv
<1> QED
  BY <1>1, Invariance, PTL

(* The mutex serves its purpose: exactly the thread between lock and       *)
(* unlock or wait owns it, and a get that goes on to front() finds an item *)
(* there, even though its wait has released the mutex in between.          *)
THEOREM MonitorCorrect == Spec => []Consistent
<1>1. IInv => Consistent
  BY DEF IInv
<1> QED
  BY <1>1, Invariance, PTL

-----------------------------------------------------------------------------
(* The refinement: the phase of a thread, as BoundedQueue sees it, changes *)
(* in eight actions only, and only for the thread that takes the action.   *)
LEMMA RefinementInit == Init => Abstract!QueueInit
<1> SUFFICES ASSUME Init PROVE Abstract!QueueInit
  OBVIOUS
<1>1. Cap \in Nat
  BY ToSizeTType, QueueAssumption DEF Init, Cap
<1>2. Phases = [t \in Threads |-> "idle"]
  BY DEF Init, Phases, Phase
<1> QED
  BY <1>1, <1>2 DEF Init, Abstract!QueueInit, NoCall, Abstract!NoCall

LEMMA RefinementNext ==
  IInv /\ [Next]_vars => [Abstract!QueueNext]_(Abstract!boundedVars)
<1> SUFFICES ASSUME IInv, [Next]_vars PROVE [Abstract!QueueNext]_(Abstract!boundedVars)
  OBVIOUS
<1> USE DEF IInv, GoTo, End
<1> DEFINE Refined == [Abstract!QueueNext]_(Abstract!boundedVars)
(* Steps inside the monitor that a client cannot see.                      *)
<1>1. ASSUME Phases' = Phases, UNCHANGED <<items, maxSize, call, result>> PROVE Refined
  BY <1>1 DEF Abstract!boundedVars, Cap
(* A thread that is about to store its item holds the mutex.               *)
<1>2. ASSUME NEW t \in Threads, pc[t] \in Inside, NEW u \in Threads, Phases[u] = "reserved"
      PROVE  u = t
  <2>1. pc[u] = "act"
    BY <1>2 DEF Phases, Phase
  <2> QED
    BY <1>2, <2>1, MonitorAssumption DEF Consistent, Inside
<1>3. ASSUME NEW t \in Threads, Invoke(t) PROVE Refined
  <2>1. Phases' = [Phases EXCEPT ![t] = "called"]
    BY <1>3 DEF Invoke, Phases, Phase, TypeOK, Labels
  <2>2. \E c \in Abstract!Calls : Abstract!Invoke(t, c)
    BY <1>3, <2>1 DEF Invoke, Phases, Phase, Calls, Abstract!Calls, Abstract!Invoke, Cap
  <2> QED
    BY <2>2 DEF Abstract!QueueNext
<1>4. ASSUME NEW t \in Threads, Ready(t) PROVE Refined
  <2>1. CASE call[t].op = "put"
    <3>1. Phases' = [Phases EXCEPT ![t] = "reserved"] /\ Phases[t] = "called"
      BY <1>4, <2>1 DEF Ready, Phases, Phase, TypeOK, Labels
    <3>2. \A u \in Threads : Phases[u] # "reserved"
      BY <1>2, <1>4, <3>1 DEF Ready, Inside
    <3>3. Len(items) < Cap
      BY <1>4, <2>1 DEF Ready, Predicate, HasItem, HasRoom
    <3>4. Abstract!Reserve(t)
      BY <1>4, <2>1, <3>1, <3>2, <3>3 DEF Ready, Abstract!Reserve, Cap
    <3> QED
      BY <3>4 DEF Abstract!QueueNext
  <2>2. CASE call[t].op # "put"
    <3>1. Phases' = Phases
      BY <1>4, <2>2 DEF Ready, Phases, Phase, TypeOK, Labels
    <3> QED
      BY <1>1, <1>4, <3>1 DEF Ready
  <2> QED
    BY <2>1, <2>2
<1>5. ASSUME NEW t \in Threads, WaitRefused(t) PROVE Refined
  <2>1. Phases' = [Phases EXCEPT ![t] = "done"] /\ Phases[t] = "called"
    BY <1>5 DEF WaitRefused, Phases, Phase, TypeOK, Labels
  <2>2. Abstract!Fail(t)
    BY <1>5, <2>1 DEF WaitRefused, Abstract!Fail, Abstract!Done, Cap
  <2> QED
    BY <2>2 DEF Abstract!QueueNext
<1>6. ASSUME NEW t \in Threads, GiveUp(t) PROVE Refined
  <2>1. Phases' = [Phases EXCEPT ![t] = "done"] /\ Phases[t] = "called"
    BY <1>6 DEF GiveUp, Phases, Phase, TypeOK, Labels
  <2>2. call[t].timed /\ call[t].op \in {"get", "put"}
    BY <1>6 DEF GiveUp, Consistent, TypeOK, Ops
  <2>3. call[t].op = "put" => Len(items) >= Cap
    <3>1. Cap \in Int /\ Len(items) \in Int
      BY ToSizeTType DEF TypeOK, Cap
    <3> QED
      BY <1>6, <3>1 DEF GiveUp, Predicate, HasItem, HasRoom
  <2>4. call[t].op = "get" => items = <<>>
    BY <1>6 DEF GiveUp, Predicate, HasItem, HasRoom
  <2>5. Abstract!Expire(t)
    BY <1>6, <2>1, <2>2, <2>3, <2>4 DEF GiveUp, Abstract!Expire, Abstract!Done, Cap
  <2> QED
    BY <2>5 DEF Abstract!QueueNext
<1>7. ASSUME NEW t \in Threads, Push(t) PROVE Refined
  <2>1. Phases' = [Phases EXCEPT ![t] = "done"] /\ Phases[t] = "reserved"
    BY <1>7 DEF Push, Phases, Phase, TypeOK, Labels
  <2>2. Abstract!Enqueue(t)
    BY <1>7, <2>1 DEF Push, Abstract!Enqueue, Abstract!Done, Cap
  <2> QED
    BY <2>2 DEF Abstract!QueueNext
<1>8. ASSUME NEW t \in Threads, Pop(t) PROVE Refined
  <2>1. Phases' = [Phases EXCEPT ![t] = "done"] /\ Phases[t] = "called"
    BY <1>8 DEF Pop, Phases, Phase, TypeOK, Labels
  <2>2. \A u \in Threads : Phases[u] # "reserved"
    BY <1>2, <1>8, <2>1 DEF Pop, Inside
  <2>3. items # <<>>
    BY <1>8 DEF Pop, Consistent
  <2>4. Abstract!Dequeue(t)
    BY <1>8, <2>1, <2>2, <2>3 DEF Pop, Abstract!Dequeue, Abstract!Done, Cap
  <2> QED
    BY <2>4 DEF Abstract!QueueNext
<1>9. ASSUME NEW t \in Threads, CopyFails(t) PROVE Refined
  <2>1. Phases' = [Phases EXCEPT ![t] = "done"] /\ Phases[t] \in {"called", "reserved"}
    BY <1>9 DEF CopyFails, Phases, Phase, TypeOK, Labels
  <2>2. Abstract!Fail(t)
    BY <1>9, <2>1 DEF CopyFails, Abstract!Fail, Abstract!Done, Cap
  <2> QED
    BY <2>2 DEF Abstract!QueueNext
<1>10. ASSUME NEW t \in Threads, Return(t) PROVE Refined
  <2>1. Phases' = [Phases EXCEPT ![t] = "idle"] /\ Phases[t] = "done"
    BY <1>10 DEF Return, Phases, Phase, TypeOK, Labels, Calls
  <2>2. Abstract!Return(t)
    BY <1>10, <2>1 DEF Return, Abstract!Return, NoCall, Abstract!NoCall, Cap
  <2> QED
    BY <2>2 DEF Abstract!QueueNext
<1>11. ASSUME SetMaxSize PROVE Refined
  <2>1. Cap' \in Nat
    <3>1. maxSize' \in Ints
      BY <1>11, ToIntType, QueueAssumption DEF SetMaxSize
    <3> QED
      BY <3>1, ToSizeTType DEF Cap
  <2>2. Phases' = Phases
    BY <1>11 DEF SetMaxSize, Phases, Phase
  <2>3. Abstract!Resize
    BY <1>11, <2>1, <2>2 DEF SetMaxSize, Abstract!Resize
  <2> QED
    BY <2>3 DEF Abstract!QueueNext
<1>12. ASSUME NEW t \in Threads,
              \/ Acquire(t) \/ Resume(t) \/ Wait(t) \/ Notify(t) \/ NotifyExpired(t)
              \/ SpuriousWake(t) \/ Timeout(t)
       PROVE  Refined
  <2>1. UNCHANGED <<items, maxSize, call, result>>
    BY <1>12 DEF Acquire, Resume, Wait, Notify, NotifyExpired, SpuriousWake, Timeout, queueVars
  <2>2. Phases' = Phases
    BY <1>12, <2>1 DEF Acquire, Resume, Wait, Notify, NotifyExpired, SpuriousWake, Timeout,
       queueVars, Phases, Phase, TypeOK, Labels
  <2> QED
    BY <1>1, <2>1, <2>2
<1>13. CASE UNCHANGED vars
  BY <1>1, <1>13 DEF vars, queueVars, Phases, Phase
<1> QED
  BY <1>3, <1>4, <1>5, <1>6, <1>7, <1>8, <1>9, <1>10, <1>11, <1>12, <1>13 DEF Next, Step

(* The queue is linearizable: for any number of threads, with sizes that   *)
(* change at any time and copies that throw, put and get (sync_queue.hpp:  *)
(* 173-254) behave as atomic operations on a first-in first-out queue.     *)
THEOREM Linearizability == Spec => Linearizable
<1>1. Init => Abstract!QueueInit
  BY RefinementInit
<1>2. IInv /\ [Next]_vars => [Abstract!QueueNext]_(Abstract!boundedVars)
  BY RefinementNext
<1> QED
  BY <1>1, <1>2, Invariance, PTL DEF Spec, Linearizable, Abstract!Spec

-----------------------------------------------------------------------------
(* No wake-up is lost.  NoneLost(op) compares the supply with the number   *)
(* of aware threads; an action leaves the two as they are, or moves them   *)
(* in step, or adds an aware thread, or makes the claim trivial.           *)
LEMMA AwareFinite == ASSUME NEW op PROVE IsFiniteSet(Aware(op)) /\ IsFiniteSet(Aware(op)')
BY MonitorAssumption, FS_Subset DEF Aware, Seeking, Notifying

LEMMA SupplyType ==
  ASSUME NEW op \in Ops
  PROVE  (IInv => Supply(op) \in Int) /\ (IInv' => Supply(op)' \in Int)
BY ToSizeTType DEF IInv, TypeOK, Supply, Cap, Ops

LEMMA AwareGrows ==
  ASSUME NEW op, Aware(op) \subseteq Aware(op)'
  PROVE  Cardinality(Aware(op)) <= Cardinality(Aware(op)')
BY AwareFinite, FS_Subset

LEMMA AwareGains ==
  ASSUME NEW op, NEW t, t \notin Aware(op), Aware(op)' = Aware(op) \cup {t}
  PROVE  Cardinality(Aware(op)') = Cardinality(Aware(op)) + 1
BY AwareFinite, FS_AddElement

LEMMA AwareLoses ==
  ASSUME NEW op, NEW t, t \in Aware(op), Aware(op)' = Aware(op) \ {t}
  PROVE  Cardinality(Aware(op)') = Cardinality(Aware(op)) - 1
BY AwareFinite, FS_RemoveElement

LEMMA AwareSwaps ==
  ASSUME NEW op, NEW t, NEW w, t \in Aware(op), w \notin Aware(op),
         Aware(op)' = (Aware(op) \ {t}) \cup {w}
  PROVE  Cardinality(Aware(op)') = Cardinality(Aware(op))
<1>1. /\ IsFiniteSet(Aware(op) \ {t})
      /\ Cardinality(Aware(op) \ {t}) = Cardinality(Aware(op)) - 1
  BY AwareFinite, FS_RemoveElement
<1>2. w \notin Aware(op) \ {t}
  OBVIOUS
<1>3. Cardinality(Aware(op)') = Cardinality(Aware(op) \ {t}) + 1
  BY <1>1, <1>2, FS_AddElement
<1>4. Cardinality(Aware(op)) \in Nat
  BY AwareFinite, FS_CardinalityType
<1> QED
  BY <1>1, <1>3, <1>4

LEMMA NoneLostStep ==
  ASSUME NEW op \in Ops, IInv, [Next]_vars, NoneLost(op),
         ~ \E t \in Threads : CopyFails(t) /\ call[t].op = op,
         ~ (op = "put" /\ Cap' > Cap)
  PROVE  NoneLost(op)'
<1> USE DEF IInv, TypeOK, MonitorTypeOK, CVs, Ops, Labels, GoTo, End
<1>1. Supply(op) \in Int /\ Supply(op)' \in Int
  <2>1. IInv'
    BY TypeNext, ConsistentNext
  <2> QED
    BY <2>1, SupplyType
<1>2. Cardinality(Aware(op)) \in Nat /\ Cardinality(Aware(op)') \in Nat
  BY AwareFinite, FS_CardinalityType
(* The claim survives when no supply is added and no aware thread is lost. *)
<1>3. ASSUME Supply(op)' <= Supply(op), Aware(op) \subseteq Aware(op)',
             waiters'[CvOf(op)] \subseteq waiters[CvOf(op)]
      PROVE  NoneLost(op)'
  <2>1. Cardinality(Aware(op)) <= Cardinality(Aware(op)')
    BY <1>3, AwareGrows
  <2> QED
    BY <1>1, <1>2, <1>3, <2>1 DEF NoneLost
<1>4. ASSUME Supply(op)' <= 0 PROVE NoneLost(op)'
  BY <1>1, <1>2, <1>4 DEF NoneLost
<1>5. ASSUME NEW t \in Threads, Invoke(t) \/ Acquire(t) \/ Resume(t) \/ Ready(t) \/ Return(t)
      PROVE  NoneLost(op)'
  <2>1. UNCHANGED <<items, maxSize, waiters>>
    BY <1>5 DEF Invoke, Acquire, Resume, Ready, Return, monitorVars
  <2>2. Supply(op)' = Supply(op)
    BY <2>1 DEF Supply, Cap
  <2>3. \A u \in Threads \ {t} : pc'[u] = pc[u] /\ call'[u] = call[u]
    BY <1>5 DEF Invoke, Acquire, Resume, Ready, Return
  <2>4. t \in Aware(op) => t \in Aware(op)'
    BY <1>5 DEF Invoke, Acquire, Resume, Ready, Return, monitorVars, Aware, Seeking, Notifying
  <2>5. Aware(op) \subseteq Aware(op)'
    BY <2>1, <2>3, <2>4 DEF Aware, Seeking, Notifying
  <2> QED
    BY <1>1, <1>3, <2>1, <2>2, <2>5
(* A thread leaves the search for op only when there is no supply.         *)
<1>6. ASSUME NEW t \in Threads, Wait(t) \/ WaitRefused(t) \/ GiveUp(t) PROVE NoneLost(op)'
  <2>1. /\ pc[t] = "test" /\ ~Predicate(call[t].op)
        /\ UNCHANGED <<items, maxSize, call>>
    BY <1>6 DEF Wait, WaitRefused, GiveUp
  <2>2. Supply(op)' = Supply(op)
    BY <2>1 DEF Supply, Cap
  <2>3. CASE call[t].op = op
    <3>1. Supply(op) <= 0
      BY <1>1, <2>1, <2>3, ToSizeTType DEF Predicate, HasItem, HasRoom, Supply, Cap
    <3> QED
      BY <1>4, <2>2, <3>1
  <2>4. CASE call[t].op # op
    <3>1. waiters'[CvOf(op)] = waiters[CvOf(op)]
      BY <1>6, <2>4 DEF Wait, WaitRefused, GiveUp, Block, monitorVars, CvOf
    <3>2. t \notin Aware(op)
      BY <2>1, <2>4 DEF Aware, Seeking, Notifying
    <3>3. \A u \in Threads \ {t} : pc'[u] = pc[u]
      BY <1>6 DEF Wait, WaitRefused, GiveUp
    <3>4. Aware(op) \subseteq Aware(op)'
      BY <2>1, <3>1, <3>2, <3>3 DEF Aware, Seeking, Notifying
    <3> QED
      BY <1>1, <1>3, <2>2, <3>1, <3>4
  <2> QED
    BY <2>3, <2>4
<1>7. ASSUME NEW t \in Threads, SpuriousWake(t) \/ Timeout(t) PROVE NoneLost(op)'
  <2>1. /\ UNCHANGED <<items, maxSize, pc, call>>
        /\ waiters' = [waiters EXCEPT ![CvOf(call[t].op)] = @ \ {t}]
    BY <1>7 DEF SpuriousWake, Timeout, Leave, queueVars
  <2>2. waiters'[CvOf(op)] \subseteq waiters[CvOf(op)]
    BY <2>1 DEF CvOf
  <2>3. Supply(op)' = Supply(op) /\ Aware(op) \subseteq Aware(op)'
    BY <2>1, <2>2 DEF Supply, Cap, Aware, Seeking, Notifying
  <2> QED
    BY <1>1, <1>3, <2>2, <2>3
(* Moving an item: the supply of one side rises with the thread that will  *)
(* announce it, that of the other side falls with the thread that used it. *)
<1>8. ASSUME NEW t \in Threads, Push(t) \/ Pop(t) PROVE NoneLost(op)'
  <2>1. /\ pc[t] = "act" /\ pc' = [pc EXCEPT ![t] = "notify"]
        /\ \A u \in Threads : call'[u].op = call[u].op
        /\ UNCHANGED <<waiters, maxSize>>
    <3>1. ASSUME NEW u \in Threads, NEW i PROVE [call EXCEPT ![t].item = i][u].op = call[u].op
      OBVIOUS
    <3> QED
      BY <1>8, <3>1 DEF Push, Pop, monitorVars
  <2>2. Cap \in Int /\ Cap' = Cap
    BY <2>1, ToSizeTType DEF Cap
  <2>3. Len(items') = IF call[t].op = "put" THEN Len(items) + 1 ELSE Len(items) - 1
    <3>1. CASE Push(t)
      <4>1. call[t].item \in Items
        BY <3>1 DEF Push, Consistent
      <4> QED
        BY <3>1, <4>1 DEF Push
    <3>2. CASE Pop(t)
      <4>1. items # <<>>
        BY <3>2 DEF Pop, Consistent
      <4> QED
        BY <3>2, <4>1 DEF Pop
    <3> QED
      BY <1>8, <3>1, <3>2
  <2>4. CASE call[t].op = op
    <3>1. Supply(op)' = Supply(op) - 1
      BY <2>2, <2>3, <2>4 DEF Supply
    <3>2. t \in Aware(op) /\ Aware(op)' = Aware(op) \ {t}
      BY <2>1, <2>4 DEF Aware, Seeking, Notifying, Other, CvOf
    <3>3. Cardinality(Aware(op)') = Cardinality(Aware(op)) - 1
      BY <3>2, AwareLoses
    <3> QED
      BY <1>1, <1>2, <2>1, <3>1, <3>3 DEF NoneLost
  <2>5. CASE call[t].op # op
    <3>1. Supply(op)' = Supply(op) + 1
      BY <2>2, <2>3, <2>5 DEF Supply
    <3>2. t \notin Aware(op) /\ Aware(op)' = Aware(op) \cup {t}
      BY <2>1, <2>5 DEF Aware, Seeking, Notifying, Other, CvOf
    <3>3. Cardinality(Aware(op)') = Cardinality(Aware(op)) + 1
      BY <3>2, AwareGains
    <3> QED
      BY <1>1, <1>2, <2>1, <3>1, <3>3 DEF NoneLost
  <2> QED
    BY <2>4, <2>5
(* notify_one replaces the thread that announced by the one it has woken.  *)
<1>9. ASSUME NEW t \in Threads, Notify(t) PROVE NoneLost(op)'
  <2>1. /\ pc[t] = "notify" /\ pc' = [pc EXCEPT ![t] = "unlock"]
        /\ NotifyOne(CvOf(Other(call[t].op)))
        /\ UNCHANGED <<items, maxSize, call>>
    BY <1>9 DEF Notify
  <2>2. Supply(op)' = Supply(op)
    BY <2>1 DEF Supply, Cap
  <2>3. CASE call[t].op = op
    <3>1. waiters'[CvOf(op)] = waiters[CvOf(op)]
      BY <2>1, <2>3 DEF NotifyOne, CvOf, Other
    <3>2. Aware(op) \subseteq Aware(op)'
      BY <2>1, <2>3, <3>1 DEF Aware, Seeking, Notifying, Other
    <3> QED
      BY <1>1, <1>3, <2>2, <3>1, <3>2
  <2>4. CASE call[t].op # op
    <3>1. Other(call[t].op) = op /\ call[t].op = Other(op)
      BY <2>4 DEF Other
    <3>2. CASE waiters[CvOf(op)] = {}
      BY <2>1, <3>1, <3>2 DEF NotifyOne, NoneLost
    <3>3. ASSUME NEW w \in waiters[CvOf(op)],
                 waiters' = [waiters EXCEPT ![CvOf(op)] = @ \ {w}]
          PROVE  NoneLost(op)'
      <4>1. w \in Threads /\ pc[w] = "wait" /\ call[w].op = op /\ w # t
        BY <2>1, <3>3 DEF Consistent, CvOf
      <4>2. waiters'[CvOf(op)] = waiters[CvOf(op)] \ {w}
        BY <3>3 DEF CvOf
      <4>3. t \in Aware(op) /\ w \notin Aware(op)
        BY <2>1, <3>1, <4>1, <3>3 DEF Aware, Seeking, Notifying
      <4>4. Aware(op)' = (Aware(op) \ {t}) \cup {w}
        BY <2>1, <3>1, <4>1, <4>2 DEF Aware, Seeking, Notifying
      <4>5. Cardinality(Aware(op)') = Cardinality(Aware(op))
        BY <4>3, <4>4, AwareSwaps
      <4> QED
        BY <1>1, <1>2, <2>2, <3>3, <4>2, <4>5 DEF NoneLost
    <3> QED
      BY <2>1, <3>1, <3>2, <3>3 DEF NotifyOne
  <2> QED
    BY <2>3, <2>4
<1>10. ASSUME NEW t \in Threads, NotifyExpired(t) PROVE NoneLost(op)'
  <2>1. /\ pc[t] = "expired" /\ pc' = [pc EXCEPT ![t] = "unlock"]
        /\ waiters' = [waiters EXCEPT ![CvOf(Other(call[t].op))] = {}]
        /\ UNCHANGED <<items, maxSize, call>>
    BY <1>10 DEF NotifyExpired, NotifyAll
  <2>2. waiters'[CvOf(op)] \subseteq waiters[CvOf(op)]
    BY <2>1 DEF CvOf
  <2>3. Supply(op)' = Supply(op) /\ Aware(op) \subseteq Aware(op)'
    BY <2>1, <2>2 DEF Supply, Cap, Aware, Seeking, Notifying
  <2> QED
    BY <1>1, <1>3, <2>2, <2>3
(* The copy that throws is one of the other operation.                     *)
<1>11. ASSUME NEW t \in Threads, CopyFails(t) PROVE NoneLost(op)'
  <2>1. call[t].op # op /\ pc[t] = "act" /\ pc' = [pc EXCEPT ![t] = "unlock"]
    BY <1>11 DEF CopyFails
  <2>2. UNCHANGED <<items, maxSize, call, waiters>>
    BY <1>11 DEF CopyFails, monitorVars
  <2>3. Supply(op)' = Supply(op) /\ Aware(op) \subseteq Aware(op)'
    BY <2>1, <2>2 DEF Supply, Cap, Aware, Seeking, Notifying
  <2> QED
    BY <1>1, <1>3, <2>2, <2>3
<1>12. ASSUME SetMaxSize PROVE NoneLost(op)'
  <2>1. UNCHANGED <<waiters, items, pc, call>>
    BY <1>12 DEF SetMaxSize, monitorVars
  <2>2. Cap \in Int /\ Cap' \in Int /\ Len(items) \in Int
    <3>1. TypeOK'
      BY <1>12, TypeNext DEF Next
    <3> QED
      BY <3>1, ToSizeTType DEF Cap
  <2>3. Supply(op)' <= Supply(op) /\ Aware(op)' = Aware(op)
    BY <2>1, <2>2 DEF Supply, Aware, Seeking, Notifying
  <2> QED
    BY <1>1, <1>3, <2>1, <2>3
<1>13. CASE UNCHANGED vars
  BY <1>13 DEF vars, monitorVars, queueVars, NoneLost, Supply, Cap, Aware, Seeking, Notifying
<1> QED
  BY <1>5, <1>6, <1>7, <1>8, <1>9, <1>10, <1>11, <1>12, <1>13 DEF Next, Step

(* Without failing copies, and for puts without new sizes, there is no     *)
(* exception.                                                              *)
LEMMA NoneLostNext ==
  ASSUME NEW op \in Ops, IInv, [Next]_vars, NoneLost(op),
         ~CopyThrows, op = "put" => Sizes = {}
  PROVE  NoneLost(op)'
<1>1. ~ \E t \in Threads : CopyFails(t) /\ call[t].op = op
  BY DEF CopyFails
<1>2. op = "put" => Cap' = Cap
  BY DEF Next, Step, Invoke, Acquire, Resume, Ready, Wait, WaitRefused, GiveUp, Push, Pop,
     CopyFails, Notify, NotifyExpired, Return, SpuriousWake, Timeout, SetMaxSize, vars, queueVars, Cap
<1>3. Cap \in Int
  BY ToSizeTType DEF IInv, TypeOK, Cap
<1> QED
  BY <1>1, <1>2, <1>3, NoneLostStep

LEMMA NoneLostInit == ASSUME NEW op \in Ops PROVE Init => NoneLost(op)
BY DEF Init, MonitorInit, NoneLost, CVs, Ops, CvOf

(* Whatever sizes are set and whichever copies throw: a wake-up is lost    *)
(* only in a step in which a copy throws for that operation, or, for puts, *)
(* the size is raised (sync_queue.hpp:129, 183 and 226); time-outs and     *)
(* refused deadlines lose none.                                            *)
THEOREM WakeupsLostOnlyByFailure == Spec => LostOnlyByFailure
<1>1. IInv /\ [Next]_vars =>
        [\A op \in Ops :
           NoneLost(op) /\ ~NoneLost(op)' =>
             \/ \E t \in Threads : CopyFails(t) /\ call[t].op = op
             \/ op = "put" /\ Cap' > Cap]_vars
  BY NoneLostStep
<1> QED
  BY <1>1, Invariance, PTL DEF Spec, LostOnlyByFailure

(* While a get is blocked, every item is announced or about to be, however *)
(* the calls interleave and whatever sizes are set (sync_queue.hpp:228 and *)
(* 249): it is only a copy that throws that can lose a get's wake-up.      *)
THEOREM ItemsAnnounced == ASSUME ~CopyThrows PROVE Spec => []NoLostItem
<1>1. Init => NoLostItem
  BY NoneLostInit DEF NoLostItem, Ops
<1>2. IInv /\ NoLostItem /\ [Next]_vars => NoLostItem'
  BY NoneLostNext DEF NoLostItem, Ops
<1> QED
  BY <1>1, <1>2, Invariance, PTL DEF Spec

(* While a put is blocked, every free place is announced or about to be    *)
(* (sync_queue.hpp:185 and 207), provided that the size never changes.     *)
THEOREM RoomAnnounced == ASSUME ~CopyThrows, Sizes = {} PROVE Spec => []NoLostRoom
<1>1. Init => NoLostRoom
  BY NoneLostInit DEF NoLostRoom, Ops
<1>2. IInv /\ NoLostRoom /\ [Next]_vars => NoLostRoom'
  BY NoneLostNext DEF NoLostRoom, Ops
<1> QED
  BY <1>1, <1>2, Invariance, PTL DEF Spec

(* It follows that gets and puts are never all blocked on one another.     *)
THEOREM StandoffFree == ASSUME ~CopyThrows, Sizes = {} PROVE Spec => []NoStandoff
<1>1. IInv /\ NoLostItem /\ NoLostRoom => NoStandoff
  <2> SUFFICES ASSUME IInv, NoLostItem, NoLostRoom,
                      Cap > 0, waiters["not_empty"] # {}, waiters["not_full"] # {},
                      \A t \in Threads :
                        \/ pc[t] \in {"idle", "lock", "unlock"}
                        \/ pc[t] = "wait" /\ t \in waiters[CvOf(call[t].op)]
               PROVE  FALSE
    BY DEF NoStandoff
  <2>1. Aware("get") = {} /\ Aware("put") = {}
    BY DEF Aware, Seeking, Notifying
  <2>2. Supply("get") <= 0 /\ Supply("put") <= 0
    BY <2>1, FS_EmptySet DEF NoLostItem, NoLostRoom, NoneLost, CvOf
  <2>3. Len(items) \in Int /\ Cap \in Int
    BY ToSizeTType DEF IInv, TypeOK, Cap
  <2> QED
    BY <2>2, <2>3 DEF Supply
<1> QED
  BY <1>1, Invariance, ItemsAnnounced, RoomAnnounced, PTL

-----------------------------------------------------------------------------
(* What a put knows about the queue once its predicate was true, as long   *)
(* as nobody changes the size: the mutex keeps the other puts out.         *)
RoomHeld == \A t \in Threads : pc[t] = "act" /\ call[t].op = "put" => Len(items) < Cap

LEMMA RoomHeldNext ==
  ASSUME IInv, RoomHeld, [Next]_vars, Sizes = {}
  PROVE  RoomHeld'
<1> USE DEF IInv, TypeOK, Labels, GoTo, End, Cap
<1>1. ASSUME NEW t \in Threads, pc'[t] = "act", call'[t].op = "put"
      PROVE  /\ pc[t] \in {"test", "act"} /\ call[t].op = "put"
             /\ pc[t] = "test" => Len(items) < Cap
  <2>1. CASE pc[t] = "act"
    <3>1. ASSUME NEW u \in Threads, NEW i PROVE [call EXCEPT ![u].item = i][t].op = call[t].op
      OBVIOUS
    <3> QED
      BY <1>1, <2>1, <3>1 DEF Next, Step, Invoke, Acquire, Resume, Ready, Wait, WaitRefused, GiveUp,
         Push, Pop, CopyFails, Notify, NotifyExpired, Return, SpuriousWake, Timeout,
         SetMaxSize, vars, queueVars
  <2>2. CASE pc[t] # "act"
    <3>1. Ready(t)
      BY <1>1, <2>2 DEF Next, Step, Invoke, Acquire, Resume, Ready, Wait, WaitRefused, GiveUp,
         Push, Pop, CopyFails, Notify, NotifyExpired, Return, SpuriousWake, Timeout,
         SetMaxSize, vars, queueVars
    <3> QED
      BY <1>1, <3>1 DEF Ready, Predicate, HasItem, HasRoom
  <2> QED
    BY <2>1, <2>2
<1>2. ASSUME NEW t \in Threads, pc'[t] = "act", call'[t].op = "put"
      PROVE  UNCHANGED <<items, maxSize>>
  <2>1. \A u \in Threads : u # t => pc[u] # "act"
    BY <1>1, <1>2, MonitorAssumption DEF Consistent, Inside
  <2>2. pc'[t] # "notify"
    BY <1>2
  <2> QED
    BY <2>1, <2>2 DEF Next, Step, Invoke, Acquire, Resume, Ready, Wait, WaitRefused, GiveUp,
       Push, Pop, CopyFails, Notify, NotifyExpired, Return, SpuriousWake, Timeout,
       SetMaxSize, vars, queueVars
<1> QED
  BY <1>1, <1>2 DEF RoomHeld

(* put never stores an item in a full queue (sync_queue.hpp:224-227),      *)
(* provided that the size never changes.                                   *)
THEOREM RoomRespected == ASSUME Sizes = {} PROVE Spec => PutRespectsMaxSize
<1>1. Init => RoomHeld
  BY DEF Init, RoomHeld
<1>2. IInv /\ RoomHeld /\ [Next]_vars => RoomHeld'
  BY RoomHeldNext
<1>3. IInv /\ RoomHeld /\ [Next]_vars => [Len(items') > Len(items) => Len(items) < Cap]_vars
  <2> SUFFICES ASSUME IInv, RoomHeld, Next, Len(items') > Len(items)
               PROVE  Len(items) < Cap
    OBVIOUS
  <2>1. ASSUME NEW t \in Threads, Pop(t) PROVE FALSE
    <3>1. items # <<>>
      BY <2>1 DEF Pop, IInv, Consistent
    <3>2. Len(Tail(items)) = Len(items) - 1 /\ Len(items) \in Int
      BY <3>1 DEF IInv, TypeOK
    <3> QED
      BY <2>1, <3>2 DEF Pop
  <2>2. items' # items
    BY DEF IInv, TypeOK
  <2>3. PICK t \in Threads : Push(t)
    BY <2>1, <2>2 DEF Next, Step, Invoke, Acquire, Resume, Ready, Wait, WaitRefused, GiveUp,
       CopyFails, Notify, NotifyExpired, Return, SpuriousWake, Timeout, SetMaxSize, queueVars, End
  <2> QED
    BY <2>3 DEF RoomHeld, Push
<1> QED
  BY <1>1, <1>2, <1>3, Invariance, PTL DEF Spec, PutRespectsMaxSize

=============================================================================
