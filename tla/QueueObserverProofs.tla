-------------------------- MODULE QueueObserverProofs --------------------------
(***************************************************************************)
(* Polling works: theorems about QueueObserver, for any number of threads. *)
(***************************************************************************)
EXTENDS QueueObserver, SyncQueueProofs

(* Only the poller is in the operation it polls for, with a promise that   *)
(* is kept, so that it finds its predicate true whenever it tests it.      *)
PollerAlone == \A t \in Threads : pc[t] # "idle" => (call[t].op = polled <=> t = Poller)

ObserverIInv ==
  /\ ObserverTypeOK
  /\ counted # Unread => polled = "put" /\ ~promised
  /\ polled # "none" =>
       /\ PollerAlone
       /\ pc[Poller] # "idle" => promised
       /\ PromiseKept /\ PollNeverBlocks /\ pc[Poller] # "expired"

LEMMA ObserverInit_Inv == ObserverInit => ObserverIInv
BY ObserverAssumption
   DEF ObserverInit, Init, ObserverIInv, ObserverTypeOK, PollerAlone, PromiseKept, PollNeverBlocks

LEMMA ObserverNext_Next == [ObserverNext]_observedVars => [Next]_vars
BY DEF ObserverNext, ObservedInvoke, ObservedReturn, Working, AskEmpty, AskSize, AskMaxSize,
       observedVars, Next, Step

(* What the other steps of put and get do to an observed queue.            *)
LEMMA WorkingKeeps ==
  ASSUME IInv, ObserverIInv, NEW t \in Threads, Working(t), UNCHANGED observerVars
  PROVE  ObserverIInv'
<1> USE ObserverAssumption
    DEF IInv, TypeOK, MonitorTypeOK, Labels, Results, ObserverIInv, ObserverTypeOK, observerVars,
        GoTo, End, Ops
<1>1. pc[t] # "idle"
  BY DEF Working, Acquire, Resume, Ready, Wait, WaitRefused, GiveUp, Push, Pop, CopyFails,
         Notify, NotifyExpired, SpuriousWake, Timeout
<1>2. /\ pc'[t] # "idle"
      /\ \A u \in Threads : u # t => pc'[u] = pc[u] /\ result'[u] = result[u]
      /\ \A u \in Threads : call'[u].op = call[u].op
      /\ maxSize' = maxSize
  BY DEF Working, Acquire, Resume, Ready, Wait, WaitRefused, GiveUp, Push, Pop, CopyFails,
         Notify, NotifyExpired, SpuriousWake, Timeout, monitorVars, queueVars
<1>3. ObserverTypeOK' /\ (counted # Unread => polled = "put" /\ ~promised)'
  OBVIOUS
<1>4. ASSUME polled # "none" PROVE PollerAlone'
  BY <1>1, <1>2, <1>4 DEF PollerAlone
<1>5. ASSUME polled # "none" PROVE pc'[Poller] # "idle" => promised'
  BY <1>1, <1>2, <1>5
<1>6. ASSUME polled # "none", t = Poller PROVE (PromiseKept /\ PollNeverBlocks)' /\ pc'[Poller] # "expired"
  <2>1. promised /\ call[t].op = polled /\ counted = Unread
    BY <1>1, <1>6 DEF PollerAlone
  <2>2. pc[t] \notin {"notify", "unlock"} => Predicate(call[t].op)
    BY <1>6, <2>1 DEF PromiseKept
  <2>3. pc[t] \notin {"wait", "expired"}
        /\ result[t] \notin {"queue_full", "queue_timeout", "cv_exception"}
    BY <1>6 DEF PollNeverBlocks
  <2>4. \/ Acquire(t) \/ Ready(t) \/ Push(t) \/ Pop(t) \/ CopyFails(t) \/ Notify(t)
    BY <2>2, <2>3 DEF Working, Resume, Wait, WaitRefused, GiveUp, NotifyExpired, SpuriousWake, Timeout
  <2>5. CASE Acquire(t) \/ Ready(t)
    BY <1>6, <2>1, <2>2, <2>3, <2>5
       DEF Acquire, Ready, PromiseKept, PollNeverBlocks, Predicate, HasItem, HasRoom, Cap, monitorVars
  <2>6. CASE Push(t) \/ Pop(t) \/ CopyFails(t) \/ Notify(t)
    BY <1>6, <2>1, <2>3, <2>6
       DEF Push, Pop, CopyFails, Notify, PromiseKept, PollNeverBlocks, monitorVars
  <2> QED
    BY <2>4, <2>5, <2>6
<1>7. ASSUME polled # "none", t # Poller PROVE (PromiseKept /\ PollNeverBlocks)' /\ pc'[Poller] # "expired"
  <2>1. call[t].op # polled
    BY <1>1, <1>7 DEF PollerAlone
  <2>2. \/ UNCHANGED items
        \/ polled = "get" /\ \E x \in Items : items' = Append(items, x)
        \/ polled = "put" /\ items # <<>> /\ items' = Tail(items)
    <3>1. CASE Push(t)
      BY <1>7, <2>1, <3>1 DEF Push, Consistent
    <3>2. CASE Pop(t)
      BY <1>7, <2>1, <3>2 DEF Pop, Consistent
    <3>3. CASE ~Push(t) /\ ~Pop(t)
      BY <3>3 DEF Working, Acquire, Resume, Ready, Wait, WaitRefused, GiveUp, CopyFails,
                  Notify, NotifyExpired, SpuriousWake, Timeout, queueVars
    <3> QED
      BY <3>1, <3>2, <3>3
  <2>3. PollNeverBlocks' /\ pc'[Poller] # "expired"
    BY <1>2, <1>7 DEF PollNeverBlocks
  <2>4. Cap' = Cap /\ Cap \in Nat
    BY <1>2, ToSizeTType DEF Cap
  <2>5. PromiseKept'
    <3>1. CASE UNCHANGED items
      BY <1>2, <1>7, <2>4, <3>1 DEF PromiseKept, Predicate, HasItem, HasRoom
    <3>2. CASE polled = "get" /\ \E x \in Items : items' = Append(items, x)
      BY <1>2, <1>7, <3>2 DEF PromiseKept, Predicate, HasItem, HasRoom
    <3>3. CASE polled = "put" /\ items # <<>> /\ items' = Tail(items)
      <4>1. Len(items') = Len(items) - 1 /\ Len(items) \in Nat
        BY <3>3
      <4> QED
        BY <1>2, <1>7, <2>4, <3>3, <4>1 DEF PromiseKept, Predicate, HasItem, HasRoom
    <3> QED
      BY <2>2, <3>1, <3>2, <3>3
  <2> QED
    BY <2>3, <2>5
<1> QED
  BY <1>3, <1>4, <1>5, <1>6, <1>7

LEMMA ObserverNext_Inv == IInv /\ ObserverIInv /\ [ObserverNext]_observedVars => ObserverIInv'
<1> SUFFICES ASSUME IInv, ObserverIInv, [ObserverNext]_observedVars PROVE ObserverIInv'
  OBVIOUS
<1> USE ObserverAssumption
    DEF IInv, TypeOK, MonitorTypeOK, Labels, Results, ObserverIInv, ObserverTypeOK, GoTo, Ops
<1>1. ASSUME NEW t \in Threads, ObservedInvoke(t) PROVE ObserverIInv'
  <2>1. /\ pc[t] = "idle" /\ pc' = [pc EXCEPT ![t] = "lock"]
        /\ \A u \in Threads : u # t => call'[u] = call[u]
        /\ MayCall(t, call'[t].op)
        /\ UNCHANGED <<items, maxSize, result, polled, counted, promised>>
    BY <1>1 DEF ObservedInvoke, Invoke, observerVars
  <2>2. call'[t].op \in Ops
    BY <1>1 DEF ObservedInvoke, Invoke, Calls
  <2>3. ASSUME polled # "none" PROVE PollerAlone'
    BY <2>1, <2>2, <2>3 DEF PollerAlone, MayCall
  <2>4. ASSUME polled # "none" PROVE pc'[Poller] # "idle" => promised'
    BY <2>1, <2>4 DEF MayCall
  <2>5. ASSUME polled # "none"
        PROVE  (PromiseKept /\ PollNeverBlocks)' /\ pc'[Poller] # "expired"
    BY <2>1, <2>5 DEF PromiseKept, PollNeverBlocks, Predicate, HasItem, HasRoom, Cap
  <2> QED
    BY <2>1, <2>3, <2>4, <2>5
<1>2. ASSUME NEW t \in Threads, ObservedReturn(t) PROVE ObserverIInv'
  <2>1. /\ pc[t] = "unlock" /\ pc' = [pc EXCEPT ![t] = "idle"]
        /\ \A u \in Threads : u # t => call'[u] = call[u]
        /\ \A u \in Threads : result'[u] = result[u] \/ result'[u] = "none"
        /\ promised' = (promised /\ t # Poller)
        /\ UNCHANGED <<items, maxSize, polled, counted>>
    BY <1>2 DEF ObservedReturn, Return
  <2>2. ASSUME polled # "none" PROVE PollerAlone'
    BY <2>1, <2>2 DEF PollerAlone
  <2>3. ASSUME polled # "none"
        PROVE  (PromiseKept /\ PollNeverBlocks)' /\ pc'[Poller] # "expired"
    BY <2>1, <2>3 DEF PromiseKept, PollNeverBlocks, Predicate, HasItem, HasRoom, Cap
  <2> QED
    BY <2>1, <2>2, <2>3
<1>3. ASSUME NEW t \in Threads, Working(t), UNCHANGED observerVars PROVE ObserverIInv'
  BY <1>3, WorkingKeeps
<1>4. CASE AskEmpty
  BY <1>4 DEF AskEmpty, Polling, Empty, vars, monitorVars, queueVars,
              PollerAlone, PromiseKept, PollNeverBlocks, Predicate, HasItem, HasRoom
<1>5. CASE AskSize
  BY <1>5 DEF AskSize, Polling, vars, monitorVars, queueVars,
              PollerAlone, PromiseKept, PollNeverBlocks, Predicate, HasItem, HasRoom
<1>6. CASE AskMaxSize
  <2>1. Cap \in Nat /\ Len(items) \in Nat
    BY ToSizeTType DEF Cap
  <2>2. UNCHANGED <<items, maxSize, pc, call, result, polled>> /\ Cap' = Cap
    BY <1>6 DEF AskMaxSize, vars, monitorVars, queueVars, Cap
  <2>3. polled = "put" /\ pc[Poller] = "idle" /\ counted \in Nat
        /\ promised' = (counted < Cap) /\ counted' = Unread
    BY <1>6 DEF AskMaxSize, Polling
  <2>4. PromiseKept'
    BY <2>1, <2>2, <2>3 DEF PromiseKept, Predicate, HasItem, HasRoom
  <2> QED
    BY <2>2, <2>3, <2>4 DEF PollerAlone, PollNeverBlocks
<1>7. CASE UNCHANGED observedVars
  BY <1>7 DEF observedVars, observerVars, vars, monitorVars, queueVars,
              PollerAlone, PromiseKept, PollNeverBlocks, Predicate, HasItem, HasRoom, Cap
<1> QED
  BY <1>1, <1>2, <1>3, <1>4, <1>5, <1>6, <1>7 DEF ObserverNext

(* An answer of empty(), or of size() and max_size(), stays true until the *)
(* only thread that could falsify it acts on it: an item, or room.         *)
THEOREM PromisesKept == ObserverSpec => []PromiseKept
<1>1. IInv /\ ObserverIInv => PromiseKept
  BY DEF ObserverIInv, PromiseKept
<1>2. Init => IInv
  BY TypeInit, ConsistentInit DEF IInv
<1>3. IInv /\ [Next]_vars => IInv'
  BY TypeNext, ConsistentNext DEF IInv
<1>4. ObserverInit => Init
  BY DEF ObserverInit
<1> QED
  BY <1>1, <1>2, <1>3, <1>4, ObserverInit_Inv, ObserverNext_Inv, ObserverNext_Next, PTL DEF ObserverSpec

(* A get after a negative empty(), and a put after a size() below          *)
(* max_size(), never wait and never give up.                               *)
THEOREM PollsNeverBlock == ObserverSpec => []PollNeverBlocks
<1>1. IInv /\ ObserverIInv => PollNeverBlocks
  BY DEF ObserverIInv, PollNeverBlocks
<1>2. Init => IInv
  BY TypeInit, ConsistentInit DEF IInv
<1>3. IInv /\ [Next]_vars => IInv'
  BY TypeNext, ConsistentNext DEF IInv
<1>4. ObserverInit => Init
  BY DEF ObserverInit
<1> QED
  BY <1>1, <1>2, <1>3, <1>4, ObserverInit_Inv, ObserverNext_Inv, ObserverNext_Next, PTL DEF ObserverSpec

=============================================================================
