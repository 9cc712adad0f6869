------------------------ MODULE ProducerConsumerProofs ------------------------
(***************************************************************************)
(* Theorems about ProducerConsumer, for any number of consumers and of     *)
(* messages, and any size of the queue.                                    *)
(***************************************************************************)
EXTENDS ProducerConsumer, SyncQueueProofs

(* How the control state of run() and of the call of the queue agree.      *)
Shape ==
  /\ \A t \in Threads : at[t] = "call" <=> pc[t] # "idle"
  /\ at[Producer] \in {"loop", "call", "ended"}
  /\ at[Producer] = "ended" <=> left = 0
  /\ \A t \in Threads : pc[t] # "idle" =>
       call[t].op = (IF t = Producer THEN "put" ELSE "get") /\ call[t].timed = (t # Producer)
  /\ at[Producer] = "call" => call[Producer].item = (IF left = 1 THEN Stop ELSE Message)

Outcomes ==
  /\ \A t \in Threads : result[t] = "ok" => pc[t] \in {"notify", "unlock"}
  /\ \A t \in Threads : pc[t] = "notify" => result[t] = "ok"
  /\ \A t \in Threads : pc[t] \in {"expired", "unlock"} => result[t] # "none"
  /\ result[Producer] \in {"none", "ok"}

(* The consumers that have received the stop message.                      *)
HoldsStop(c) == \/ result[c] = "ok" /\ call[c].item = Stop
                \/ at[c] \in {"count", "handle"} /\ message[c] = Stop

(* The stop message is the last item ever put; once it has been taken the  *)
(* queue is empty for good.                                                *)
StopIsLast ==
  /\ \A k \in 1 .. Len(items) : items[k] = Stop => k = Len(items) /\ SentAll
  /\ (~running \/ \E c \in Consumers : HoldsStop(c)) => items = <<>> /\ SentAll
  /\ \A c \in Consumers : at[c] = "ended" => ~running

ProgramIInv == IInv /\ ProgramTypeOK /\ Shape /\ Outcomes /\ StopIsLast /\ Conserved

-----------------------------------------------------------------------------
LEMMA ProgramInit_Inv == ProgramInit => ProgramIInv
<1> SUFFICES ASSUME ProgramInit PROVE ProgramIInv
  OBVIOUS
<1> USE ProgramAssumption DEF ProgramInit, Consumers
<1>1. IInv
  BY TypeInit, ConsistentInit DEF IInv
<1>2. /\ result = [t \in Threads |-> "none"] /\ pc = [t \in Threads |-> "idle"] /\ items = <<>>
  BY DEF Init
<1>3. ProgramTypeOK
  BY <1>1 DEF ProgramTypeOK, IInv
<1>4. Shape /\ Outcomes
  BY <1>2 DEF Shape, Outcomes
<1>5. StopIsLast
  BY <1>2 DEF StopIsLast, HoldsStop
<1>6. Conserved
  <2>1. Uncounted = {}
    BY <1>2 DEF Uncounted
  <2>2. Cardinality(Uncounted) = 0
    BY <2>1, FS_EmptySet
  <2> QED
    BY <1>2, <2>2 DEF Conserved, Stored
<1> QED
  BY <1>1, <1>3, <1>4, <1>5, <1>6 DEF ProgramIInv

LEMMA ProgramNext_Next == [ProgramNext]_allVars => [Next]_vars
BY DEF ProgramNext, Body, Produce, Produced, Consume, Finish, Received, TimedOut, Count, Handle,
       InnerStep, Inner, Wake, Over, allVars, vars, Next, Step

LEMMA UncountedFinite == IsFiniteSet(Uncounted)
BY MonitorAssumption, FS_Subset DEF Uncounted, Consumers

LEMMA StoredType == Stored \in 0 .. 1 /\ Cardinality(Uncounted) \in Nat
BY UncountedFinite, FS_CardinalityType DEF Stored

(* The program takes a step outside the calls, or a thread begins or ends  *)
(* one; nothing has happened to the items.                                 *)
LEMMA SameCounts ==
  ASSUME Conserved, Stored' = Stored, Uncounted' = Uncounted, UNCHANGED <<items, left, counter>>
  PROVE  Conserved'
BY DEF Conserved

(* An item moves from the producer to the queue, or from the queue to a    *)
(* consumer: the sum only asks that what one gives the other receives.     *)
LEMMA ItemMoves ==
  ASSUME NEW l \in Int, NEW c \in Int,
         NEW s \in Int, NEW n \in Int, NEW u \in Int,
         NEW s2 \in Int, NEW n2 \in Int, NEW u2 \in Int, n2 + u2 - s2 = n + u - s
  PROVE  l - s2 + n2 + u2 + c = l - s + n + u + c
OBVIOUS

-----------------------------------------------------------------------------
(* What a step inside put or get does: the producer stores its item, a     *)
(* consumer receives the oldest item, or neither.                          *)
LEMMA InnerEffect ==
  ASSUME ProgramIInv, NEW t \in Threads, Inner(t) \/ SpuriousWake(t) \/ Timeout(t)
  PROVE  /\ pc[t] # "idle" /\ pc'[t] # "idle"
         /\ \A u \in Threads \ {t} : pc'[u] = pc[u] /\ result'[u] = result[u] /\ call'[u] = call[u]
         /\ call'[t].op = call[t].op /\ call'[t].timed = call[t].timed
         /\ \/ /\ t = Producer /\ result[t] # "ok" /\ result'[t] = "ok"
               /\ items' = Append(items, call[t].item) /\ call' = call
            \/ /\ t # Producer /\ result[t] # "ok" /\ result'[t] = "ok"
               /\ items # <<>> /\ items' = Tail(items) /\ call'[t].item = Head(items)
            \/ items' = items /\ call' = call /\ (result'[t] = "ok" <=> result[t] = "ok")
         /\ Outcomes'
<1> USE DEF ProgramIInv, IInv, TypeOK, Labels, Results, GoTo, End
<1>1. CASE Acquire(t) \/ Resume(t) \/ Ready(t) \/ Wait(t) \/ SpuriousWake(t) \/ Timeout(t)
  BY <1>1 DEF Acquire, Resume, Ready, Wait, SpuriousWake, Timeout, monitorVars, queueVars, Outcomes
<1>2. CASE GiveUp(t)
  <2>1. t # Producer
    BY <1>2 DEF GiveUp, Consistent, Shape
  <2> QED
    BY <1>2, <2>1 DEF GiveUp, monitorVars, Outcomes
<1>3. CASE Push(t)
  <2>1. t = Producer
    BY <1>3 DEF Push, Shape
  <2> QED
    BY <1>3, <2>1 DEF Push, monitorVars, Outcomes
<1>4. CASE Pop(t)
  <2>1. t # Producer /\ items # <<>>
    BY <1>4 DEF Pop, Shape, Consistent
  <2> QED
    BY <1>4, <2>1 DEF Pop, monitorVars, Outcomes
<1>5. CASE Notify(t) \/ NotifyExpired(t)
  BY <1>5 DEF Notify, NotifyExpired, Outcomes
<1> QED
  BY <1>1, <1>2, <1>3, <1>4, <1>5 DEF Inner

LEMMA InnerKeeps ==
  ASSUME ProgramIInv, IInv', NEW t \in Threads, Inner(t) \/ SpuriousWake(t) \/ Timeout(t),
         UNCHANGED programVars
  PROVE  ProgramIInv'
<1> USE ProgramAssumption DEF programVars, Consumers
<1>1. ProgramTypeOK'
  BY DEF ProgramIInv, ProgramTypeOK, IInv
<1>2. Shape' /\ Outcomes'
  <2>1. t = Producer => call'[t] = call[t]
    BY InnerEffect
  <2> QED
    BY <2>1, InnerEffect DEF ProgramIInv, Shape
<1>t. /\ items \in Seq(Items) /\ Len(items) \in Nat /\ left \in Nat /\ counter \in Nat /\ Messages \in Nat
      /\ pc[t] # "idle" /\ at[t] = "call"
  BY InnerEffect DEF ProgramIInv, ProgramTypeOK, TypeOK, Shape
<1>3. CASE /\ t = Producer /\ result[t] # "ok" /\ result'[t] = "ok"
           /\ items' = Append(items, call[t].item) /\ call' = call
  <2>1. Stored = 0 /\ Stored' = 1 /\ Uncounted' = Uncounted
    BY <1>3, InnerEffect DEF Stored, Uncounted
  <2>2. Len(items') = Len(items) + 1
        /\ \A k \in 1 .. Len(items') : items'[k] = IF k <= Len(items) THEN items[k] ELSE call[t].item
    BY <1>3, <1>t
  <2>3. Conserved'
    <3>1. Cardinality(Uncounted') = Cardinality(Uncounted) /\ Cardinality(Uncounted) \in Int
      BY <2>1, StoredType
    <3>2. left - 1 + Len(items') + Cardinality(Uncounted') + counter
            = left - 0 + Len(items) + Cardinality(Uncounted) + counter
      BY <1>t, <2>2, <3>1, ItemMoves
    <3>3. Conserved /\ left' = left /\ counter' = counter
      BY DEF ProgramIInv
    <3> QED
      BY <2>1, <3>2, <3>3 DEF Conserved
  <2>4. left # 0 /\ ~SentAll
    BY <1>3, <1>t, <2>1 DEF ProgramIInv, Shape, SentAll
  <2>5. running /\ \A c \in Consumers : ~HoldsStop(c)
    BY <2>4 DEF ProgramIInv, StopIsLast
  <2>6. \A c \in Consumers : ~HoldsStop(c)'
    BY <1>3, <2>5, InnerEffect DEF HoldsStop
  <2>7. call[t].item = Stop => SentAll'
    BY <1>3, <1>t, <2>1 DEF ProgramIInv, Shape, SentAll, Stop, Message
  <2>8. \A k \in 1 .. Len(items) : items[k] # Stop
    BY <2>4 DEF ProgramIInv, StopIsLast
  <2>9. StopIsLast'
    <3>1. \A k \in 1 .. Len(items') : items'[k] = Stop => k = Len(items') /\ call[t].item = Stop
      BY <1>t, <2>2, <2>8
    <3> QED
      BY <2>5, <2>6, <2>7, <3>1 DEF ProgramIInv, StopIsLast
  <2> QED
    BY <1>1, <1>2, <2>3, <2>9 DEF ProgramIInv
<1>4. CASE /\ t # Producer /\ result[t] # "ok" /\ result'[t] = "ok"
           /\ items # <<>> /\ items' = Tail(items) /\ call'[t].item = Head(items)
  <2>1. Stored' = Stored /\ Uncounted' = Uncounted \cup {t} /\ t \notin Uncounted
    BY <1>4, <1>t, InnerEffect DEF Stored, Uncounted
  <2>2. Cardinality(Uncounted') = Cardinality(Uncounted) + 1
    BY <2>1, UncountedFinite, FS_AddElement
  <2>3. Len(items') = Len(items) - 1 /\ Head(items) = items[1]
        /\ \A k \in 1 .. Len(items') : items'[k] = items[k + 1]
    BY <1>4, <1>t
  <2>4. Conserved'
    <3>1. Conserved /\ left' = left /\ counter' = counter
      BY DEF ProgramIInv
    <3>2. Stored \in Int /\ Cardinality(Uncounted) \in Int /\ Len(items) \in Int
      BY <1>t, StoredType
    <3>3. left - Stored + Len(items') + Cardinality(Uncounted') + counter
            = left - Stored + Len(items) + Cardinality(Uncounted) + counter
      BY <1>t, <2>2, <2>3, <3>2, ItemMoves
    <3> QED
      BY <2>1, <3>1, <3>3 DEF Conserved
  <2>5. running /\ \A c \in Consumers : ~HoldsStop(c)
    BY <1>4 DEF ProgramIInv, StopIsLast
  <2>6. ASSUME NEW c \in Consumers, HoldsStop(c)' PROVE c = t /\ items[1] = Stop
    <3>1. c = t
      BY <2>5, <2>6, InnerEffect DEF HoldsStop
    <3>2. call'[t].item = Stop
      BY <1>t, <2>6, <3>1 DEF HoldsStop
    <3> QED
      BY <1>4, <2>3, <3>1, <3>2
  <2>7. SentAll' = SentAll
    BY <2>1 DEF SentAll
  <2>8. Len(items) # 0
    BY <1>4, <1>t
  <2>9. items[1] = Stop => 1 = Len(items) /\ SentAll
    <3>1. 1 \in 1 .. Len(items)
      BY <1>t, <2>8
    <3> QED
      BY <3>1 DEF ProgramIInv, StopIsLast
  <2>10. Len(items) = 1 => items' = <<>>
    BY <1>4, <1>t
  <2>11. \A k \in 1 .. Len(items') : items'[k] = Stop => k = Len(items') /\ SentAll
    <3> SUFFICES ASSUME NEW k \in 1 .. Len(items'), items'[k] = Stop
                 PROVE  k = Len(items') /\ SentAll
      OBVIOUS
    <3>1. k + 1 \in 1 .. Len(items) /\ items[k + 1] = Stop
      BY <1>t, <2>3
    <3>2. k + 1 = Len(items) /\ SentAll
      BY <3>1 DEF ProgramIInv, StopIsLast
    <3> QED
      BY <1>t, <2>3, <3>2
  <2>12. StopIsLast'
    BY <2>5, <2>6, <2>7, <2>9, <2>10, <2>11 DEF ProgramIInv, StopIsLast
  <2> QED
    BY <1>1, <1>2, <2>4, <2>12 DEF ProgramIInv
<1>5. CASE items' = items /\ call' = call /\ (result'[t] = "ok" <=> result[t] = "ok")
  <2>1. \A u \in Threads : result'[u] = "ok" <=> result[u] = "ok"
    BY <1>5, InnerEffect
  <2>2. Stored' = Stored /\ Uncounted' = Uncounted
    BY <2>1 DEF Stored, Uncounted
  <2>3. \A c \in Consumers : HoldsStop(c)' <=> HoldsStop(c)
    BY <1>5, <2>1 DEF HoldsStop
  <2>4. Conserved'
    BY <1>5, <2>2, SameCounts DEF ProgramIInv
  <2>5. StopIsLast'
    BY <1>5, <2>2, <2>3 DEF ProgramIInv, StopIsLast, SentAll
  <2> QED
    BY <1>1, <1>2, <2>4, <2>5 DEF ProgramIInv
<1> QED
  BY <1>3, <1>4, <1>5, InnerEffect

-----------------------------------------------------------------------------
(* The steps of the producer's run() outside put.                          *)
LEMMA ProduceKeeps == ASSUME ProgramIInv, IInv', Produce PROVE ProgramIInv'
<1> USE ProgramAssumption DEF Consumers, Move
<1>1. /\ pc[Producer] = "idle" /\ result' = result /\ items' = items
      /\ pc' = [pc EXCEPT ![Producer] = "lock"] /\ at' = [at EXCEPT ![Producer] = "call"]
      /\ \A u \in Threads \ {Producer} : call'[u] = call[u]
      /\ call'[Producer] = [op |-> "put", timed |-> FALSE, item |-> NextItem]
      /\ UNCHANGED <<left, message, running, counter>> /\ at[Producer] = "loop"
  BY DEF ProgramIInv, IInv, TypeOK, Produce, Invoke, GoTo, CallOf
<1>2. result[Producer] # "ok" /\ left \in Nat /\ left # 0
  BY <1>1 DEF ProgramIInv, Outcomes, Shape, ProgramTypeOK
<1>3. running
  BY <1>2 DEF ProgramIInv, StopIsLast, SentAll, Stored
<1>4. ProgramTypeOK'
  BY <1>1 DEF ProgramIInv, ProgramTypeOK, IInv
<1>5. NextItem = IF left = 1 THEN Stop ELSE Message
  BY <1>2, <1>3 DEF NextItem
<1>6. Shape'
  BY <1>1, <1>5 DEF ProgramIInv, Shape, ProgramTypeOK, IInv, TypeOK
<1>7. Outcomes'
  BY <1>1, <1>2 DEF ProgramIInv, Outcomes, IInv, TypeOK
<1>8. Stored' = Stored /\ Uncounted' = Uncounted
  BY <1>1 DEF ProgramIInv, ProgramTypeOK, Stored, Uncounted
<1>9. \A c \in Consumers : HoldsStop(c)' <=> HoldsStop(c)
  BY <1>1 DEF ProgramIInv, ProgramTypeOK, HoldsStop
<1>10. StopIsLast'
  BY <1>1, <1>8, <1>9 DEF ProgramIInv, ProgramTypeOK, StopIsLast, SentAll
<1> QED
  BY <1>1, <1>4, <1>6, <1>7, <1>8, <1>10, SameCounts DEF ProgramIInv

LEMMA ProducedKeeps == ASSUME ProgramIInv, IInv', Produced PROVE ProgramIInv'
<1> USE ProgramAssumption DEF Consumers, Move
<1>1. /\ pc[Producer] = "unlock" /\ items' = items /\ at[Producer] = "call"
      /\ pc' = [pc EXCEPT ![Producer] = "idle"]
      /\ result' = [result EXCEPT ![Producer] = "none"]
      /\ \A u \in Threads \ {Producer} : call'[u] = call[u]
      /\ left' = (IF call[Producer].item = Stop THEN 0 ELSE left - 1)
      /\ at' = [at EXCEPT ![Producer] = IF call[Producer].item = Stop THEN "ended" ELSE "loop"]
      /\ UNCHANGED <<message, running, counter>>
  BY DEF ProgramIInv, IInv, TypeOK, Produced, Return, GoTo
<1>2. result[Producer] = "ok"
  BY <1>1 DEF ProgramIInv, Outcomes
<1>3. left \in 1 .. Messages + 1 /\ (call[Producer].item = Stop <=> left = 1)
  BY <1>1 DEF ProgramIInv, Shape, ProgramTypeOK, Stop, Message
<1>4. left' = left - 1 /\ (left' = 0 <=> call[Producer].item = Stop)
  BY <1>1, <1>3
<1>5. ProgramTypeOK'
  BY <1>1, <1>3, <1>4 DEF ProgramIInv, ProgramTypeOK, IInv
<1>6. Shape'
  BY <1>1, <1>4 DEF ProgramIInv, Shape, ProgramTypeOK, IInv, TypeOK
<1>7. Outcomes'
  BY <1>1 DEF ProgramIInv, Outcomes, IInv, TypeOK
<1>8. Stored = 1 /\ Stored' = 0 /\ Uncounted' = Uncounted
  BY <1>1, <1>2 DEF ProgramIInv, ProgramTypeOK, IInv, TypeOK, Stored, Uncounted
<1>9. \A c \in Consumers : HoldsStop(c)' <=> HoldsStop(c)
  BY <1>1 DEF ProgramIInv, ProgramTypeOK, IInv, TypeOK, HoldsStop
<1>10. SentAll' <=> SentAll
  BY <1>3, <1>4, <1>8 DEF SentAll
<1>11. StopIsLast'
  BY <1>1, <1>9, <1>10 DEF ProgramIInv, ProgramTypeOK, StopIsLast
<1>12. left' - Stored' = left - Stored
  BY <1>3, <1>4, <1>8
<1>13. Conserved'
  BY <1>1, <1>8, <1>12 DEF ProgramIInv, Conserved
<1> QED
  BY <1>5, <1>6, <1>7, <1>11, <1>13 DEF ProgramIInv

(* The steps of a consumer's run() outside get: those that change nothing  *)
(* an item depends on, and the two that pass a message on.                 *)
LEMMA ConsumeKeeps ==
  ASSUME ProgramIInv, IInv', NEW c \in Consumers, Consume(c) PROVE ProgramIInv'
<1> USE ProgramAssumption DEF Consumers, Move
<1>1. /\ pc[c] = "idle" /\ result' = result /\ items' = items /\ at[c] = "loop" /\ running
      /\ pc' = [pc EXCEPT ![c] = "lock"] /\ at' = [at EXCEPT ![c] = "call"]
      /\ \A u \in Threads \ {c} : call'[u] = call[u]
      /\ call'[c] = [op |-> "get", timed |-> TRUE, item |-> NoItem]
      /\ UNCHANGED <<left, message, running, counter>>
  BY DEF ProgramIInv, IInv, TypeOK, Consume, Invoke, GoTo, CallOf
<1>2. result[c] # "ok"
  BY <1>1 DEF ProgramIInv, Outcomes
<1>3. ProgramTypeOK' /\ Shape'
  BY <1>1 DEF ProgramIInv, ProgramTypeOK, Shape, IInv, TypeOK
<1>4. Outcomes'
  BY <1>1, <1>2 DEF ProgramIInv, Outcomes, IInv, TypeOK
<1>5. Stored' = Stored /\ Uncounted' = Uncounted
  BY <1>1 DEF ProgramIInv, ProgramTypeOK, Stored, Uncounted
<1>6. \A d \in Consumers : HoldsStop(d)' <=> HoldsStop(d)
  BY <1>1, <1>2 DEF ProgramIInv, ProgramTypeOK, HoldsStop
<1>7. StopIsLast'
  BY <1>1, <1>5, <1>6 DEF ProgramIInv, ProgramTypeOK, StopIsLast, SentAll
<1> QED
  BY <1>1, <1>3, <1>4, <1>5, <1>7, SameCounts DEF ProgramIInv

LEMMA FinishKeeps ==
  ASSUME ProgramIInv, IInv', NEW c \in Consumers, Finish(c) PROVE ProgramIInv'
<1> USE ProgramAssumption DEF Consumers, Move, Finish, vars, queueVars, monitorVars
<1>1. ProgramTypeOK' /\ Shape' /\ Outcomes'
  BY DEF ProgramIInv, ProgramTypeOK, Shape, Outcomes, IInv
<1>2. Stored' = Stored /\ Uncounted' = Uncounted
  BY DEF ProgramIInv, ProgramTypeOK, Stored, Uncounted
<1>3. \A d \in Consumers : HoldsStop(d)' <=> HoldsStop(d)
  BY DEF ProgramIInv, ProgramTypeOK, HoldsStop
<1>4. StopIsLast'
  BY <1>2, <1>3 DEF ProgramIInv, ProgramTypeOK, StopIsLast, SentAll
<1> QED
  BY <1>1, <1>2, <1>4, SameCounts DEF ProgramIInv

LEMMA ReceivedKeeps ==
  ASSUME ProgramIInv, IInv', NEW c \in Consumers, Received(c) PROVE ProgramIInv'
<1> USE ProgramAssumption DEF Consumers, Move
<1>1. /\ pc[c] = "unlock" /\ items' = items /\ at[c] = "call" /\ result[c] = "ok"
      /\ pc' = [pc EXCEPT ![c] = "idle"] /\ at' = [at EXCEPT ![c] = "count"]
      /\ result' = [result EXCEPT ![c] = "none"]
      /\ \A u \in Threads \ {c} : call'[u] = call[u]
      /\ message' = [message EXCEPT ![c] = call[c].item]
      /\ UNCHANGED <<left, running, counter>>
  BY DEF ProgramIInv, IInv, TypeOK, Received, Return, GoTo
<1>2. call[c].item \in Items \cup {NoItem}
  BY DEF ProgramIInv, IInv, TypeOK
<1>3. ProgramTypeOK' /\ Shape'
  BY <1>1, <1>2 DEF ProgramIInv, ProgramTypeOK, Shape, IInv, TypeOK
<1>4. Outcomes'
  BY <1>1 DEF ProgramIInv, Outcomes, IInv, TypeOK
<1>5. Stored' = Stored /\ Uncounted' = Uncounted
  BY <1>1 DEF ProgramIInv, ProgramTypeOK, IInv, TypeOK, Stored, Uncounted
<1>6. \A d \in Consumers : HoldsStop(d)' => HoldsStop(d)
  BY <1>1 DEF ProgramIInv, ProgramTypeOK, IInv, TypeOK, HoldsStop
<1>7. StopIsLast'
  BY <1>1, <1>5, <1>6 DEF ProgramIInv, ProgramTypeOK, StopIsLast, SentAll
<1> QED
  BY <1>1, <1>3, <1>4, <1>5, <1>7, SameCounts DEF ProgramIInv

LEMMA TimedOutKeeps ==
  ASSUME ProgramIInv, IInv', NEW c \in Consumers, TimedOut(c) PROVE ProgramIInv'
<1> USE ProgramAssumption DEF Consumers, Move
<1>1. /\ items' = items /\ at[c] = "call" /\ result[c] # "ok"
      /\ pc' = [pc EXCEPT ![c] = "idle"] /\ at' = [at EXCEPT ![c] = "loop"]
      /\ result' = [result EXCEPT ![c] = "none"]
      /\ \A u \in Threads \ {c} : call'[u] = call[u]
      /\ UNCHANGED <<left, message, running, counter>>
  BY DEF ProgramIInv, IInv, TypeOK, TimedOut, Return, GoTo
<1>2. ProgramTypeOK' /\ Shape'
  BY <1>1 DEF ProgramIInv, ProgramTypeOK, Shape, IInv, TypeOK
<1>3. Outcomes'
  BY <1>1 DEF ProgramIInv, Outcomes, IInv, TypeOK
<1>4. Stored' = Stored /\ Uncounted' = Uncounted
  BY <1>1 DEF ProgramIInv, ProgramTypeOK, IInv, TypeOK, Stored, Uncounted
<1>5. \A d \in Consumers : HoldsStop(d)' <=> HoldsStop(d)
  BY <1>1 DEF ProgramIInv, ProgramTypeOK, IInv, TypeOK, HoldsStop
<1>6. StopIsLast'
  BY <1>1, <1>4, <1>5 DEF ProgramIInv, ProgramTypeOK, StopIsLast, SentAll
<1> QED
  BY <1>1, <1>2, <1>3, <1>4, <1>6, SameCounts DEF ProgramIInv

LEMMA CountKeeps ==
  ASSUME ProgramIInv, IInv', NEW c \in Consumers, Count(c) PROVE ProgramIInv'
<1> USE ProgramAssumption DEF Consumers, Move
<1>1. /\ UNCHANGED <<items, pc, call, result, left, message, running>> /\ at[c] = "count"
      /\ at' = [at EXCEPT ![c] = "handle"] /\ counter' = counter + 1
  BY DEF Count, vars, queueVars
<1>2. ProgramTypeOK' /\ Shape' /\ Outcomes'
  BY <1>1 DEF ProgramIInv, ProgramTypeOK, Shape, Outcomes, IInv
<1>3. Stored' = Stored
  BY <1>1 DEF Stored
<1>4. result[c] # "ok"
  BY <1>1 DEF ProgramIInv, Outcomes, Shape
<1>5. c \in Uncounted /\ Uncounted' = Uncounted \ {c}
  BY <1>1, <1>4 DEF ProgramIInv, ProgramTypeOK, Uncounted
<1>6. Cardinality(Uncounted') = Cardinality(Uncounted) - 1
  BY <1>5, UncountedFinite, FS_RemoveElement
<1>7. Conserved'
  <2>1. Len(items) \in Nat /\ left \in Nat /\ counter \in Nat /\ Messages \in Nat
    BY DEF ProgramIInv, ProgramTypeOK, IInv, TypeOK
  <2> QED
    BY <1>1, <1>3, <1>6, <2>1, StoredType DEF ProgramIInv, Conserved
<1>8. \A d \in Consumers : HoldsStop(d)' => HoldsStop(d)
  BY <1>1 DEF ProgramIInv, ProgramTypeOK, HoldsStop
<1>9. StopIsLast'
  BY <1>1, <1>3, <1>8 DEF ProgramIInv, ProgramTypeOK, StopIsLast, SentAll
<1> QED
  BY <1>2, <1>7, <1>9 DEF ProgramIInv

(* stop() is called by a consumer that held the stop message, so that      *)
(* StopIsLast already speaks of an empty queue.                            *)
LEMMA HandleKeeps ==
  ASSUME ProgramIInv, IInv', NEW c \in Consumers, Handle(c) PROVE ProgramIInv'
<1> USE ProgramAssumption DEF Consumers, Move
<1>1. /\ UNCHANGED <<items, pc, call, result, left, counter>> /\ at[c] = "handle"
      /\ at' = [at EXCEPT ![c] = "loop"] /\ running' = (running /\ message[c] # Stop)
      /\ message' = [message EXCEPT ![c] = NoItem]
  BY DEF Handle, vars, queueVars
<1>2. ProgramTypeOK' /\ Shape' /\ Outcomes'
  BY <1>1 DEF ProgramIInv, ProgramTypeOK, Shape, Outcomes, IInv
<1>3. Stored' = Stored /\ Uncounted' = Uncounted
  BY <1>1 DEF ProgramIInv, ProgramTypeOK, Stored, Uncounted
<1>4. \A d \in Consumers : HoldsStop(d)' => HoldsStop(d)
  BY <1>1 DEF ProgramIInv, ProgramTypeOK, HoldsStop
<1>5. ~running' => ~running \/ HoldsStop(c)
  BY <1>1 DEF HoldsStop
<1>6. \A d \in Consumers : at'[d] = "ended" => at[d] = "ended"
  BY <1>1 DEF ProgramIInv, ProgramTypeOK
<1>7. ~running => ~running'
  BY <1>1
<1>8. StopIsLast'
  BY <1>1, <1>3, <1>4, <1>5, <1>6, <1>7 DEF ProgramIInv, StopIsLast, SentAll
<1> QED
  BY <1>1, <1>2, <1>3, <1>8, SameCounts DEF ProgramIInv

LEMMA ProgramIInvNext == ProgramIInv /\ [ProgramNext]_allVars => ProgramIInv'
<1> SUFFICES ASSUME ProgramIInv, [ProgramNext]_allVars PROVE ProgramIInv'
  OBVIOUS
<1>1. IInv'
  BY ProgramNext_Next, TypeNext, ConsistentNext DEF ProgramIInv, IInv
<1>2. CASE UNCHANGED allVars
  <2> USE <1>2 DEF allVars, programVars, vars, queueVars, monitorVars
  <2>1. ProgramTypeOK' /\ Shape' /\ Outcomes'
    BY <1>1 DEF ProgramIInv, ProgramTypeOK, Shape, Outcomes, IInv
  <2>2. Stored' = Stored /\ Uncounted' = Uncounted
    BY DEF Stored, Uncounted
  <2>3. \A c \in Consumers : HoldsStop(c)' <=> HoldsStop(c)
    BY DEF HoldsStop
  <2>4. StopIsLast'
    BY <2>2, <2>3 DEF ProgramIInv, StopIsLast, SentAll
  <2> QED
    BY <1>1, <2>1, <2>2, <2>4, SameCounts DEF ProgramIInv
<1>3. ASSUME NEW t \in Threads, Body(t) \/ Wake(t) PROVE ProgramIInv'
  <2>1. CASE InnerStep(t) \/ Wake(t)
    BY <1>1, <2>1, InnerKeeps DEF InnerStep, Wake
  <2>2. CASE t = Producer /\ (Produce \/ Produced)
    BY <1>1, <2>2, ProduceKeeps, ProducedKeeps
  <2>3. CASE /\ t # Producer
             /\ Consume(t) \/ Finish(t) \/ Received(t) \/ TimedOut(t) \/ Count(t) \/ Handle(t)
    <3>1. t \in Consumers
      BY <2>3 DEF Consumers
    <3> QED
      BY <1>1, <2>3, <3>1, ConsumeKeeps, FinishKeeps, ReceivedKeeps, TimedOutKeeps, CountKeeps,
         HandleKeeps
  <2> QED
    BY <1>3, <2>1, <2>2, <2>3 DEF Body
<1> QED
  BY <1>2, <1>3 DEF ProgramNext, Over

LEMMA ProgramInductive == ProgramSpec => []ProgramIInv
BY ProgramInit_Inv, ProgramIInvNext, PTL DEF ProgramSpec

-----------------------------------------------------------------------------
(* The program is one of the clients SyncQueue speaks of, so that what is  *)
(* proved of the queue holds in it: put and get take effect in one instant *)
(* each (synchronized_queue_tests.cpp:105, 111 and 134).                   *)
THEOREM ProgramUsesQueue == ProgramSpec => Spec /\ Linearizable
<1>1. ProgramInit => Init
  BY DEF ProgramInit
<1> QED
  BY <1>1, ProgramNext_Next, Linearizability, PTL DEF ProgramSpec, Spec

-----------------------------------------------------------------------------
(* Type correctness of the program and its queue.                          *)
THEOREM ProgramTypeCorrect == ProgramSpec => []ProgramTypeOK
<1>1. ProgramIInv => ProgramTypeOK
  BY DEF ProgramIInv
<1> QED
  BY <1>1, ProgramInductive, PTL

(* Every message put is in exactly one place until it is counted: no       *)
(* put, get or time-out loses or duplicates one.                           *)
THEOREM MessagesConserved == ProgramSpec => []Conserved
<1>1. ProgramIInv => Conserved
  BY DEF ProgramIInv
<1> QED
  BY <1>1, ProgramInductive, PTL

(* When a consumer has stopped the program, the queue is empty and the     *)
(* producer has stored everything: nobody can block any more.              *)
THEOREM NothingLeftBehind == ProgramSpec => []NothingLeft
<1>1. ProgramIInv => NothingLeft
  BY DEF ProgramIInv, StopIsLast, NothingLeft
<1> QED
  BY <1>1, ProgramInductive, PTL

(* The assertion of the test's last line, for any number of consumers,     *)
(* messages and places in the queue.                                       *)
THEOREM EveryMessageCounted == ProgramSpec => []AllConsumed
<1>1. ProgramIInv => AllConsumed
  <2> SUFFICES ASSUME ProgramIInv, AllEnded PROVE counter = Messages + 1
    BY DEF AllConsumed
  <2>1. \A t \in Threads : at[t] = "ended" /\ pc[t] = "idle" /\ result[t] # "ok"
    BY DEF ProgramIInv, AllEnded, Shape, Outcomes, ProgramTypeOK, IInv, TypeOK, Labels
  <2>2. left = 0 /\ Stored = 0
    BY <2>1, ProgramAssumption DEF ProgramIInv, Shape, Stored
  <2>3. ~running
    BY <2>1, ProgramAssumption DEF ProgramIInv, StopIsLast, Consumers
  <2>4. Len(items) = 0
    BY <2>3 DEF ProgramIInv, StopIsLast
  <2>5. Uncounted = {}
    BY <2>1 DEF Uncounted, Consumers
  <2>6. Cardinality(Uncounted) = 0
    BY <2>5, FS_EmptySet
  <2>7. counter \in Nat
    BY DEF ProgramIInv, ProgramTypeOK
  <2> QED
    BY <2>2, <2>4, <2>6, <2>7 DEF ProgramIInv, Conserved
<1> QED
  BY <1>1, ProgramInductive, PTL

-----------------------------------------------------------------------------
(* Once everything is put, the stop message is in the queue, or with a     *)
(* consumer, or has been obeyed.                                           *)
StopDelivered ==
  SentAll => \/ ~running
             \/ \E c \in Consumers : HoldsStop(c)
             \/ \E k \in 1 .. Len(items) : items[k] = Stop

(* What it takes for the notifications to suffice: no wake-up is lost, the *)
(* size of the queue stays what it was, and the stop message arrives.      *)
WakingIInv == /\ ProgramIInv
              /\ NoLostItem /\ NoLostRoom
              /\ maxSize = InitSize
              /\ StopDelivered

(* A step that moves no item, and after which whoever held the stop        *)
(* message still does, or has stopped the program.                         *)
LEMMA StopStays ==
  ASSUME StopDelivered, items' = items, SentAll' => SentAll, ~running => ~running',
         \A c \in Consumers : HoldsStop(c) => HoldsStop(c)' \/ ~running'
  PROVE  StopDelivered'
BY DEF StopDelivered

LEMMA StopPassesThroughQueue ==
  ASSUME ProgramIInv, StopDelivered, NEW t \in Threads, Inner(t) \/ SpuriousWake(t) \/ Timeout(t),
         UNCHANGED programVars
  PROVE  StopDelivered'
<1> USE ProgramAssumption DEF programVars, Consumers
<1>t. /\ items \in Seq(Items) /\ Len(items) \in Nat /\ left \in Nat
      /\ pc[t] # "idle" /\ at[t] = "call"
  BY InnerEffect DEF ProgramIInv, ProgramTypeOK, IInv, TypeOK, Shape
<1>1. CASE /\ t = Producer /\ result[t] # "ok" /\ result'[t] = "ok"
           /\ items' = Append(items, call[t].item) /\ call' = call
  <2> SUFFICES ASSUME SentAll' PROVE \E k \in 1 .. Len(items') : items'[k] = Stop
    BY DEF StopDelivered
  <2>1. left = 1
    BY <1>1, <1>t DEF SentAll, Stored
  <2>2. call[t].item = Stop
    BY <1>1, <1>t, <2>1 DEF ProgramIInv, Shape
  <2>3. Len(items') = Len(items) + 1 /\ items'[Len(items) + 1] = Stop
    BY <1>1, <1>t, <2>2
  <2>4. Len(items) + 1 \in 1 .. Len(items')
    BY <1>t, <2>3
  <2> QED
    BY <2>3, <2>4
<1>2. CASE /\ t # Producer /\ result[t] # "ok" /\ result'[t] = "ok"
           /\ items # <<>> /\ items' = Tail(items) /\ call'[t].item = Head(items)
  <2>1. SentAll' => SentAll
    BY <1>2, InnerEffect DEF SentAll, Stored
  <2>2. running /\ \A c \in Consumers : ~HoldsStop(c)
    BY <1>2 DEF ProgramIInv, StopIsLast
  <2> SUFFICES ASSUME SentAll,
                      NEW k \in 1 .. Len(items), items[k] = Stop
               PROVE  HoldsStop(t)' \/ \E j \in 1 .. Len(items') : items'[j] = Stop
    BY <1>2, <2>1, <2>2 DEF StopDelivered
  <2>3. CASE k = 1
    BY <1>2, <1>t, <2>3 DEF HoldsStop
  <2>4. CASE k # 1
    <3>1. k - 1 \in 1 .. Len(items') /\ items'[k - 1] = Stop
      BY <1>2, <1>t, <2>4
    <3> QED
      BY <3>1
  <2> QED
    BY <2>3, <2>4
<1>3. CASE items' = items /\ call' = call /\ (result'[t] = "ok" <=> result[t] = "ok")
  <2>1. \A u \in Threads : result'[u] = "ok" <=> result[u] = "ok"
    BY <1>3, InnerEffect
  <2>2. SentAll' => SentAll
    BY <2>1 DEF SentAll, Stored
  <2>3. \A c \in Consumers : HoldsStop(c) => HoldsStop(c)'
    BY <1>3, <2>1 DEF HoldsStop
  <2> QED
    BY <1>3, <2>2, <2>3, StopStays
<1> QED
  BY <1>1, <1>2, <1>3, InnerEffect

(* The producer's own steps: a call of put that has ended has stored its   *)
(* item before.                                                            *)
LEMMA StopLeavesProducer ==
  ASSUME ProgramIInv, StopDelivered, Produce \/ Produced
  PROVE  StopDelivered'
<1> USE ProgramAssumption DEF Consumers, ProgramIInv, ProgramTypeOK, IInv, TypeOK, Labels, Results
<1>1. CASE Produce
  <2>1. SentAll' = SentAll /\ \A c \in Consumers : HoldsStop(c)' = HoldsStop(c)
    BY <1>1 DEF Produce, Invoke, Move, SentAll, Stored, HoldsStop
  <2> QED
    BY <1>1, <2>1, StopStays DEF Produce, Invoke
<1>2. CASE Produced
  <2>1. /\ result' = [result EXCEPT ![Producer] = "none"] /\ call' = [call EXCEPT ![Producer] = NoCall]
        /\ pc[Producer] = "unlock" /\ at[Producer] = "call"
        /\ at' = [at EXCEPT ![Producer] = IF call[Producer].item = Stop THEN "ended" ELSE "loop"]
        /\ left' = (IF call[Producer].item = Stop THEN 0 ELSE left - 1)
        /\ UNCHANGED <<items, message, running>>
    BY <1>2 DEF Produced, Return, Move
  <2>2. result[Producer] = "ok"
    BY <2>1 DEF Outcomes
  <2>3. left' = left - 1
    BY <2>1 DEF Shape, Stop, Message
  <2>4. Stored = 1 /\ Stored' = 0
    BY <2>1, <2>2 DEF Stored
  <2>5. SentAll' => SentAll
    BY <2>3, <2>4 DEF SentAll
  <2>6. \A c \in Consumers : HoldsStop(c)' = HoldsStop(c)
    BY <2>1 DEF HoldsStop
  <2> QED
    BY <2>1, <2>5, <2>6, StopStays
<1> QED
  BY <1>1, <1>2

(* A consumer that holds the stop message keeps it until it calls stop().  *)
LEMMA StopReachesHandler ==
  ASSUME ProgramIInv, StopDelivered, NEW c \in Consumers,
         Consume(c) \/ Finish(c) \/ Received(c) \/ TimedOut(c) \/ Count(c) \/ Handle(c)
  PROVE  StopDelivered'
<1> USE ProgramAssumption
    DEF Consumers, Move, ProgramIInv, ProgramTypeOK, IInv, TypeOK, vars, queueVars
<1>1. items' = items /\ left' = left /\ result'[Producer] = result[Producer] /\ (~running => ~running')
  BY DEF Consume, Finish, Received, TimedOut, Count, Handle, Invoke, Return
<1>2. SentAll' => SentAll
  BY <1>1 DEF SentAll, Stored
<1>3. \A d \in Consumers : HoldsStop(d) => HoldsStop(d)' \/ ~running'
  <2>1. CASE Consume(c)
    BY <2>1 DEF Consume, Invoke, HoldsStop, Outcomes
  <2>2. CASE Finish(c) \/ Count(c)
    BY <2>2 DEF Finish, Count, HoldsStop
  <2>3. CASE Received(c) \/ TimedOut(c)
    BY <2>3 DEF Received, TimedOut, Return, HoldsStop
  <2>4. CASE Handle(c)
    BY <2>4 DEF Handle, HoldsStop, Outcomes, Shape
  <2> QED
    BY <2>1, <2>2, <2>3, <2>4
<1> QED
  BY <1>1, <1>2, <1>3, StopStays

LEMMA WakingInit == ProgramInit => WakingIInv
<1> SUFFICES ASSUME ProgramInit PROVE WakingIInv
  OBVIOUS
<1>1. NoLostItem /\ NoLostRoom
  BY NoneLostInit DEF ProgramInit, NoLostItem, NoLostRoom, Ops
<1>2. maxSize = InitSize
  BY DEF ProgramInit, Init
<1>3. ~SentAll
  BY ProgramAssumption DEF ProgramInit, Init, SentAll, Stored
<1> QED
  BY <1>1, <1>2, <1>3, ProgramInit_Inv DEF WakingIInv, StopDelivered

LEMMA WakingNext == WakingIInv /\ [ProgramNext]_allVars => WakingIInv'
<1> SUFFICES ASSUME WakingIInv, [ProgramNext]_allVars PROVE WakingIInv'
  OBVIOUS
<1> USE DEF WakingIInv
<1>1. ProgramIInv'
  BY ProgramIInvNext
<1>2. maxSize' = maxSize
  BY DEF ProgramNext, Body, Produce, Produced, Consume, Finish, Received, TimedOut, Count, Handle,
         InnerStep, Inner, Wake, Over, allVars, vars, queueVars, Invoke, Return, Acquire, Resume,
         Ready, Wait, GiveUp, Push, Pop, Notify, NotifyExpired, SpuriousWake, Timeout
<1>3. ASSUME NEW op \in Ops, NoneLost(op) PROVE NoneLost(op)'
  <2>1. ~ \E t \in Threads : CopyFails(t) /\ call[t].op = op
    BY ProgramAssumption DEF CopyFails
  <2>2. Cap' = Cap /\ Cap \in Int
    BY <1>2, ToSizeTType DEF Cap, ProgramIInv, IInv, TypeOK
  <2> QED
    BY <1>3, <2>1, <2>2, ProgramNext_Next, NoneLostStep DEF ProgramIInv
<1>4. NoLostItem' /\ NoLostRoom'
  BY <1>3 DEF NoLostItem, NoLostRoom, Ops
<1>5. StopDelivered'
  <2>1. CASE UNCHANGED allVars
    <3>1. SentAll' = SentAll /\ \A c \in Consumers : HoldsStop(c)' = HoldsStop(c)
      BY <2>1 DEF allVars, programVars, vars, queueVars, SentAll, Stored, HoldsStop
    <3> QED
      BY <2>1, <3>1, StopStays DEF allVars, programVars, vars, queueVars
  <2>2. ASSUME NEW t \in Threads, Body(t) \/ Wake(t) PROVE StopDelivered'
    <3>1. CASE InnerStep(t) \/ Wake(t)
      BY <3>1, StopPassesThroughQueue DEF InnerStep, Wake
    <3>2. CASE Produce \/ Produced
      BY <3>2, StopLeavesProducer
    <3>3. CASE /\ t # Producer
               /\ Consume(t) \/ Finish(t) \/ Received(t) \/ TimedOut(t) \/ Count(t) \/ Handle(t)
      <4>1. t \in Consumers
        BY <3>3 DEF Consumers
      <4> QED
        BY <3>3, <4>1, StopReachesHandler
    <3> QED
      BY <2>2, <3>1, <3>2, <3>3 DEF Body
  <2> QED
    BY <2>1, <2>2 DEF ProgramNext, Over
<1> QED
  BY <1>1, <1>2, <1>4, <1>5

(* Nobody is ever stuck (synchronized_queue_tests.cpp:105, 111 and 134):   *)
(* until the program is stopped the notifications of put and get keep it   *)
(* going without a single time-out, and then the time limit of get wakes   *)
(* the consumers that no stop message is left for.                         *)
THEOREM NobodyStuck == ProgramSpec => []NotificationsSuffice
<1>1. WakingIInv => NotificationsSuffice
  <2> SUFFICES ASSUME WakingIInv, \A t \in Threads : ~CanGoOn(t)
               PROVE  /\ ~running /\ at[Producer] = "ended"
                      /\ \A c \in Consumers : at[c] # "ended" => pc[c] = "wait" /\ call[c].timed
    BY DEF NotificationsSuffice
  <2> USE ProgramAssumption DEF WakingIInv, ProgramIInv, Consumers
  <2>1. owner = NoThread
    BY DEF IInv, TypeOK, MonitorTypeOK, Consistent, CanGoOn
  <2>2. ASSUME NEW t \in Threads
        PROVE  \/ at[t] = "ended" /\ pc[t] = "idle"
               \/ at[t] = "call" /\ pc[t] = "wait" /\ t \in waiters[CvOf(call[t].op)]
    BY <2>1 DEF ProgramTypeOK, IInv, TypeOK, Labels, Inside, Shape, CanGoOn, AwaitsMutex
  <2>3. Aware("get") = {} /\ Aware("put") = {}
    BY <2>2 DEF Aware, Seeking, Notifying
  <2>4. \A op \in Ops : waiters[CvOf(op)] # {} => Supply(op) <= 0
    BY <2>3, FS_EmptySet DEF NoLostItem, NoLostRoom, NoneLost, Ops
  <2>5. Len(items) \in Nat /\ Cap \in Nat /\ Cap > 0
    <3>1. Cap = InitSize % SizeModulus
      BY DEF Cap, ToSizeT
    <3>2. InitSize % SizeModulus = InitSize
      BY QueueAssumption
    <3> QED
      BY <3>1, <3>2 DEF IInv, TypeOK
  <2>6. Stored = 0 /\ \A c \in Consumers : ~HoldsStop(c)
    BY <2>2 DEF Outcomes, Stored, HoldsStop
  <2>7. at[Producer] = "call" => ~SentAll
    BY <2>6 DEF Shape, SentAll, ProgramTypeOK
  <2>8. at[Producer] = "ended" => SentAll
    BY <2>6 DEF Shape, SentAll
  <2>9. ASSUME running PROVE FALSE
    <3>1. PICK c \in Consumers : TRUE
      OBVIOUS
    <3>2. at[c] # "ended"
      BY <2>9 DEF StopIsLast
    <3>3. waiters[CvOf("get")] # {}
      BY <2>2, <3>2 DEF Shape
    <3>4. Len(items) = 0
      BY <2>4, <2>5, <3>3 DEF Supply, Ops
    <3>5. CASE at[Producer] = "call"
      <4>1. waiters[CvOf("put")] # {}
        BY <2>2, <3>5 DEF Shape
      <4> QED
        BY <2>4, <2>5, <3>4, <4>1 DEF Supply, Ops
    <3>6. CASE at[Producer] = "ended"
      BY <2>6, <2>8, <2>9, <3>4, <3>6 DEF StopDelivered
    <3> QED
      BY <2>2, <3>5, <3>6
  <2>10. at[Producer] = "ended"
    BY <2>2, <2>7, <2>9 DEF StopIsLast
  <2>11. \A c \in Consumers : at[c] # "ended" => pc[c] = "wait" /\ call[c].timed
    BY <2>2 DEF Shape
  <2> QED
    BY <2>9, <2>10, <2>11
<1> QED
  BY <1>1, WakingInit, WakingNext, PTL DEF ProgramSpec

=============================================================================
