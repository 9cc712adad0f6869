---------------------------- MODULE BoundedQueue ----------------------------
(***************************************************************************)
(* What a pthread::util::sync_queue promises its clients (sync_queue.hpp): *)
(* a first-in first-out queue on which every call takes effect in one      *)
(* instant between its invocation and its return.  Mutex, condition        *)
(* variables, wake-ups and deadlines do not appear here; SyncQueue is      *)
(* shown to implement this specification.                                  *)
(*                                                                         *)
(* A put first reserves room and then stores its item.  The two instants   *)
(* differ because the maximum size is not protected by the queue's mutex:  *)
(* it may be lowered between them, and the put goes through all the same.  *)
(***************************************************************************)
EXTENDS Integers, Sequences

CONSTANTS Threads,  \* the clients
          Items,    \* the values they pass
          NoItem    \* what a get holds before it has received an item

VARIABLES queue,    \* the items, oldest first
          room,     \* how many items the queue takes
          phase,    \* phase[t]: where thread t is in its call
          call,     \* call[t]: what thread t has called, with its argument
          result    \* result[t]: how the call ended

boundedVars == <<queue, room, phase, call, result>>

Calls == [op : {"put"}, timed : BOOLEAN, item : Items]
           \cup [op : {"get"}, timed : BOOLEAN, item : {NoItem}]
NoCall == [op |-> "get", timed |-> FALSE, item |-> NoItem]

QueueInit ==
  /\ queue = <<>>
  /\ room \in Nat
  /\ phase = [t \in Threads |-> "idle"]
  /\ call = [t \in Threads |-> NoCall]
  /\ result = [t \in Threads |-> "none"]

Done(t, r) ==
  /\ phase' = [phase EXCEPT ![t] = "done"]
  /\ result' = [result EXCEPT ![t] = r]

(* Thread t calls put(item), put(item, wait_time), get(item) or            *)
(* get(item, wait_time).                                                   *)
Invoke(t, c) ==
  /\ phase[t] = "idle"
  /\ phase' = [phase EXCEPT ![t] = "called"]
  /\ call' = [call EXCEPT ![t] = c]
  /\ UNCHANGED <<queue, room, result>>

(* A put finds room for its item: room that nobody else has reserved.      *)
Reserve(t) ==
  /\ phase[t] = "called" /\ call[t].op = "put"
  /\ \A u \in Threads : phase[u] # "reserved"
  /\ Len(queue) < room
  /\ phase' = [phase EXCEPT ![t] = "reserved"]
  /\ UNCHANGED <<queue, room, call, result>>

Enqueue(t) ==
  /\ phase[t] = "reserved"
  /\ queue' = Append(queue, call[t].item)
  /\ Done(t, "ok")
  /\ UNCHANGED <<room, call>>

Dequeue(t) ==
  /\ phase[t] = "called" /\ call[t].op = "get"
  /\ \A u \in Threads : phase[u] # "reserved"
  /\ queue # <<>>
  /\ call' = [call EXCEPT ![t].item = Head(queue)]
  /\ queue' = Tail(queue)
  /\ Done(t, "ok")
  /\ UNCHANGED room

(* A timed call gives up.  It may do so only at an instant at which the    *)
(* queue really is full (put) or empty (get).                              *)
Expire(t) ==
  /\ phase[t] = "called" /\ call[t].timed
  /\ \/ call[t].op = "put" /\ Len(queue) >= room /\ Done(t, "queue_full")
     \/ call[t].op = "get" /\ queue = <<>> /\ Done(t, "queue_timeout")
  /\ UNCHANGED <<queue, room, call>>

(* A call fails: the wait of a timed call is refused, or copying the item  *)
(* throws.  The queue is as if the call had not been made.                 *)
Fail(t) ==
  /\ phase[t] \in {"called", "reserved"}
  /\ \/ call[t].timed /\ Done(t, "cv_exception")
     \/ Done(t, "copy_exception")
  /\ UNCHANGED <<queue, room, call>>

Return(t) ==
  /\ phase[t] = "done"
  /\ phase' = [phase EXCEPT ![t] = "idle"]
  /\ call' = [call EXCEPT ![t] = NoCall]
  /\ result' = [result EXCEPT ![t] = "none"]
  /\ UNCHANGED <<queue, room>>

(* set_max_size, at any time.                                              *)
Resize ==
  /\ room' \in Nat
  /\ UNCHANGED <<queue, phase, call, result>>

QueueNext ==
  \/ \E t \in Threads :
       \/ \E c \in Calls : Invoke(t, c)
       \/ Reserve(t) \/ Enqueue(t) \/ Dequeue(t)
       \/ Expire(t) \/ Fail(t) \/ Return(t)
  \/ Resize

Spec == QueueInit /\ [][QueueNext]_boundedVars

=============================================================================
