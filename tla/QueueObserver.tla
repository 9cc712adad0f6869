----------------------------- MODULE QueueObserver -----------------------------
(***************************************************************************)
(* empty(), size() and max_size() of sync_queue, which read the list and   *)
(* the maximum without the mutex while other threads are in put and get,   *)
(* and the programs they are good for: one thread polls the queue and      *)
(* calls get (or put) only when it has been told that there is an item (or *)
(* room).  It is the only thread that calls this operation; all other      *)
(* threads call the other one, timed or not, as often as they like, and    *)
(* nobody calls set_max_size, which could take back what a poller was told.*)
(*                                                                         *)
(* A read that races with push_back or pop_front yields the value before   *)
(* or the value after it: one field of the list is read, once, and so the  *)
(* read is placed before or after Push or Pop.                             *)
(***************************************************************************)
EXTENDS SyncQueue

CONSTANTS Poller,      \* the thread that polls
          Unread       \* the result of size() before it is called

ASSUME ObserverAssumption == Poller \in Threads /\ Unread \notin Nat

VARIABLES polled,      \* the operation that is polled for, or "none": any program
          counted,     \* what size() has returned to the poller
          promised     \* has the poller been told that its call need not wait?

observerVars == <<polled, counted, promised>>
observedVars == <<vars, observerVars>>

ObserverInit ==
  /\ Init
  /\ polled \in Ops \cup {"none"}
  /\ counted = Unread
  /\ promised = FALSE

(* Only the poller makes the calls it polls for, and only when they need   *)
(* not wait.                                                               *)
MayCall(t, op) ==
  \/ polled = "none"
  \/ op = polled /\ t = Poller /\ promised
  \/ op # polled /\ t # Poller

ObservedInvoke(t) ==
  /\ Invoke(t) /\ MayCall(t, call'[t].op)
  /\ UNCHANGED observerVars

ObservedReturn(t) ==
  /\ Return(t)
  /\ promised' = (promised /\ t # Poller)
  /\ UNCHANGED <<polled, counted>>

(* The other steps of put and get.                                         *)
Working(t) ==
  \/ Acquire(t) \/ Resume(t)
  \/ Ready(t) \/ Wait(t) \/ WaitRefused(t) \/ GiveUp(t)
  \/ Push(t) \/ Pop(t) \/ CopyFails(t)
  \/ Notify(t) \/ NotifyExpired(t)
  \/ SpuriousWake(t) \/ Timeout(t)

-----------------------------------------------------------------------------
Polling(op) == polled = op /\ pc[Poller] = "idle" /\ ~promised

(* if (!queue.empty()) ...                                                 *)
Empty == items = <<>>
AskEmpty ==
  /\ Polling("get")
  /\ promised' = ~Empty
  /\ UNCHANGED <<vars, polled, counted>>

(* if (queue.size() < queue.max_size()) ..., which is two reads.           *)
AskSize ==
  /\ Polling("put") /\ counted = Unread
  /\ counted' = Len(items)
  /\ UNCHANGED <<vars, polled, promised>>

AskMaxSize ==
  /\ Polling("put") /\ counted # Unread
  /\ promised' = (counted < Cap)
  /\ counted' = Unread
  /\ UNCHANGED <<vars, polled>>

ObserverNext ==
  \/ \E t \in Threads : \/ ObservedInvoke(t) \/ ObservedReturn(t)
                        \/ Working(t) /\ UNCHANGED observerVars
  \/ AskEmpty \/ AskSize \/ AskMaxSize

ObserverSpec == ObserverInit /\ [][ObserverNext]_observedVars

(* The queue's fairness.  Nobody has to poll.                              *)
FairObserver ==
  /\ ObserverSpec
  /\ \A t \in Threads : WF_vars(Step(t)) /\ SF_vars(Acquire(t) \/ Resume(t))

-----------------------------------------------------------------------------
ObserverTypeOK ==
  /\ polled \in Ops \cup {"none"}
  /\ counted \in Nat \cup {Unread}
  /\ promised \in BOOLEAN

(* What the poller was told stays true until it acts on it, although the   *)
(* reads are not protected: only its own calls can take it back.           *)
PromiseKept ==
  /\ polled # "none" /\ promised /\ pc[Poller] \notin {"notify", "unlock"} => Predicate(polled)
  /\ counted # Unread => polled = "put" /\ Len(items) <= counted

(* So a call that is made after polling never waits and never gives up.    *)
PollNeverBlocks ==
  polled # "none" => /\ pc[Poller] # "wait"
                     /\ result[Poller] \notin {"queue_full", "queue_timeout", "cv_exception"}

=============================================================================
