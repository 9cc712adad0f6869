--------------------------- MODULE ProducerConsumer ---------------------------
(***************************************************************************)
(* The program of src/tests/synchronized_queue_tests.cpp, the client the   *)
(* library is tested with: one producer puts a number of messages and then *)
(* a stop message, several consumers get them with a time limit, count     *)
(* them, and the one that receives the stop message clears running.  The   *)
(* queue is SyncQueue, with all its steps.                                 *)
(*                                                                         *)
(* at[t] is where run() of t is outside the calls of the queue: loop,      *)
(* call, count, handle, ended.  The test counts under the write lock; what *)
(* Locks shows (CopiesCurrent) makes an increment one step here.  running  *)
(* is a bool that is read without the mutex, which is one load.            *)
(***************************************************************************)
EXTENDS SyncQueue

CONSTANTS Producer,
          Messages     \* MESSAGES_TO_PRODUCE

Consumers == Threads \ {Producer}
Stop    == "stop"
Message == "message"

ASSUME ProgramAssumption ==
  /\ Producer \in Threads /\ Consumers # {}
  /\ Messages \in Nat
  /\ Items = {Message, Stop}
  /\ ~CopyThrows                       \* the items are shared_ptrs
  /\ InitSize \in 1 .. SizeModulus - 1  \* a literal that size_t can hold

VARIABLES at,
          left,        \* the calls of put the producer has not finished
          message,     \* message[c]: pmessage, the item c has received
          running,     \* status::_running
          counter      \* consumer::_counter

programVars == <<at, left, message, running, counter>>
allVars == <<vars, programVars>>

ProgramInit ==
  /\ Init
  /\ at = [t \in Threads |-> "loop"]
  /\ left = Messages + 1
  /\ message = [t \in Threads |-> NoItem]
  /\ running = TRUE
  /\ counter = 0

Move(t, label) == at' = [at EXCEPT ![t] = label]

(* The call of the queue a thread makes.  The loop of the producer ends    *)
(* when no message is left to produce or the program is stopped; then it   *)
(* puts the stop message.                                                  *)
NextItem  == IF left > 1 /\ running THEN Message ELSE Stop
CallOf(t) == IF t = Producer THEN [op |-> "put", timed |-> FALSE, item |-> NextItem]
                             ELSE [op |-> "get", timed |-> TRUE, item |-> NoItem]

-----------------------------------------------------------------------------
(* A call of put, and its return.  After the stop message nothing is left. *)
Produce ==
  /\ at[Producer] = "loop"
  /\ Invoke(Producer) /\ call'[Producer] = CallOf(Producer)
  /\ Move(Producer, "call")
  /\ UNCHANGED <<left, message, running, counter>>

(* Mutant of Produced: the producer counts one message too many.           *)
ProducedOneMore ==
  /\ at[Producer] = "call"
  /\ Return(Producer)
  /\ left' = left - 1
  /\ Move(Producer, IF left = 0 THEN "ended" ELSE "loop")
  /\ UNCHANGED <<message, running, counter>>

Produced ==
  /\ at[Producer] = "call"
  /\ Return(Producer)
  /\ left' = IF call[Producer].item = Stop THEN 0 ELSE left - 1
  /\ Move(Producer, IF call[Producer].item = Stop THEN "ended" ELSE "loop")
  /\ UNCHANGED <<message, running, counter>>

(* The loop of a consumer: get with a time limit while running.            *)
Consume(c) ==
  /\ at[c] = "loop" /\ running
  /\ Invoke(c) /\ call'[c] = CallOf(c)
  /\ Move(c, "call")
  /\ UNCHANGED <<left, message, running, counter>>

Finish(c) ==
  /\ at[c] = "loop" /\ ~running
  /\ Move(c, "ended")
  /\ UNCHANGED <<vars, left, message, running, counter>>

(* The call returns with an item, or with a queue_timeout that is caught.  *)
Received(c) ==
  /\ at[c] = "call" /\ result[c] = "ok"
  /\ Return(c)
  /\ message' = [message EXCEPT ![c] = call[c].item]
  /\ Move(c, "count")
  /\ UNCHANGED <<left, running, counter>>

TimedOut(c) ==
  /\ at[c] = "call" /\ result[c] = "queue_timeout"
  /\ Return(c)
  /\ Move(c, "loop")
  /\ UNCHANGED <<left, message, running, counter>>

(* Mutant of Count: every message but the stop message is counted.         *)
CountMessages(c) ==
  /\ at[c] = "count"
  /\ counter' = IF message[c] = Stop THEN counter ELSE counter + 1
  /\ Move(c, "handle")
  /\ UNCHANGED <<vars, left, message, running>>

Count(c) ==
  /\ at[c] = "count"
  /\ counter' = counter + 1
  /\ Move(c, "handle")
  /\ UNCHANGED <<vars, left, message, running>>

(* Mutant of Handle: nobody stops the program.                             *)
HandleQuietly(c) ==
  /\ at[c] = "handle"
  /\ message' = [message EXCEPT ![c] = NoItem]
  /\ Move(c, "loop")
  /\ UNCHANGED <<vars, left, counter, running>>

(* Mutant of Handle: every message stops the program.                      *)
StopAtAny(c) ==
  /\ at[c] = "handle"
  /\ running' = FALSE
  /\ message' = [message EXCEPT ![c] = NoItem]
  /\ Move(c, "loop")
  /\ UNCHANGED <<vars, left, counter>>

(* stop(), if this is the stop message.                                    *)
Handle(c) ==
  /\ at[c] = "handle"
  /\ running' = (running /\ message[c] # Stop)
  /\ message' = [message EXCEPT ![c] = NoItem]
  /\ Move(c, "loop")
  /\ UNCHANGED <<vars, left, counter>>

(* The steps inside put and get.  1200 milliseconds are a valid time       *)
(* limit, so no wait is refused.                                           *)
Inner(t) ==
  \/ Acquire(t) \/ Resume(t) \/ Ready(t) \/ Wait(t) \/ GiveUp(t)
  \/ Push(t) \/ Pop(t) \/ Notify(t) \/ NotifyExpired(t)
InnerStep(t) == Inner(t) /\ UNCHANGED programVars
Wake(t)      == (SpuriousWake(t) \/ Timeout(t)) /\ UNCHANGED programVars

Body(t) ==
  \/ t = Producer /\ (Produce \/ Produced)
  \/ t # Producer /\ \/ Consume(t) \/ Finish(t) \/ Received(t) \/ TimedOut(t)
                     \/ Count(t) \/ Handle(t)
  \/ InnerStep(t)

AllEnded == \A t \in Threads : at[t] = "ended"
Over == AllEnded /\ UNCHANGED allVars

ProgramNext == (\E t \in Threads : Body(t) \/ Wake(t)) \/ Over

ProgramSpec == ProgramInit /\ [][ProgramNext]_allVars

(* As for the queue; and the time limit of a get passes at last, however   *)
(* often the thread wakes up spuriously before.                            *)
FairProgram ==
  /\ ProgramSpec
  /\ \A t \in Threads :
       /\ WF_allVars(Body(t))
       /\ SF_allVars((Acquire(t) \/ Resume(t)) /\ UNCHANGED programVars)
       /\ SF_allVars(Timeout(t) /\ UNCHANGED programVars)

-----------------------------------------------------------------------------
ProgramTypeOK ==
  /\ TypeOK
  /\ at \in [Threads -> {"loop", "call", "count", "handle", "ended"}]
  /\ left \in 0 .. Messages + 1
  /\ message \in [Threads -> Items \cup {NoItem}]
  /\ running \in BOOLEAN
  /\ counter \in Nat

(* Where every put of the producer has got to: it is still to be stored,   *)
(* in the queue, with a consumer that has not counted it, or counted.      *)
Stored    == IF result[Producer] = "ok" THEN 1 ELSE 0
Uncounted == {c \in Consumers : result[c] = "ok" \/ at[c] = "count"}
Conserved == left - Stored + Len(items) + Cardinality(Uncounted) + counter = Messages + 1

(* The stop message overtakes nothing: when a consumer has stopped the     *)
(* program all messages have been put and taken, so that no message is     *)
(* left in the queue and the producer is not blocked for ever.             *)
SentAll == left - Stored = 0
NothingLeft == ~running => items = <<>> /\ SentAll

(* The test's last line: MESSAGES_TO_PRODUCE + 1 messages were consumed.   *)
AllConsumed == AllEnded => counter = Messages + 1

(* What a thread can do by itself: a step of run(), one with the mutex, or *)
(* to take the free mutex, but neither time out nor wake up spuriously.    *)
AwaitsMutex(t) == \/ pc[t] = "lock"
                  \/ pc[t] = "wait" /\ t \notin waiters[CvOf(call[t].op)]
CanGoOn(t) == \/ at[t] \in {"loop", "count", "handle"}
              \/ pc[t] \in Inside
              \/ AwaitsMutex(t) /\ owner = NoThread

(* The notifications suffice until the program is stopped, and the time    *)
(* limit of get afterwards: when no thread can go on by itself, it has     *)
(* been stopped, the producer has ended, and every thread that has not is  *)
(* in a get that will time out.  (One stop message is sent, so that of     *)
(* several consumers all but one may have to wait for their time limit.)   *)
NotificationsSuffice ==
  (\A t \in Threads : ~CanGoOn(t)) =>
    /\ ~running /\ at[Producer] = "ended"
    /\ \A c \in Consumers : at[c] # "ended" => pc[c] = "wait" /\ call[c].timed

(* All threads end, so the join of the group returns.                      *)
ProgramEnds == <>AllEnded

=============================================================================
