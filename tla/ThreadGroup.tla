----------------------------- MODULE ThreadGroup -----------------------------
(***************************************************************************)
(* pthread::abstract_thread and pthread::thread_group (src/include/        *)
(* pthread/thread.hpp, src/src/thread.cpp).                                *)
(*                                                                         *)
(* Worker w is an abstract_thread with the thread object that its pointer  *)
(* _thread refers to once it is started; the POSIX thread that executes    *)
(* w->run() is known by its id, which a later worker may get again once it *)
(* is free.  Main executes the program of the documentation: it adds the   *)
(* workers to a group, starts the group, perhaps joins it, and leaves the  *)
(* scope of the group, whose destructor deletes the workers.  Meanwhile    *)
(* run() may join other workers, and catches what join throws.             *)
(*                                                                         *)
(* After a use of a deleted worker the program has no meaning; the model   *)
(* then goes on with the values the members had.                           *)
(***************************************************************************)
EXTENDS Thread, Naturals, Sequences

CONSTANTS Order,         \* _threads: the workers in the order they were added
          Programs,      \* the bodies of the workers' run(), see targets
          CreateFails    \* may pthread_create fail?

Workers == Tids

ASSUME GroupAssumption ==
  /\ Handles = Tids
  /\ Order \in Seq(Workers)
  /\ \A w \in Workers : \E k \in DOMAIN Order : Order[k] = w
  /\ \A j, k \in DOMAIN Order : Order[j] = Order[k] => j = k
  /\ Programs \subseteq [Workers -> SUBSET Workers]
  /\ CreateFails \in BOOLEAN

VARIABLES runs,      \* runs[i]: the worker whose run() thread i executes, or did last
          phase,     \* of Main: start, join, destroy, done
          next,      \* the position of Main's iterator in _threads
          deleted,   \* the workers that have been deleted
          failed,    \* has thread_group::start thrown?
          joinsFirst,   \* _destructor_joins_first
          targets    \* targets[w]: the workers w->run() may join, one of Programs

programVars == <<joinsFirst, targets>>
groupVars == <<phase, next, deleted, failed, programVars>>
allVars == <<threadVars, runs, groupVars>>

GroupInit ==
  /\ ThreadInit
  /\ runs = [i \in Tids |-> NoHandle]
  /\ phase = "start"
  /\ next = 1
  /\ deleted = {}
  /\ failed = FALSE
  /\ joinsFirst \in BOOLEAN
  /\ targets \in Programs

At(p) == phase = p /\ next <= Len(Order)
Current == Order[next]
Stay == UNCHANGED <<next, phase>>               \* mutant: the iterator does not advance
GoOn == next' = next + 1 /\ UNCHANGED phase
EnterEarly(p) == phase' = p /\ next' = 0        \* mutant: one before the first
Enter(p) == phase' = p /\ next' = 1

-----------------------------------------------------------------------------
(* abstract_thread::start: the thread is running run() before the pointer  *)
(* to the thread object is stored.  Its id was never used, such an id is   *)
(* named after the worker, or belonged to a thread that has been joined.   *)
StartThread ==
  /\ At("start") /\ tid[Current] = NoTid
  /\ \E i \in {Current} \cup {j \in Tids : runs[j] # NoHandle} :
       /\ Launch(Current, i)
       /\ runs' = [runs EXCEPT ![i] = Current]
  /\ UNCHANGED <<joiner, exists, joinVars, groupVars>>

StorePointer ==
  /\ At("start") /\ tid[Current] # NoTid
  /\ exists' = exists \cup {Current}
  /\ GoOn
  /\ UNCHANGED <<os, joiner, tid, status, joinVars, runs, deleted, failed, programVars>>

(* thread's constructor throws: thread_group::start stops, and the         *)
(* exception ends the scope of the group.                                  *)
StartFails ==
  /\ CreateFails
  /\ At("start") /\ tid[Current] = NoTid
  /\ failed' = TRUE
  /\ Enter("destroy")
  /\ UNCHANGED <<threadVars, runs, deleted, programVars>>

(* All are started.  A program whose group does not join in its destructor *)
(* calls join(), others may.                                               *)
Started ==
  /\ phase = "start" /\ next > Len(Order)
  /\ Enter("join") \/ (joinsFirst /\ Enter("destroy"))
  /\ UNCHANGED <<threadVars, runs, deleted, failed, programVars>>

(* abstract_thread::join: nothing happens as long as the pointer is null.  *)
JoinObject(a, w) ==
  \/ w \in exists /\ JoinCall(a, w)
  \/ /\ w \notin exists /\ pc[a] = "idle"
     /\ Step(a, "skipped") /\ arg' = [arg EXCEPT ![a] = w]
     /\ UNCHANGED <<os, joiner, objectVars>>

(* A group asks joinable() first, and then calls join if the answer, which *)
(* another join of the worker may make untrue, was yes.                    *)
Joinable(w) == w \in exists /\ tid[w] # NoTid

AskJoinable ==
  /\ pc[Main] = "idle"
  /\ arg' = [arg EXCEPT ![Main] = Current]
  /\ Step(Main, IF Joinable(Current) THEN "asked" ELSE "skipped")
  /\ UNCHANGED <<os, joiner, objectVars, runs, groupVars>>

JoinAsked ==
  /\ pc[Main] = "asked"
  /\ Step(Main, Entry(arg[Main]))
  /\ UNCHANGED <<os, joiner, objectVars, arg, runs, groupVars>>

(* thread_group::join: an exception of one join ends the loop, and then    *)
(* the scope of the group.                                                 *)
JoinNext == At("join") /\ AskJoinable

JoinedNext ==
  /\ phase = "join" /\ pc[Main] \in {"returned", "skipped"}
  /\ Step(Main, "idle") /\ GoOn
  /\ UNCHANGED <<os, joiner, objectVars, arg, runs, deleted, failed, programVars>>

JoinFails ==
  /\ phase = "join" /\ pc[Main] = "threw"
  /\ Step(Main, "idle") /\ Enter("destroy")
  /\ UNCHANGED <<os, joiner, objectVars, arg, runs, deleted, failed, programVars>>

AllJoined ==
  /\ phase = "join" /\ next > Len(Order)
  /\ Enter("destroy")
  /\ UNCHANGED <<threadVars, runs, deleted, failed, programVars>>

(* Mutant of Delete: the joins of the destructor are not waited for.       *)
DeleteAtOnce ==
  /\ At("destroy") /\ pc[Main] \in Ended \cup {"idle"}
  /\ Step(Main, "idle") /\ GoOn
  /\ exists' = exists \ {Current}
  /\ deleted' = deleted \cup {Current}
  /\ UNCHANGED <<os, joiner, tid, status, arg, runs, failed, programVars>>

(* ~thread_group: join if the group was told to, whatever comes of it, and *)
(* delete the worker with its thread object.                               *)
JoinFirst == At("destroy") /\ joinsFirst /\ AskJoinable

Delete ==
  /\ At("destroy")
  /\ pc[Main] \in (IF joinsFirst THEN Ended ELSE {"idle"})
  /\ Step(Main, "idle") /\ GoOn
  /\ exists' = exists \ {Current}
  /\ deleted' = deleted \cup {Current}
  /\ UNCHANGED <<os, joiner, tid, status, arg, runs, failed, programVars>>

Leave ==
  /\ phase = "destroy" /\ next > Len(Order)
  /\ phase' = "done"
  /\ UNCHANGED <<threadVars, runs, next, deleted, failed, programVars>>

MainStep ==
  \/ StartThread \/ StorePointer \/ StartFails \/ Started
  \/ JoinNext \/ JoinedNext \/ JoinFails \/ AllJoined
  \/ JoinFirst \/ Delete \/ Leave
  \/ JoinAsked \/ (JoinStep(Main) /\ UNCHANGED <<runs, groupVars>>)

-----------------------------------------------------------------------------
(* run() in thread i: joins other workers, any number of times, and ends.  *)
RunJoins(i) ==
  /\ os[i] = "running"
  /\ \E w \in targets[runs[i]] : JoinObject(i, w)
  /\ UNCHANGED <<runs, groupVars>>

RunGoesOn(i) == (JoinStep(i) \/ JoinDone(i)) /\ UNCHANGED <<runs, groupVars>>

RunReturns(i) == RunEnds(i) /\ UNCHANGED <<runs, groupVars>>

(* The program has ended.                                                  *)
Over == phase = "done" /\ (\A i \in Tids : os[i] # "running") /\ UNCHANGED allVars

GroupNext ==
  \/ MainStep
  \/ \E i \in Tids : RunJoins(i) \/ RunGoesOn(i) \/ RunReturns(i)
  \/ Over

GroupSpec == GroupInit /\ [][GroupNext]_allVars

(* Threads keep running, and no run() joins for ever: joins that end at    *)
(* once are followed, at last, by the end of run().                        *)
FairGroup ==
  /\ GroupSpec
  /\ WF_allVars(MainStep)
  /\ \A i \in Tids : WF_allVars(RunGoesOn(i)) /\ SF_allVars(RunReturns(i))

-----------------------------------------------------------------------------
GroupTypeOK ==
  /\ ThreadTypeOK
  /\ runs \in [Tids -> Workers \cup {NoHandle}]
  /\ phase \in {"start", "join", "destroy", "done"}
  /\ next \in 1 .. Len(Order) + 1
  /\ deleted \subseteq Workers
  /\ failed \in BOOLEAN /\ joinsFirst \in BOOLEAN
  /\ targets \in Programs

(* Thread i is the thread of worker w: it runs, or has not been joined.    *)
Has(i, w)  == os[i] # "free" /\ runs[i] = w
Running(w) == \E i \in Tids : Has(i, w) /\ os[i] = "running"
Gone(w)    == \A i \in Tids : ~Has(i, w)

(* No worker joins one that was added before it.                           *)
JoinsForward == \A j, k \in DOMAIN Order : Order[k] \in targets[Order[j]] => j <= k

(* No two workers join the same third one.                                 *)
JoinsUnshared ==
  \A v, w \in Workers : v # w => targets[v] \cap targets[w] \subseteq {v, w}

(* A program is careful when in addition its group joins in its destructor *)
(* or, if it does not, is joined by hand, which the program cannot do when *)
(* start has thrown, and which an exception must not end: of two joins of  *)
(* one worker the slower one may wait for a thread that has got the id     *)
(* since, and then the join of that thread fails.                          *)
Careful == JoinsForward /\ (joinsFirst \/ (~failed /\ JoinsUnshared))

(* In a careful program a worker is deleted only when its run(), which     *)
(* uses it, has ended, and no other thread is in a join on it, then or     *)
(* later.                                                                  *)
NoUseAfterFree ==
  Careful =>
    \A w \in deleted : ~Running(w) /\ \A a \in Actors : pc[a] # "idle" => arg[a] # w

(* A join that returns normally, on a worker that was started, has waited  *)
(* for the end of its run(), also when others join it at the same time and *)
(* when the id of its thread has been given to another one since.          *)
JoinMeansEnded == \A a \in Actors : pc[a] = "returned" => ~Running(arg[a])

(* When a careful program is over all threads have been joined: none runs  *)
(* on, and none is left to the system as a zombie.                         *)
AllReaped == Careful /\ phase = "done" => \A i \in Tids : os[i] = "free"

(* A thread that joins the worker it runs gets an exception.               *)
SelfJoinThrows ==
  \A i \in Tids : arg[i] = runs[i] => pc[i] \notin {"returned", "skipped"}

(* The whole is a fork and a join: every worker is started at most once,   *)
(* ends, is joined once and is deleted once, in this order, and the scope  *)
(* of the group ends when all are deleted.                                 *)
Life(w) == IF w \in deleted THEN "deleted"
           ELSE IF Running(w) THEN "running"
           ELSE IF ~Gone(w) THEN "ended"
           ELSE IF w \in exists \/ tid[w] # NoTid THEN "joined" ELSE "new"
Lives == [w \in Workers |-> Life(w)]

Forked == INSTANCE ForkJoin
            WITH life <- Lives, open <- phase # "done", careful <- Careful
ForksAndJoins == Forked!Spec

(* The program ends.                                                       *)
Termination == <>(phase = "done")

=============================================================================
