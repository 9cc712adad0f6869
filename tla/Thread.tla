------------------------------- MODULE Thread -------------------------------
(***************************************************************************)
(* pthread::thread (src/include/pthread/thread.hpp, src/src/thread.cpp):   *)
(* objects that own a POSIX thread, the five steps of join(), at which     *)
(* other threads may interleave, and moving.                               *)
(*                                                                         *)
(* pc[a] says where actor a is in a call of join on the object arg[a]:     *)
(*   idle     not in a call                                                *)
(*   asked    joinable() was true, about to call join (only by a group)    *)
(*   guard    _thread was not 0, about to make the two other tests         *)
(*   attach   about to call pthread_join                                   *)
(*   wait     in pthread_join                                              *)
(*   clear    _status is reset, _thread is not yet                         *)
(*   returned, threw, skipped   how the call has ended; skipped is the end *)
(*            of a call on an object that has not been started             *)
(***************************************************************************)
EXTENDS FiniteSets

CONSTANTS Tids,      \* the ids of POSIX threads
          NoTid,     \* 0 in the code
          Main,      \* the thread that owns the objects
          Handles,   \* the objects of class thread
          NoHandle

ASSUME ThreadAssumption ==
  /\ IsFiniteSet(Tids) /\ IsFiniteSet(Handles)
  /\ NoTid \notin Tids \cup {Main} /\ Main \notin Tids
  /\ NoHandle \notin Handles

Actors == Tids \cup {Main}

VARIABLES os,       \* os[i]: free (no thread has this id), running, ended
          joiner,   \* joiner[i]: the actor blocked in pthread_join(i), or NoTid
          exists,   \* the objects that are constructed
          tid,      \* tid[h]: the member _thread
          status,   \* status[h]: the member _status
          pc, arg   \* the calls of join

objectVars == <<exists, tid, status>>
joinVars == <<pc, arg>>
threadVars == <<os, joiner, objectVars, joinVars>>

ThreadInit ==
  /\ os = [i \in Tids |-> "free"]
  /\ joiner = [i \in Tids |-> NoTid]
  /\ exists = {}
  /\ tid = [h \in Handles |-> NoTid]
  /\ status = [h \in Handles |-> "not_a_thread"]
  /\ pc = [a \in Actors |-> "idle"]
  /\ arg = [a \in Actors |-> NoHandle]

Step(a, label) == pc' = [pc EXCEPT ![a] = label]
Ended == {"returned", "threw", "skipped"}
Joining(a) == pc[a] \in {"guard", "attach", "wait", "clear"}

-----------------------------------------------------------------------------
(* init(): pthread_create stores the id, then the status is set.           *)
Launch(h, i) ==
  /\ os[i] = "free" /\ os' = [os EXCEPT ![i] = "running"]
  /\ tid' = [tid EXCEPT ![h] = i]
  /\ status' = [status EXCEPT ![h] = "a_thread"]

(* run() returns.  (It is noexcept: an exception that leaves it ends the   *)
(* program, see Escape in Locks, and does not reach the catch clause of    *)
(* thread_startup_runnable.)                                               *)
RunEnds(i) ==
  /\ os[i] = "running" /\ pc[i] = "idle"
  /\ os' = [os EXCEPT ![i] = "ended"]
  /\ UNCHANGED <<joiner, objectVars, joinVars>>

(* join(): nothing to do when _thread is 0.                                *)
EntryUnlessEnded(h) ==     \* mutant: a thread that has already ended is not joined
  IF tid[h] = NoTid \/ tid[h] \in {i \in Tids : os[i] = "ended"} THEN "returned" ELSE "guard"
Entry(h) == IF tid[h] = NoTid THEN "returned" ELSE "guard"

JoinCall(a, h) ==
  /\ pc[a] = "idle"
  /\ arg' = [arg EXCEPT ![a] = h]
  /\ Step(a, Entry(h))
  /\ UNCHANGED <<os, joiner, objectVars>>

(* It refuses to join the caller, and what is not a thread.                *)
JoinGuard(a) ==
  /\ pc[a] = "guard"
  /\ Step(a, IF tid[arg[a]] = a \/ status[arg[a]] = "not_a_thread" THEN "threw" ELSE "attach")
  /\ UNCHANGED <<os, joiner, objectVars, arg>>

(* pthread_join(i) fails with EDEADLK when i is the caller or waits for    *)
(* it, with EINVAL when another thread waits for i, and has no defined     *)
(* outcome when no thread has the id i: ESRCH is not an error for join(),  *)
(* the others are.                                                         *)
Alive(i) == i \in Tids /\ os[i] # "free"
Attachable(a, i) == i # a /\ joiner[i] = NoTid /\ ~(a \in Tids /\ joiner[a] = i)

(* Mutant of JoinAttach: an EINVAL is passed over as an ESRCH is.          *)
AttachLeniently(a) ==
  LET i == tid[arg[a]] IN
  /\ pc[a] = "attach"
  /\ \/ /\ Alive(i) /\ Attachable(a, i)
        /\ joiner' = [joiner EXCEPT ![i] = a]
        /\ Step(a, "wait")
     \/ /\ ~(Alive(i) /\ Attachable(a, i))
        /\ Step(a, "returned") /\ UNCHANGED joiner
  /\ UNCHANGED <<os, objectVars, arg>>

JoinAttach(a) ==
  LET i == tid[arg[a]] IN
  /\ pc[a] = "attach"
  /\ \/ /\ Alive(i) /\ Attachable(a, i)
        /\ joiner' = [joiner EXCEPT ![i] = a]
        /\ Step(a, "wait")
     \/ /\ Alive(i) /\ ~Attachable(a, i)
        /\ Step(a, "threw") /\ UNCHANGED joiner
     \/ /\ ~Alive(i)
        /\ Step(a, "returned") \/ Step(a, "threw")
        /\ UNCHANGED joiner
  /\ UNCHANGED <<os, objectVars, arg>>

(* pthread_join returns 0: the thread has ended and its id is free again.  *)
JoinReap(a) ==
  /\ pc[a] = "wait"
  /\ \E i \in Tids :
       /\ joiner[i] = a /\ os[i] = "ended"
       /\ os' = [os EXCEPT ![i] = "free"]
       /\ joiner' = [joiner EXCEPT ![i] = NoTid]
  /\ status' = [status EXCEPT ![arg[a]] = "not_a_thread"]
  /\ Step(a, "clear")
  /\ UNCHANGED <<exists, tid, arg>>

JoinClear(a) ==
  /\ pc[a] = "clear"
  /\ tid' = [tid EXCEPT ![arg[a]] = NoTid]
  /\ Step(a, "returned")
  /\ UNCHANGED <<os, joiner, exists, status, arg>>

JoinStep(a) == JoinGuard(a) \/ JoinAttach(a) \/ JoinReap(a) \/ JoinClear(a)

(* The caller goes on, after the call or in a catch clause.                *)
JoinDone(a) ==
  /\ pc[a] \in Ended
  /\ Step(a, "idle")
  /\ UNCHANGED <<os, joiner, objectVars, arg>>

-----------------------------------------------------------------------------
(* One owner and its objects: construction, moves, joins, destruction.     *)
Free(h) == h \notin exists /\ pc[Main] = "idle"
Usable(h) == h \in exists /\ pc[Main] = "idle"

ConstructEmpty(h) ==
  /\ Free(h)
  /\ exists' = exists \cup {h}
  /\ UNCHANGED <<os, joiner, tid, status, joinVars>>

Construct(h) ==
  /\ Free(h)
  /\ exists' = exists \cup {h}
  /\ \E i \in Tids : Launch(h, i)
  /\ UNCHANGED <<joiner, joinVars>>

(* Mutants of Swap: the old thread of h is forgotten; the source keeps its *)
(* thread; the status stays where it is.                                   *)
TakeOver(h, g) ==
  /\ tid' = [tid EXCEPT ![h] = tid[g], ![g] = NoTid]
  /\ status' = [status EXCEPT ![h] = status[g], ![g] = "not_a_thread"]
CopyOver(h, g) ==
  /\ tid' = [tid EXCEPT ![h] = tid[g]]
  /\ status' = [status EXCEPT ![h] = status[g]]
SwapIds(h, g) ==
  /\ tid' = [tid EXCEPT ![h] = tid[g], ![g] = tid[h]]
  /\ UNCHANGED status
Swap(h, g) ==
  /\ tid' = [tid EXCEPT ![h] = tid[g], ![g] = tid[h]]
  /\ status' = [status EXCEPT ![h] = status[g], ![g] = status[h]]

(* The move constructor swaps with a fresh object, the assignment with the *)
(* object that is there.                                                   *)
MoveConstruct(h, g) ==
  /\ Free(h) /\ Usable(g)
  /\ exists' = exists \cup {h}
  /\ Swap(h, g)
  /\ UNCHANGED <<os, joiner, joinVars>>

MoveAssign(h, g) ==
  /\ Usable(h) /\ Usable(g)
  /\ Swap(h, g)
  /\ UNCHANGED <<os, joiner, exists, joinVars>>

(* The destructor neither joins nor detaches the thread.                   *)
Destroy(h) ==
  /\ Usable(h)
  /\ exists' = exists \ {h}
  /\ tid' = [tid EXCEPT ![h] = NoTid]
  /\ status' = [status EXCEPT ![h] = "not_a_thread"]
  /\ UNCHANGED <<os, joiner, joinVars>>

ThreadNext ==
  \/ \E h \in Handles : \/ ConstructEmpty(h) \/ Construct(h) \/ Destroy(h)
                        \/ h \in exists /\ JoinCall(Main, h)
  \/ \E h, g \in Handles : MoveConstruct(h, g) \/ MoveAssign(h, g)
  \/ JoinStep(Main) \/ JoinDone(Main)
  \/ \E i \in Tids : RunEnds(i)

ThreadSpec == ThreadInit /\ [][ThreadNext]_threadVars

-----------------------------------------------------------------------------
ThreadTypeOK ==
  /\ os \in [Tids -> {"free", "running", "ended"}]
  /\ joiner \in [Tids -> Actors \cup {NoTid}]
  /\ exists \subseteq Handles
  /\ tid \in [Handles -> Tids \cup {NoTid}]
  /\ status \in [Handles -> {"not_a_thread", "a_thread"}]
  /\ pc \in [Actors -> {"idle", "asked", "guard", "attach", "wait", "clear"} \cup Ended]
  /\ arg \in [Actors -> Handles \cup {NoHandle}]

(* However objects are moved, joined and destroyed, no two objects refer   *)
(* to the same thread, although ids are used again after a join.           *)
OneOwner == \A h, g \in Handles : h # g /\ tid[h] # NoTid => tid[h] # tid[g]

(* The status and the id of an object agree, except between the two        *)
(* assignments at the end of join.                                         *)
StatusMatches ==
  \A h \in Handles :
    (\A a \in Actors : pc[a] = "clear" => arg[a] # h)
      => (status[h] = "a_thread" <=> tid[h] # NoTid)

(* pthread_join is only ever called for a thread that exists, and that     *)
(* nobody else waits for.                                                  *)
JoinDefined ==
  \A a \in Actors : pc[a] = "attach" =>
    LET i == tid[arg[a]] IN Alive(i) /\ joiner[i] = NoTid

(* No thread gets lost: the last object that refers to a thread gives it   *)
(* up only when the thread has been joined or the object is destroyed.     *)
Owned(i) == \E h \in exists : tid[h] = i
NeverDropped ==
  [][\A i \in Tids : Owned(i) /\ ~Owned(i)' =>
       \/ os[i] = "free"
       \/ \E h \in exists \ exists' : tid[h] = i]_threadVars

(* What the comment on operator= says: a thread that is moved is not one   *)
(* any more when the move is complete.                                     *)
MovedFromNotAThread ==
  [][\A h, g \in Handles :
       h # g /\ status[g] = "a_thread" /\ (MoveConstruct(h, g) \/ MoveAssign(h, g))
         => status'[g] = "not_a_thread"]_threadVars

=============================================================================
