---------------------------- MODULE ThreadProofs ----------------------------
(***************************************************************************)
(* Theorems about Thread, for any number of objects and of thread ids.     *)
(***************************************************************************)
EXTENDS Thread, TLAPS

(* Only Main joins, and while it does the object it joins stays as it is;  *)
(* an object that is not constructed refers to no thread; an object with   *)
(* the status of a thread refers to one that has not been joined.          *)
InCall == {"guard", "attach", "wait", "clear"}

Bookkeeping ==
  /\ \A i \in Tids : pc[i] = "idle"
  /\ pc[Main] \in InCall => arg[Main] \in exists /\ tid[arg[Main]] # NoTid
  /\ pc[Main] \in {"attach", "wait"} => status[arg[Main]] = "a_thread"
  /\ pc[Main] = "clear" => status[arg[Main]] = "not_a_thread" /\ os[tid[arg[Main]]] = "free"
  /\ \A i \in Tids : joiner[i] # NoTid => pc[Main] = "wait" /\ tid[arg[Main]] = i
  /\ \A h \in Handles \ exists : tid[h] = NoTid
  /\ \A h \in Handles : status[h] = "a_thread" => tid[h] # NoTid /\ os[tid[h]] # "free"
  /\ \A h \in Handles : tid[h] # NoTid /\ ~(pc[Main] = "clear" /\ arg[Main] = h)
                          => status[h] = "a_thread"

ThreadIInv == ThreadTypeOK /\ Bookkeeping /\ OneOwner

LEMMA ThreadIInvInit == ThreadInit => ThreadIInv
<1> SUFFICES ASSUME ThreadInit PROVE ThreadIInv
  OBVIOUS
<1> USE ThreadAssumption DEF ThreadInit, Actors
<1>1. ThreadTypeOK
  BY DEF ThreadTypeOK, Ended
<1>2. Bookkeeping
  BY DEF Bookkeeping, InCall
<1>3. OneOwner
  BY DEF OneOwner
<1> QED
  BY <1>1, <1>2, <1>3 DEF ThreadIInv

LEMMA ThreadIInvNext == ThreadIInv /\ [ThreadNext]_threadVars => ThreadIInv'
<1> SUFFICES ASSUME ThreadIInv, [ThreadNext]_threadVars PROVE ThreadIInv'
  OBVIOUS
<1> USE ThreadAssumption DEF ThreadIInv, ThreadTypeOK, Actors, Ended, InCall, Step
<1>1. ASSUME NEW h \in Handles, ConstructEmpty(h) PROVE ThreadIInv'
  BY <1>1 DEF ConstructEmpty, Free, Bookkeeping, OneOwner, joinVars
<1>2. ASSUME NEW h \in Handles, Construct(h) PROVE ThreadIInv'
  <2>1. PICK i \in Tids : Launch(h, i)
    BY <1>2 DEF Construct
  <2>2. h \notin exists /\ pc[Main] = "idle" /\ tid[h] = NoTid /\ os[i] = "free"
    BY <1>2, <2>1 DEF Construct, Free, Launch, Bookkeeping
  <2>3. \A g \in Handles : tid[g] # i
    BY <2>2 DEF Bookkeeping
  <2>4. ThreadTypeOK'
    BY <1>2, <2>1 DEF Construct, Launch, joinVars
  <2>5. Bookkeeping'
    BY <1>2, <2>1, <2>2, <2>3 DEF Construct, Launch, Bookkeeping, joinVars
  <2>6. OneOwner'
    BY <1>2, <2>1, <2>2, <2>3 DEF Launch, OneOwner
  <2> QED
    BY <2>4, <2>5, <2>6
<1>3. ASSUME NEW h \in Handles, Destroy(h) PROVE ThreadIInv'
  BY <1>3 DEF Destroy, Usable, Bookkeeping, OneOwner, joinVars
<1>4. ASSUME NEW h \in exists, JoinCall(Main, h) PROVE ThreadIInv'
  <2>1. ThreadTypeOK'
    BY <1>4 DEF JoinCall, Entry, objectVars
  <2>2. Bookkeeping'
    BY <1>4 DEF JoinCall, Entry, Bookkeeping, objectVars
  <2>3. OneOwner'
    BY <1>4 DEF JoinCall, Entry, OneOwner, objectVars
  <2> QED
    BY <2>1, <2>2, <2>3
<1>5. ASSUME NEW h \in Handles, NEW g \in Handles, MoveConstruct(h, g) PROVE ThreadIInv'
  <2>1. ThreadTypeOK'
    BY <1>5 DEF MoveConstruct, Swap, joinVars
  <2>2. Bookkeeping'
    BY <1>5 DEF MoveConstruct, Swap, Free, Usable, Bookkeeping, joinVars
  <2>3. OneOwner'
    BY <1>5 DEF MoveConstruct, Swap, OneOwner
  <2> QED
    BY <2>1, <2>2, <2>3
<1>6. ASSUME NEW h \in Handles, NEW g \in Handles, MoveAssign(h, g) PROVE ThreadIInv'
  <2>1. ThreadTypeOK'
    BY <1>6 DEF MoveAssign, Swap, joinVars
  <2>2. Bookkeeping'
    BY <1>6 DEF MoveAssign, Swap, Usable, Bookkeeping, joinVars
  <2>3. OneOwner'
    BY <1>6 DEF MoveAssign, Swap, OneOwner
  <2> QED
    BY <2>1, <2>2, <2>3
<1>7. ASSUME JoinGuard(Main) PROVE ThreadIInv'
  BY <1>7 DEF JoinGuard, Bookkeeping, OneOwner, objectVars
<1>8. ASSUME JoinAttach(Main) PROVE ThreadIInv'
  <2>1. LET i == tid[arg[Main]] IN i \in Tids /\ os[i] # "free"
    BY <1>8 DEF JoinAttach, Bookkeeping
  <2> QED
    BY <1>8, <2>1 DEF JoinAttach, Alive, Attachable, Bookkeeping, OneOwner, objectVars
<1>9. ASSUME JoinReap(Main) PROVE ThreadIInv'
  <2>1. PICK i \in Tids :
          /\ joiner[i] = Main /\ os[i] = "ended"
          /\ os' = [os EXCEPT ![i] = "free"]
          /\ joiner' = [joiner EXCEPT ![i] = NoTid]
    BY <1>9 DEF JoinReap
  <2>2. tid[arg[Main]] = i /\ arg[Main] \in exists /\ pc[Main] = "wait"
    BY <1>9, <2>1 DEF Bookkeeping, JoinReap
  <2>3. \A h \in Handles : h # arg[Main] => tid[h] # i
    BY <2>2 DEF OneOwner
  <2>4. ThreadTypeOK'
    BY <1>9, <2>1 DEF JoinReap
  <2>5. Bookkeeping'
    BY <1>9, <2>1, <2>2, <2>3 DEF JoinReap, Bookkeeping
  <2>6. OneOwner'
    BY <1>9 DEF JoinReap, OneOwner
  <2> QED
    BY <2>4, <2>5, <2>6
<1>10. ASSUME JoinClear(Main) PROVE ThreadIInv'
  BY <1>10 DEF JoinClear, Bookkeeping, OneOwner
<1>11. ASSUME JoinDone(Main) PROVE ThreadIInv'
  BY <1>11 DEF JoinDone, Bookkeeping, OneOwner, objectVars
<1>12. ASSUME NEW i \in Tids, RunEnds(i) PROVE ThreadIInv'
  BY <1>12 DEF RunEnds, Bookkeeping, OneOwner, objectVars, joinVars
<1>13. CASE UNCHANGED threadVars
  BY <1>13 DEF threadVars, objectVars, joinVars, Bookkeeping, OneOwner
<1> QED
  BY <1>1, <1>2, <1>3, <1>4, <1>5, <1>6, <1>7, <1>8, <1>9, <1>10, <1>11, <1>12, <1>13
  DEF ThreadNext, JoinStep

(* Every member keeps its type, through any sequence of constructions,     *)
(* moves, joins and destructions.                                          *)
THEOREM ThreadTypeCorrect == ThreadSpec => []ThreadTypeOK
<1>1. ThreadIInv => ThreadTypeOK
  BY DEF ThreadIInv
<1> QED
  BY <1>1, ThreadIInvInit, ThreadIInvNext, PTL DEF ThreadSpec

(* swap() and join() never leave two objects with the same thread.         *)
THEOREM UniqueOwnership == ThreadSpec => []OneOwner
<1>1. ThreadIInv => OneOwner
  BY DEF ThreadIInv
<1> QED
  BY <1>1, ThreadIInvInit, ThreadIInvNext, PTL DEF ThreadSpec

(* The members _status and _thread, which init(), swap() and join() write  *)
(* one after the other, agree whenever no join is between the two.         *)
THEOREM StatusCorrect == ThreadSpec => []StatusMatches
<1>1. ThreadIInv => StatusMatches
  <2> SUFFICES ASSUME ThreadIInv, NEW h \in Handles,
                      \A a \in Actors : pc[a] = "clear" => arg[a] # h
               PROVE  status[h] = "a_thread" <=> tid[h] # NoTid
    BY DEF StatusMatches
  <2> QED
    BY DEF ThreadIInv, Bookkeeping, Actors
<1> QED
  BY <1>1, ThreadIInvInit, ThreadIInvNext, PTL DEF ThreadSpec

(* An owner that is the only one to join its objects never calls           *)
(* pthread_join for a thread that is gone or is waited for.                *)
THEOREM JoinsDefined == ThreadSpec => []JoinDefined
<1>1. ThreadIInv => JoinDefined
  <2> SUFFICES ASSUME ThreadIInv, NEW a \in Actors, pc[a] = "attach"
               PROVE  Alive(tid[arg[a]]) /\ joiner[tid[arg[a]]] = NoTid
    BY DEF JoinDefined
  <2>1. a = Main
    BY DEF ThreadIInv, Bookkeeping, Actors
  <2> QED
    BY <2>1 DEF ThreadIInv, ThreadTypeOK, Bookkeeping, Alive, InCall, Actors
<1> QED
  BY <1>1, ThreadIInvInit, ThreadIInvNext, PTL DEF ThreadSpec

(* No sequence of moves drops a thread that has not been joined: only the  *)
(* end of join and the destructor make an object give up its thread.       *)
THEOREM NoThreadDropped == ThreadSpec => NeverDropped
<1> DEFINE Kept == \A i \in Tids : Owned(i) /\ ~Owned(i)' =>
                     \/ os[i] = "free"
                     \/ \E h \in exists \ exists' : tid[h] = i
<1>1. ThreadIInv /\ [ThreadNext]_threadVars => [Kept]_threadVars
  <2> SUFFICES ASSUME ThreadIInv, ThreadNext, NEW i \in Tids, Owned(i), ~Owned(i)'
               PROVE  \/ os[i] = "free"
                      \/ \E h \in exists \ exists' : tid[h] = i
    OBVIOUS
  <2>0. PICK o \in exists : tid[o] = i
    BY DEF Owned
  <2>t. o \in Handles /\ exists \subseteq Handles /\ tid \in [Handles -> Tids \cup {NoTid}] /\ i # NoTid
    BY ThreadAssumption DEF ThreadIInv, ThreadTypeOK
  <2>1. ASSUME NEW h \in Handles, Construct(h) \/ ConstructEmpty(h) PROVE FALSE
    <3>1. o # h /\ o \in exists' /\ tid'[o] = i
      BY <2>0, <2>1, <2>t DEF Construct, ConstructEmpty, Launch, Free
    <3> QED
      BY <3>1 DEF Owned
  <2>2. ASSUME NEW h \in Handles, Destroy(h) PROVE \E x \in exists \ exists' : tid[x] = i
    <3>1. o # h => o \in exists' /\ tid'[o] = i
      BY <2>0, <2>2, <2>t DEF Destroy
    <3> QED
      BY <2>0, <2>2, <3>1 DEF Destroy, Owned
  <2>3. ASSUME NEW h \in Handles, NEW g \in Handles, MoveConstruct(h, g) \/ MoveAssign(h, g)
        PROVE  FALSE
    <3>1. h \in exists' /\ g \in exists' /\ exists \subseteq exists'
      BY <2>3 DEF MoveConstruct, MoveAssign, Usable
    <3>2. tid'[h] = tid[g] /\ tid'[g] = tid[h] /\ \A x \in Handles \ {h, g} : tid'[x] = tid[x]
      BY <2>3, <2>t DEF MoveConstruct, MoveAssign, Swap
    <3> QED
      BY <2>0, <2>t, <3>1, <3>2 DEF Owned
  <2>4. ASSUME JoinClear(Main) PROVE os[i] = "free"
    <3>1. o # arg[Main] => tid'[o] = i
      BY <2>0, <2>4, <2>t DEF JoinClear
    <3>2. o = arg[Main]
      BY <2>0, <2>4, <3>1 DEF JoinClear, Owned
    <3> QED
      BY <2>0, <2>4, <3>2 DEF JoinClear, ThreadIInv, Bookkeeping
  <2>5. ASSUME UNCHANGED <<exists, tid>> PROVE FALSE
    BY <2>0, <2>5 DEF Owned
  <2> QED
    BY <2>1, <2>2, <2>3, <2>4, <2>5
    DEF ThreadNext, JoinStep, JoinCall, JoinGuard, JoinAttach, JoinReap, JoinDone, RunEnds, objectVars
<1> QED
  BY <1>1, ThreadIInvInit, ThreadIInvNext, PTL DEF ThreadSpec, NeverDropped

=============================================================================
