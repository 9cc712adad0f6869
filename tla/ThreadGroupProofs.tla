-------------------------- MODULE ThreadGroupProofs --------------------------
(***************************************************************************)
(* Theorems about ThreadGroup, for any number of workers.                  *)
(***************************************************************************)
EXTENDS ThreadGroup, TLAPS

(* The workers whose start() has stored the pointer.                       *)
Known == exists \cup deleted

(* Worker v was added before w, or is w.                                   *)
Before(v, w) == \A j, k \in DOMAIN Order : Order[j] = v /\ Order[k] = w => j <= k

(* A thread that runs or has not been joined belongs to a worker that has  *)
(* its id and counts as a thread.  An id may be out of date: then its      *)
(* thread is that of a worker that was added later.                        *)
ThreadsOwned ==
  /\ \A i \in Tids : os[i] # "free" =>
       runs[i] \in Workers /\ tid[runs[i]] = i /\ status[runs[i]] = "a_thread"
  /\ \A w \in Workers : tid[w] # NoTid /\ os[tid[w]] # "free" => Before(w, runs[tid[w]])

(* Who waits for a thread is in a join on its worker, or in one on a       *)
(* worker whose thread is gone, and waits for no other thread.             *)
WaitsFor(a, i) ==
  /\ a \in Actors \ {i} /\ os[i] # "free" /\ pc[a] = "wait"
  /\ arg[a] = runs[i] \/ Gone(arg[a])
  /\ Before(arg[a], runs[i])

JoinersWait ==
  /\ \A i \in Tids : joiner[i] # NoTid => WaitsFor(joiner[i], i)
  /\ \A i, j \in Tids : joiner[i] = joiner[j] /\ joiner[i] # NoTid => i = j

(* A join is about a known worker; when it has reset the status or has     *)
(* returned, the thread is gone; only run() joins.                         *)
CallsSound ==
  /\ \A a \in Actors : Joining(a) \/ pc[a] \in {"asked", "returned"} => arg[a] \in Known
  /\ \A a \in Actors : pc[a] \in {"clear", "returned"} => Gone(arg[a])
  /\ \A i \in Tids : pc[i] # "idle" => os[i] = "running" /\ arg[i] \in targets[runs[i]]

(* What Main's position in the list says: the workers behind it are not    *)
(* started, only the current one may lack its pointer, and Main's calls    *)
(* are about the current one.                                              *)
Position ==
  /\ phase = "start" => \A k \in next .. Len(Order) : Order[k] \notin Known
  /\ \A w \in Workers \ Known : tid[w] # NoTid =>
       phase = "start" /\ next <= Len(Order) /\ w = Current
  /\ pc[Main] # "idle" => /\ phase \in {"join", "destroy"} /\ next <= Len(Order)
                          /\ arg[Main] = Current

MemberIInv == GroupTypeOK /\ ThreadsOwned /\ JoinersWait /\ CallsSound /\ Position

LEMMA MemberIInvInit == GroupInit => MemberIInv
<1> SUFFICES ASSUME GroupInit PROVE MemberIInv
  OBVIOUS
<1> USE ThreadAssumption, GroupAssumption DEF GroupInit, ThreadInit, Actors, Workers
<1>1. GroupTypeOK
  <2>1. ThreadTypeOK
    BY DEF ThreadTypeOK, Ended
  <2>2. failed \in BOOLEAN
    OBVIOUS
  <2>3. joinsFirst \in BOOLEAN
    OBVIOUS
  <2> QED
    BY <2>1, <2>2, <2>3 DEF GroupTypeOK
<1>2. ThreadsOwned /\ JoinersWait /\ CallsSound
  BY DEF ThreadsOwned, JoinersWait, CallsSound, Joining, Known
<1>3. Position
  BY DEF Position, Known
<1> QED
  BY <1>1, <1>2, <1>3 DEF MemberIInv

LEMMA CurrentWorker ==
  ASSUME MemberIInv, next <= Len(Order)
  PROVE  Current \in Workers /\ next \in DOMAIN Order
BY GroupAssumption DEF MemberIInv, GroupTypeOK, Current

(* A worker has one thread at most, and none if it has no id or counts as  *)
(* no thread.                                                              *)
LEMMA ThreadOf ==
  ASSUME ThreadsOwned, NEW w \in Workers
  PROVE  /\ \A i \in Tids : Has(i, w) => tid[w] = i /\ status[w] = "a_thread"
         /\ tid[w] = NoTid \/ status[w] # "a_thread" => Gone(w)
         /\ tid[w] \in Tids /\ os[tid[w]] = "free" => Gone(w)
BY ThreadAssumption DEF ThreadsOwned, Has, Gone

(* A thread that is gone stays away, as long as no worker is started.      *)
LEMMA GoneStays ==
  ASSUME runs' = runs, \A i \in Tids : os'[i] # "free" => os[i] # "free", NEW w
  PROVE  Gone(w) => Gone(w)'
BY DEF Gone, Has

(* Steps that only change the control state of one call of join.           *)
LEMMA CallStep ==
  ASSUME MemberIInv, NEW a \in Actors, NEW label \in {"idle", "asked", "guard", "attach",
                                                      "returned", "threw", "skipped"},
         pc[a] # "wait", pc' = [pc EXCEPT ![a] = label],
         UNCHANGED <<os, joiner, exists, tid, status, runs, deleted, targets>>,
         \A b \in Actors : b # a => arg'[b] = arg[b],
         label \in {"asked", "guard", "attach", "returned"} => arg'[a] \in Known,
         label = "returned" => Gone(arg'[a]),
         a \in Tids /\ label # "idle" => os[a] = "running" /\ arg'[a] \in targets[runs[a]]
  PROVE  ThreadsOwned' /\ JoinersWait' /\ CallsSound'
<1> USE ThreadAssumption DEF MemberIInv, GroupTypeOK, ThreadTypeOK, Actors, Known
<1>1. \A w : Gone(w) <=> Gone(w)'
  BY DEF Gone, Has
<1>2. ThreadsOwned'
  BY DEF ThreadsOwned
<1>3. JoinersWait'
  <2>1. ASSUME NEW i \in Tids, joiner'[i] # NoTid PROVE WaitsFor(joiner[i], i)'
    <3>1. WaitsFor(joiner[i], i) /\ joiner[i] # a /\ joiner[i] \in Actors
      BY <2>1 DEF JoinersWait, WaitsFor
    <3> QED
      BY <1>1, <3>1 DEF WaitsFor, Before
  <2> QED
    BY <2>1 DEF JoinersWait
<1>4. CallsSound'
  <2>1. ASSUME NEW b \in Actors, (Joining(b) \/ pc[b] \in {"asked", "returned"})'
        PROVE  arg'[b] \in Known'
    BY <2>1 DEF CallsSound, Joining
  <2>2. ASSUME NEW b \in Actors, pc'[b] \in {"clear", "returned"} PROVE Gone(arg[b])'
    BY <1>1, <2>2 DEF CallsSound, Gone, Has
  <2>3. ASSUME NEW i \in Tids, pc'[i] # "idle" PROVE os'[i] = "running" /\ arg'[i] \in targets'[runs'[i]]
    BY <2>3 DEF CallsSound
  <2> QED
    BY <2>1, <2>2, <2>3 DEF CallsSound
<1> QED
  BY <1>2, <1>3, <1>4

(* A join that run() calls, on an object that is known or skipped.         *)
LEMMA JoinObjectStep ==
  ASSUME MemberIInv, NEW a \in Tids, RunJoins(a)
  PROVE  MemberIInv'
<1> USE ThreadAssumption, GroupAssumption
    DEF MemberIInv, GroupTypeOK, ThreadTypeOK, Workers, Actors, Ended, Step, groupVars,
        programVars, Known
<1>1. PICK w \in targets[runs[a]] : JoinObject(a, w)
  BY DEF RunJoins
<1>2. /\ os[a] = "running" /\ runs[a] \in Workers
      /\ targets \in [Workers -> SUBSET Workers] /\ w \in Workers
  BY DEF RunJoins, ThreadsOwned
<1>3. /\ pc[a] = "idle" /\ arg' = [arg EXCEPT ![a] = w]
      /\ UNCHANGED <<os, joiner, exists, tid, status>>
  BY <1>1 DEF JoinObject, JoinCall, objectVars
<1>4. UNCHANGED <<runs, phase, next, deleted, failed, joinsFirst, targets>>
  BY DEF RunJoins
<1>5. PICK label \in {"skipped", "returned", "guard"} :
        /\ pc' = [pc EXCEPT ![a] = label]
        /\ label # "skipped" => w \in exists
        /\ label = "returned" => tid[w] = NoTid
  BY <1>1 DEF JoinObject, JoinCall, Entry
<1>6. label = "returned" => Gone(w)
  BY <1>2, <1>5, ThreadOf
<1>7. GroupTypeOK'
  <2>1. arg' \in [Actors -> Handles \cup {NoHandle}]
    BY <1>2, <1>3
  <2>2. pc' \in [Actors -> {"idle", "asked", "guard", "attach", "wait", "clear"} \cup Ended]
    BY <1>5
  <2> QED
    BY <1>3, <1>4, <2>1, <2>2
<1>8. ThreadsOwned' /\ JoinersWait' /\ CallsSound'
  <2>1. arg'[a] = w /\ (\A b \in Actors : b # a => arg'[b] = arg[b]) /\ pc[a] # "wait"
    BY <1>3
  <2>2. w \in exists => w \in Known
    OBVIOUS
  <2> QED
    BY <1>2, <1>3, <1>4, <1>5, <1>6, <2>1, <2>2, CallStep
<1>9. Position'
  BY <1>3, <1>4, <1>5 DEF Position, Current
<1> QED
  BY <1>7, <1>8, <1>9

(* Main asks for joinable(), and makes the call.                           *)
LEMMA AskStep ==
  ASSUME MemberIInv, JoinNext \/ JoinFirst \/ JoinAsked
  PROVE  MemberIInv'
<1> USE ThreadAssumption, GroupAssumption
    DEF MemberIInv, GroupTypeOK, ThreadTypeOK, Workers, Actors, Ended, Step, groupVars,
        programVars, Known
<1>1. CASE JoinNext \/ JoinFirst
  <2>1. Current \in Workers /\ phase \in {"join", "destroy"} /\ next <= Len(Order)
    BY <1>1, CurrentWorker DEF JoinNext, JoinFirst, At
  <2>2. /\ pc[Main] = "idle" /\ arg' = [arg EXCEPT ![Main] = Current]
        /\ UNCHANGED <<os, joiner, exists, tid, status, runs, phase, next, deleted, failed,
                       joinsFirst, targets>>
    BY <1>1 DEF JoinNext, JoinFirst, AskJoinable, objectVars
  <2>3. PICK label \in {"asked", "skipped"} :
          pc' = [pc EXCEPT ![Main] = label] /\ (label = "asked" => Current \in exists)
    BY <1>1 DEF JoinNext, JoinFirst, AskJoinable, Joinable
  <2>4. GroupTypeOK'
    BY <2>1, <2>2, <2>3
  <2>5. ThreadsOwned' /\ JoinersWait' /\ CallsSound'
    BY <2>1, <2>2, <2>3, CallStep
  <2>6. Position'
    BY <2>1, <2>2, <2>3 DEF Position, Current
  <2> QED
    BY <2>4, <2>5, <2>6
<1>2. CASE JoinAsked
  <2>1. /\ pc[Main] = "asked" /\ arg[Main] \in Known
        /\ UNCHANGED <<os, joiner, exists, tid, status, arg, runs, phase, next, deleted, failed,
                       joinsFirst, targets>>
    BY <1>2 DEF JoinAsked, objectVars, CallsSound
  <2>2. PICK label \in {"returned", "guard"} :
          pc' = [pc EXCEPT ![Main] = label] /\ (label = "returned" => tid[arg[Main]] = NoTid)
    BY <1>2 DEF JoinAsked, Entry
  <2>3. label = "returned" => Gone(arg[Main])
    BY <2>1, <2>2, ThreadOf
  <2>4. GroupTypeOK'
    BY <2>1, <2>2
  <2>5. ThreadsOwned' /\ JoinersWait' /\ CallsSound'
    BY <2>1, <2>2, <2>3, CallStep
  <2>6. Position'
    BY <2>1, <2>2 DEF Position, Current
  <2> QED
    BY <2>4, <2>5, <2>6
<1> QED
  BY <1>1, <1>2

(* The steps of a call of join.                                            *)
LEMMA JoinStepStep ==
  ASSUME MemberIInv, NEW a \in Actors, JoinStep(a), UNCHANGED <<runs, groupVars>>
  PROVE  MemberIInv'
<1> USE ThreadAssumption, GroupAssumption
    DEF MemberIInv, GroupTypeOK, ThreadTypeOK, Workers, Actors, Ended, Step, groupVars,
        programVars, Known
<1>0. /\ Joining(a) /\ arg[a] \in Workers /\ arg[a] \in Known /\ tid[arg[a]] \in Tids \cup {NoTid}
      /\ a \in Tids => os[a] = "running" /\ arg[a] \in targets[runs[a]]
  BY DEF JoinStep, JoinGuard, JoinAttach, JoinReap, JoinClear, CallsSound, Joining
<1>1. CASE JoinGuard(a)
  <2>1. PICK label \in {"threw", "attach"} : pc' = [pc EXCEPT ![a] = label]
    BY <1>1 DEF JoinGuard
  <2>2. pc[a] = "guard" /\ UNCHANGED <<os, joiner, exists, tid, status, arg>>
    BY <1>1 DEF JoinGuard, objectVars
  <2>3. GroupTypeOK'
    BY <2>1, <2>2
  <2>4. ThreadsOwned' /\ JoinersWait' /\ CallsSound'
    BY <1>0, <2>1, <2>2, CallStep
  <2> QED
    BY <2>1, <2>2, <2>3, <2>4 DEF Position, Current
<1>2. CASE JoinAttach(a)
  <2> DEFINE i == tid[arg[a]]
  <2>0. pc[a] = "attach" /\ UNCHANGED <<os, exists, tid, status, arg>>
    BY <1>2 DEF JoinAttach, objectVars
  <2>1. ASSUME Alive(i), Attachable(a, i),
               joiner' = [joiner EXCEPT ![i] = a], pc' = [pc EXCEPT ![a] = "wait"]
        PROVE  MemberIInv'
    <3>1. i \in Tids /\ os[i] # "free" /\ i # a /\ joiner[i] = NoTid
      BY <2>1 DEF Alive, Attachable
    <3>2. \A w : Gone(w) <=> Gone(w)'
      BY <2>0 DEF Gone, Has
    <3>3. Before(arg[a], runs[i])
      BY <1>0, <3>1 DEF ThreadsOwned
    <3>4. arg[a] = runs[i] \/ Gone(arg[a])
      BY <1>0, <3>1 DEF Gone, Has, ThreadsOwned
    <3>5. \A j \in Tids : joiner[j] # a
      BY <2>0 DEF JoinersWait, WaitsFor
    <3>6. JoinersWait'
      <4>1. ASSUME NEW j \in Tids, joiner'[j] # NoTid PROVE WaitsFor(joiner[j], j)'
        <5>1. CASE j = i
          BY <2>0, <2>1, <3>1, <3>2, <3>3, <3>4, <5>1 DEF WaitsFor, Before
        <5>2. CASE j # i
          <6>1. joiner'[j] = joiner[j] /\ WaitsFor(joiner[j], j)
            BY <2>1, <3>1, <4>1, <5>2 DEF JoinersWait
          <6>2. joiner[j] # a /\ joiner[j] \in Actors
            BY <3>5, <6>1 DEF WaitsFor
          <6> QED
            BY <2>0, <2>1, <3>2, <6>1, <6>2 DEF WaitsFor, Before
        <5> QED
          BY <5>1, <5>2
      <4>2. \A j, k \in Tids : joiner'[j] = joiner'[k] /\ joiner'[j] # NoTid => j = k
        BY <2>1, <3>1, <3>5 DEF JoinersWait
      <4> QED
        BY <4>1, <4>2 DEF JoinersWait
    <3>7. ThreadsOwned'
      BY <2>0 DEF ThreadsOwned, Before
    <3>8. CallsSound'
      BY <1>0, <2>0, <2>1, <3>2 DEF CallsSound, Joining, Gone, Has
    <3>9. GroupTypeOK'
      BY <2>0, <2>1, <3>1
    <3> QED
      BY <2>0, <2>1, <3>6, <3>7, <3>8, <3>9 DEF Position, Current
  <2>2. ASSUME NEW label \in {"threw", "returned"}, pc' = [pc EXCEPT ![a] = label], UNCHANGED joiner,
               label = "returned" => ~Alive(i)
        PROVE  MemberIInv'
    <3>1. label = "returned" => Gone(arg[a])
      BY <1>0, <2>2, ThreadOf DEF Alive
    <3>2. GroupTypeOK'
      BY <2>0, <2>2
    <3>3. ThreadsOwned' /\ JoinersWait' /\ CallsSound'
      BY <1>0, <2>0, <2>2, <3>1, CallStep
    <3> QED
      BY <2>0, <2>2, <3>2, <3>3 DEF Position, Current
  <2> QED
    BY <1>2, <2>1, <2>2 DEF JoinAttach
<1>3. CASE JoinReap(a)
  <2>1. PICK i \in Tids :
          /\ joiner[i] = a /\ os[i] = "ended"
          /\ os' = [os EXCEPT ![i] = "free"]
          /\ joiner' = [joiner EXCEPT ![i] = NoTid]
    BY <1>3 DEF JoinReap
  <2>2. /\ pc[a] = "wait" /\ pc' = [pc EXCEPT ![a] = "clear"]
        /\ status' = [status EXCEPT ![arg[a]] = "not_a_thread"]
        /\ UNCHANGED <<exists, tid, arg>>
    BY <1>3 DEF JoinReap
  <2>3. WaitsFor(a, i)
    BY <2>1 DEF JoinersWait
  <2>4. \A j \in Tids : os'[j] # "free" => j # i /\ os[j] # "free" /\ runs[j] # arg[a]
    <3> SUFFICES ASSUME NEW j \in Tids, os'[j] # "free", runs[j] = arg[a] PROVE FALSE
      BY <2>1
    <3>1. j # i /\ os[j] # "free" /\ os[i] # "free"
      BY <2>1
    <3>2. ~Gone(arg[a])
      BY <3>1 DEF Gone, Has
    <3>3. runs[i] = runs[j]
      BY <2>3, <3>2 DEF WaitsFor
    <3> QED
      BY <3>1, <3>3 DEF ThreadsOwned
  <2>5. \A w : Gone(w) => Gone(w)'
    BY <2>4, GoneStays
  <2>6. Gone(arg[a])'
    BY <2>2, <2>4 DEF Gone, Has
  <2>7. ThreadsOwned'
    <3>1. \A j \in Tids : os'[j] # "free" => /\ runs[j] \in Workers /\ tid[runs[j]] = j
                                             /\ status'[runs[j]] = "a_thread"
      BY <2>2, <2>4 DEF ThreadsOwned
    <3>2. \A w \in Workers : tid[w] # NoTid /\ os'[tid[w]] # "free" => Before(w, runs[tid[w]])
      BY <2>4 DEF ThreadsOwned
    <3> QED
      BY <2>2, <3>1, <3>2 DEF ThreadsOwned, Before
  <2>8. JoinersWait'
    <3>1. ASSUME NEW j \in Tids, joiner'[j] # NoTid PROVE WaitsFor(joiner[j], j)'
      <4>1. j # i /\ joiner'[j] = joiner[j] /\ WaitsFor(joiner[j], j) /\ joiner[j] # a
        BY <2>1, <3>1 DEF JoinersWait
      <4> QED
        BY <2>1, <2>2, <2>5, <4>1 DEF WaitsFor, Before
    <3>2. \A j, k \in Tids : joiner'[j] = joiner'[k] /\ joiner'[j] # NoTid => j = k
      BY <2>1 DEF JoinersWait
    <3> QED
      BY <3>1, <3>2 DEF JoinersWait
  <2>9. CallsSound'
    <3>1. \A b \in Actors : (Joining(b) \/ pc[b] \in {"asked", "returned"})' => arg'[b] \in Known'
      BY <1>0, <2>2 DEF CallsSound, Joining
    <3>2. \A b \in Actors : pc'[b] \in {"clear", "returned"} => Gone(arg[b])'
      <4> SUFFICES ASSUME NEW b \in Actors, pc'[b] \in {"clear", "returned"} PROVE Gone(arg[b])'
        OBVIOUS
      <4>1. CASE b = a
        BY <2>6, <4>1
      <4>2. CASE b # a
        <5>1. Gone(arg[b])
          BY <2>2, <4>2 DEF CallsSound
        <5> QED
          BY <2>2, <2>5, <5>1 DEF Gone, Has
      <4> QED
        BY <4>1, <4>2
    <3>3. \A j \in Tids : pc'[j] # "idle" => os'[j] = "running" /\ arg'[j] \in targets'[runs'[j]]
      BY <2>1, <2>2 DEF CallsSound
    <3> QED
      BY <3>1, <3>2, <3>3 DEF CallsSound
  <2>10. GroupTypeOK'
    BY <1>0, <2>1, <2>2
  <2> QED
    BY <2>2, <2>7, <2>8, <2>9, <2>10 DEF Position, Current
<1>4. CASE JoinClear(a)
  <2>1. /\ pc[a] = "clear" /\ pc' = [pc EXCEPT ![a] = "returned"] /\ tid' = [tid EXCEPT ![arg[a]] = NoTid]
        /\ UNCHANGED <<os, joiner, exists, status, arg>>
    BY <1>4 DEF JoinClear
  <2>2. Gone(arg[a])
    BY <2>1 DEF CallsSound
  <2>3. \A w : Gone(w) <=> Gone(w)'
    BY <2>1 DEF Gone, Has
  <2>4. ThreadsOwned'
    <3>1. \A j \in Tids : os[j] # "free" => runs[j] # arg[a]
      BY <2>2 DEF Gone, Has
    <3> QED
      BY <1>0, <2>1, <3>1 DEF ThreadsOwned, Before
  <2>5. JoinersWait'
    <3>1. ASSUME NEW j \in Tids, joiner[j] # NoTid PROVE WaitsFor(joiner[j], j)'
      <4>1. WaitsFor(joiner[j], j) /\ joiner[j] # a
        BY <2>1, <3>1 DEF JoinersWait, WaitsFor
      <4> QED
        BY <2>1, <2>3, <4>1 DEF WaitsFor, Before
    <3> QED
      BY <2>1, <3>1 DEF JoinersWait
  <2>6. CallsSound'
    BY <2>1, <2>2, <2>3 DEF CallsSound, Joining, Gone, Has
  <2>7. GroupTypeOK'
    BY <1>0, <2>1
  <2> QED
    BY <1>0, <2>1, <2>4, <2>5, <2>6, <2>7 DEF Position, Current
<1> QED
  BY <1>1, <1>2, <1>3, <1>4 DEF JoinStep

(* A worker is started: no thread was its own, and those whose id it gets  *)
(* were added before it.                                                   *)
LEMMA StartStep == MemberIInv /\ StartThread => MemberIInv'
<1> SUFFICES ASSUME MemberIInv, StartThread PROVE MemberIInv'
  OBVIOUS
<1> USE ThreadAssumption, GroupAssumption
    DEF MemberIInv, GroupTypeOK, ThreadTypeOK, Workers, Actors, Ended, Step, programVars,
        groupVars, Known
<1>1. /\ Current \in Workers /\ next \in DOMAIN Order /\ Current \notin Known
      /\ tid[Current] = NoTid /\ phase = "start"
      /\ UNCHANGED <<joiner, exists, pc, arg, phase, next, deleted, failed, joinsFirst, targets>>
  BY CurrentWorker DEF StartThread, At, Position, Current, joinVars
<1>2. PICK i \in Tids :
        /\ os[i] = "free" /\ os' = [os EXCEPT ![i] = "running"]
        /\ runs' = [runs EXCEPT ![i] = Current]
        /\ tid' = [tid EXCEPT ![Current] = i]
        /\ status' = [status EXCEPT ![Current] = "a_thread"]
  BY <1>1 DEF StartThread, Launch
<1>3. \A j \in Tids : os[j] # "free" => j # i /\ runs[j] # Current
  BY <1>1, <1>2 DEF ThreadsOwned
<1>4. ASSUME NEW w \in Known, Gone(w) PROVE Gone(w)'
  BY <1>1, <1>2, <1>4 DEF Gone, Has
<1>5. GroupTypeOK'
  BY <1>1, <1>2
<1>6. ThreadsOwned'
  <2>1. ASSUME NEW j \in Tids, os'[j] # "free"
        PROVE  runs'[j] \in Workers /\ tid'[runs'[j]] = j /\ status'[runs'[j]] = "a_thread"
    <3>1. CASE j = i
      BY <1>1, <1>2, <3>1
    <3>2. CASE j # i
      <4>1. os[j] # "free" /\ runs'[j] = runs[j] /\ runs[j] # Current
        BY <1>2, <1>3, <2>1, <3>2
      <4> QED
        BY <1>1, <1>2, <4>1 DEF ThreadsOwned
    <3> QED
      BY <3>1, <3>2
  <2>2. ASSUME NEW w \in Workers, tid'[w] # NoTid, os'[tid'[w]] # "free"
        PROVE  Before(w, runs'[tid'[w]])
    <3>1. CASE w = Current
      <4>1. runs'[tid'[w]] = w
        BY <1>1, <1>2, <3>1
      <4> QED
        BY <4>1 DEF Before
    <3>2. CASE w # Current
      <4>1. tid'[w] = tid[w] /\ tid[w] \in Tids
        BY <1>1, <1>2, <2>2, <3>2
      <4>2. CASE tid[w] = i
        <5>1. runs'[i] = Current /\ w \in Known
          BY <1>1, <1>2, <3>2, <4>1 DEF Position
        <5>2. \A j \in DOMAIN Order : Order[j] = w => j <= next
          <6> SUFFICES ASSUME NEW j \in DOMAIN Order, Order[j] = w, j > next PROVE FALSE
            BY <1>1
          <6>1. j \in next .. Len(Order)
            BY <1>1
          <6>2. w \notin Known
            BY <1>1, <6>1 DEF Position
          <6> QED
            BY <5>1, <6>2
        <5>3. \A k \in DOMAIN Order : Order[k] = Current => k = next
          BY <1>1 DEF Current
        <5> QED
          BY <4>1, <4>2, <5>1, <5>2, <5>3 DEF Before
      <4>3. CASE tid[w] # i
        <5>1. os[tid[w]] # "free" /\ runs'[tid[w]] = runs[tid[w]]
          BY <1>2, <2>2, <4>1, <4>3
        <5>2. Before(w, runs[tid[w]])
          BY <2>2, <4>1, <5>1 DEF ThreadsOwned
        <5> QED
          BY <4>1, <5>1, <5>2
      <4> QED
        BY <4>2, <4>3
    <3> QED
      BY <3>1, <3>2
  <2> QED
    BY <2>1, <2>2 DEF ThreadsOwned, Before
<1>7. JoinersWait'
  <2>1. ASSUME NEW j \in Tids, joiner[j] # NoTid PROVE WaitsFor(joiner[j], j)'
    <3>1. WaitsFor(joiner[j], j) /\ j # i /\ runs'[j] = runs[j] /\ os'[j] = os[j]
      BY <1>2, <1>3, <2>1 DEF JoinersWait, WaitsFor
    <3>2. arg[joiner[j]] \in Known
      BY <3>1 DEF WaitsFor, CallsSound, Joining
    <3>3. arg[joiner[j]] = runs[j] \/ Gone(arg[joiner[j]])'
      BY <1>1, <1>4, <3>1, <3>2 DEF WaitsFor, Gone, Has
    <3> QED
      BY <1>1, <3>1, <3>3 DEF WaitsFor, Before, Gone, Has
  <2> QED
    BY <1>1, <2>1 DEF JoinersWait
<1>8. CallsSound'
  <2>1. \A b \in Actors : (Joining(b) \/ pc[b] \in {"asked", "returned"})' => arg'[b] \in Known'
    BY <1>1 DEF CallsSound, Joining
  <2>2. ASSUME NEW b \in Actors, pc'[b] \in {"clear", "returned"} PROVE Gone(arg[b])'
    <3>1. Gone(arg[b]) /\ arg[b] \in Known
      BY <1>1, <2>2 DEF CallsSound, Joining
    <3> QED
      BY <1>1, <1>4, <3>1 DEF Gone, Has
  <2>3. ASSUME NEW j \in Tids, pc'[j] # "idle" PROVE os'[j] = "running" /\ arg'[j] \in targets'[runs'[j]]
    <3>1. pc[j] # "idle" /\ os[j] = "running" /\ j # i
      BY <1>1, <1>2, <2>3 DEF CallsSound
    <3> QED
      BY <1>1, <1>2, <3>1 DEF CallsSound
  <2> QED
    BY <2>1, <2>2, <2>3 DEF CallsSound
<1>9. Position'
  BY <1>1, <1>2 DEF Position, Current
<1> QED
  BY <1>5, <1>6, <1>7, <1>8, <1>9

(* Steps of Main between its calls of join.                                *)
LEMMA LoopStep ==
  ASSUME MemberIInv, pc[Main] # "wait",
         pc' = pc \/ pc' = [pc EXCEPT ![Main] = "idle"], Known \subseteq Known',
         UNCHANGED <<os, joiner, tid, status, arg, runs, targets>>
  PROVE  ThreadsOwned' /\ JoinersWait' /\ CallsSound'
<1> USE ThreadAssumption DEF MemberIInv, GroupTypeOK, ThreadTypeOK, Actors
<1>1. \A w : Gone(w) <=> Gone(w)'
  BY DEF Gone, Has
<1>2. \A b \in Actors : pc'[b] = pc[b] \/ (pc'[b] = "idle" /\ b = Main)
  OBVIOUS
<1>3. ThreadsOwned'
  BY DEF ThreadsOwned, Before
<1>4. JoinersWait'
  <2>1. ASSUME NEW i \in Tids, joiner[i] # NoTid PROVE WaitsFor(joiner[i], i)'
    <3>1. WaitsFor(joiner[i], i)
      BY <2>1 DEF JoinersWait
    <3> QED
      BY <1>1, <1>2, <3>1 DEF WaitsFor, Before
  <2> QED
    BY <2>1 DEF JoinersWait
<1>5. CallsSound'
  <2>1. \A b \in Actors : (Joining(b) \/ pc[b] \in {"asked", "returned"})' => arg'[b] \in Known'
    BY <1>2 DEF CallsSound, Joining
  <2>2. \A b \in Actors : pc'[b] \in {"clear", "returned"} => Gone(arg[b])'
    BY <1>2 DEF CallsSound, Gone, Has
  <2>3. \A i \in Tids : pc'[i] # "idle" => os'[i] = "running" /\ arg'[i] \in targets'[runs'[i]]
    BY <1>2 DEF CallsSound
  <2> QED
    BY <2>1, <2>2, <2>3 DEF CallsSound
<1> QED
  BY <1>3, <1>4, <1>5

LEMMA MemberIInvNext == MemberIInv /\ [GroupNext]_allVars => MemberIInv'
<1> SUFFICES ASSUME MemberIInv, [GroupNext]_allVars PROVE MemberIInv'
  OBVIOUS
<1> USE ThreadAssumption, GroupAssumption
    DEF MemberIInv, GroupTypeOK, ThreadTypeOK, Workers, Actors, Ended, Step, programVars, Known
<1>1. CASE StartThread
  BY <1>1, StartStep
<1>2. CASE StorePointer
  <2>1. Current \in Workers /\ next \in DOMAIN Order
    BY <1>2, CurrentWorker DEF StorePointer, At
  <2>2. /\ phase = "start" /\ exists' = exists \cup {Current} /\ next' = next + 1
        /\ UNCHANGED <<os, joiner, tid, status, pc, arg, runs, phase, deleted, failed,
                       joinsFirst, targets>>
    BY <1>2 DEF StorePointer, At, GoOn, joinVars
  <2>3. GroupTypeOK'
    BY <2>1, <2>2
  <2>4. pc[Main] = "idle"
    BY <2>2 DEF Position
  <2>5. ThreadsOwned' /\ JoinersWait' /\ CallsSound'
    BY <2>2, <2>4, LoopStep
  <2>6. \A k \in next' .. Len(Order) : Order[k] # Current
    BY <2>1, <2>2 DEF Current
  <2> QED
    BY <2>1, <2>2, <2>3, <2>4, <2>5, <2>6 DEF Position, Current
<1>3. CASE StartFails \/ Started \/ AllJoined
  <2>1. /\ UNCHANGED <<os, joiner, exists, tid, status, pc, arg, runs, deleted, joinsFirst,
                       targets>> /\ next' = 1
        /\ phase \in {"start", "join"} /\ phase' \in {"join", "destroy"}
        /\ phase = "start" => next > Len(Order) \/ tid[Current] = NoTid
    BY <1>3 DEF StartFails, Started, AllJoined, At, Enter, threadVars, objectVars, joinVars
  <2>2. failed' \in BOOLEAN
    BY <1>3 DEF StartFails, Started, AllJoined
  <2>3. GroupTypeOK'
    BY <2>1, <2>2
  <2>4. pc[Main] = "idle"
    BY <1>3 DEF StartFails, Started, AllJoined, At, Position
  <2>5. ThreadsOwned' /\ JoinersWait' /\ CallsSound'
    BY <2>1, <2>4, LoopStep
  <2>6. Position'
    BY <2>1, <2>4 DEF Position, Current
  <2> QED
    BY <2>3, <2>5, <2>6
<1>4. CASE JoinNext \/ JoinFirst \/ JoinAsked
  BY <1>4, AskStep
<1>5. CASE JoinedNext \/ JoinFails
  <2>1. /\ phase = "join" /\ pc[Main] \in Ended /\ pc' = [pc EXCEPT ![Main] = "idle"]
        /\ UNCHANGED <<os, joiner, exists, tid, status, arg, runs, deleted, failed, joinsFirst, targets>>
        /\ (phase' = phase /\ next' = next + 1) \/ (phase' = "destroy" /\ next' = 1)
    BY <1>5 DEF JoinedNext, JoinFails, GoOn, Enter, objectVars
  <2>2. GroupTypeOK'
    BY <2>1 DEF Position
  <2>3. ThreadsOwned' /\ JoinersWait' /\ CallsSound'
    BY <2>1, LoopStep
  <2> QED
    BY <2>1, <2>2, <2>3 DEF Position, Current
<1>6. CASE Delete
  <2>1. Current \in Workers /\ phase = "destroy" /\ next <= Len(Order)
    BY <1>6, CurrentWorker DEF Delete, At
  <2>2. /\ pc' = [pc EXCEPT ![Main] = "idle"] /\ pc[Main] # "wait" /\ next' = next + 1
        /\ exists' = exists \ {Current} /\ deleted' = deleted \cup {Current}
        /\ UNCHANGED <<os, joiner, tid, status, arg, runs, phase, failed, joinsFirst, targets>>
    BY <1>6 DEF Delete, GoOn
  <2>3. GroupTypeOK'
    BY <2>1, <2>2
  <2>4. ThreadsOwned' /\ JoinersWait' /\ CallsSound'
    BY <2>2, LoopStep
  <2> QED
    BY <2>1, <2>2, <2>3, <2>4 DEF Position, Current
<1>7. CASE Leave
  <2>1. /\ phase = "destroy" /\ phase' = "done" /\ next > Len(Order)
        /\ UNCHANGED <<os, joiner, exists, tid, status, pc, arg, runs, next, deleted, failed,
                       joinsFirst, targets>>
    BY <1>7 DEF Leave, threadVars, objectVars, joinVars
  <2>2. pc[Main] = "idle"
    BY <2>1 DEF Position
  <2>3. ThreadsOwned' /\ JoinersWait' /\ CallsSound'
    BY <2>1, <2>2, LoopStep
  <2> QED
    BY <2>1, <2>2, <2>3 DEF Position, Current
<1>8. CASE \E a \in Actors : JoinStep(a) /\ UNCHANGED <<runs, groupVars>>
  BY <1>8, JoinStepStep
<1>9. ASSUME NEW i \in Tids, RunJoins(i) PROVE MemberIInv'
  BY <1>9, JoinObjectStep
<1>10. ASSUME NEW i \in Tids, JoinDone(i), UNCHANGED <<runs, groupVars>> PROVE MemberIInv'
  <2>1. /\ pc[i] \in Ended /\ pc' = [pc EXCEPT ![i] = "idle"]
        /\ UNCHANGED <<os, joiner, exists, tid, status, arg, runs, phase, next, deleted, failed,
                       joinsFirst, targets>>
    BY <1>10 DEF JoinDone, objectVars, groupVars
  <2>2. ThreadsOwned' /\ JoinersWait' /\ CallsSound'
    BY <2>1, CallStep
  <2> QED
    BY <2>1, <2>2 DEF Position, Current
<1>11. ASSUME NEW i \in Tids, RunReturns(i) PROVE MemberIInv'
  <2>1. /\ os[i] = "running" /\ pc[i] = "idle" /\ os' = [os EXCEPT ![i] = "ended"]
        /\ UNCHANGED <<joiner, exists, tid, status, pc, arg, runs, phase, next, deleted, failed,
                       joinsFirst, targets>>
    BY <1>11 DEF RunReturns, RunEnds, objectVars, joinVars, groupVars
  <2>2. \A w : Gone(w) => Gone(w)'
    BY <2>1, GoneStays
  <2>3. ThreadsOwned'
    BY <2>1 DEF ThreadsOwned, Before
  <2>4. JoinersWait'
    <3>1. ASSUME NEW j \in Tids, joiner[j] # NoTid PROVE WaitsFor(joiner[j], j)'
      <4>1. WaitsFor(joiner[j], j)
        BY <3>1 DEF JoinersWait
      <4> QED
        BY <2>1, <2>2, <4>1 DEF WaitsFor, Before, Gone, Has
    <3> QED
      BY <2>1, <3>1 DEF JoinersWait
  <2>5. CallsSound'
    BY <2>1, <2>2 DEF CallsSound, Joining, Gone, Has
  <2> QED
    BY <2>1, <2>3, <2>4, <2>5 DEF Position, Current
<1>12. CASE UNCHANGED allVars
  <2>1. UNCHANGED <<os, joiner, exists, tid, status, pc, arg, runs, phase, next, deleted, failed,
                    joinsFirst, targets>>
    BY <1>12 DEF allVars, threadVars, objectVars, joinVars, groupVars
  <2> QED
    BY <2>1 DEF ThreadsOwned, Before, JoinersWait, WaitsFor, CallsSound, Joining, Gone, Has,
                Position, Current
<1> QED
  BY <1>1, <1>2, <1>3, <1>4, <1>5, <1>6, <1>7, <1>8, <1>9, <1>10, <1>11, <1>12
  DEF GroupNext, MainStep, RunGoesOn, Over

-----------------------------------------------------------------------------
(* What the loops of Main have passed; the destructor deletes exactly the  *)
(* workers it passes.                                                      *)
Passed == {Order[k] : k \in 1 .. next - 1}

Deleting ==
  /\ phase \in {"start", "join"} => deleted = {}
  /\ phase = "destroy" => deleted = Passed
  /\ phase = "done" => deleted = Workers
  /\ exists \cap deleted = {}

GroupIInv == MemberIInv /\ Deleting

LEMMA CurrentNotPassed ==
  ASSUME MemberIInv, next <= Len(Order)
  PROVE  Current \notin Passed
BY GroupAssumption DEF MemberIInv, GroupTypeOK, Passed, Current

LEMMA PassedGrows ==
  ASSUME MemberIInv, next <= Len(Order), next' = next + 1
  PROVE  Passed' = Passed \cup {Current}
BY DEF MemberIInv, GroupTypeOK, Passed, Current

LEMMA PassedNobody == ASSUME next' = 1 PROVE Passed' = {}
BY DEF Passed

LEMMA DeletingNext == MemberIInv /\ Deleting /\ [GroupNext]_allVars => Deleting'
<1> SUFFICES ASSUME MemberIInv, Deleting, [GroupNext]_allVars PROVE Deleting'
  OBVIOUS
<1> USE GroupAssumption DEF groupVars, programVars
<1>1. ASSUME UNCHANGED <<phase, next, deleted, exists>> PROVE Deleting'
  BY <1>1 DEF Deleting, Passed
<1>2. CASE StartThread
  BY <1>1, <1>2 DEF StartThread
<1>3. CASE StorePointer
  BY <1>3 DEF StorePointer, At, GoOn, Deleting
<1>4. CASE StartFails \/ Started \/ AllJoined \/ JoinFails
  <2>1. /\ phase \in {"start", "join"} /\ phase' \in {"join", "destroy"} /\ next' = 1
        /\ UNCHANGED <<deleted, exists>>
    BY <1>4 DEF StartFails, Started, AllJoined, JoinFails, At, Enter, threadVars, objectVars
  <2> QED
    BY <2>1, PassedNobody DEF Deleting
<1>5. CASE JoinNext \/ JoinFirst \/ JoinAsked
  BY <1>1, <1>5 DEF JoinNext, JoinFirst, JoinAsked, AskJoinable, objectVars
<1>6. CASE JoinedNext
  BY <1>6 DEF JoinedNext, GoOn, objectVars, Deleting
<1>7. CASE Delete
  <2>1. /\ phase = "destroy" /\ phase' = phase /\ next <= Len(Order) /\ next' = next + 1
        /\ exists' = exists \ {Current} /\ deleted' = deleted \cup {Current}
    BY <1>7 DEF Delete, At, GoOn
  <2> QED
    BY <2>1, PassedGrows DEF Deleting
<1>8. CASE Leave
  <2>1. next = Len(Order) + 1 /\ deleted = Passed
    BY <1>8 DEF Leave, Deleting, MemberIInv, GroupTypeOK
  <2>2. deleted = Workers
    BY <2>1 DEF Passed, Workers
  <2> QED
    BY <1>8, <2>2 DEF Leave, Deleting, threadVars, objectVars
<1>9. ASSUME NEW a \in Actors, JoinStep(a), UNCHANGED <<runs, groupVars>> PROVE Deleting'
  BY <1>1, <1>9 DEF JoinStep, JoinGuard, JoinAttach, JoinReap, JoinClear, objectVars
<1>10. ASSUME NEW i \in Tids, RunJoins(i) PROVE Deleting'
  BY <1>1, <1>10 DEF RunJoins, JoinObject, JoinCall, objectVars
<1>11. ASSUME NEW i \in Tids, JoinDone(i), UNCHANGED <<runs, groupVars>> PROVE Deleting'
  BY <1>1, <1>11 DEF JoinDone, objectVars
<1>12. ASSUME NEW i \in Tids, RunReturns(i) PROVE Deleting'
  BY <1>1, <1>12 DEF RunReturns, RunEnds, objectVars
<1>13. CASE UNCHANGED allVars
  BY <1>1, <1>13 DEF allVars, threadVars, objectVars
<1> QED
  BY <1>2, <1>3, <1>4, <1>5, <1>6, <1>7, <1>8, <1>9, <1>10, <1>11, <1>12, <1>13
  DEF GroupNext, MainStep, RunGoesOn, Over, Actors, Workers

LEMMA GroupIInvInit == GroupInit => GroupIInv
BY MemberIInvInit, GroupAssumption DEF GroupIInv, GroupInit, ThreadInit, Deleting, Workers

LEMMA GroupIInvNext == GroupIInv /\ [GroupNext]_allVars => GroupIInv'
BY MemberIInvNext, DeletingNext DEF GroupIInv

(* The iterator of start(), join() and the destructor stays in the list,   *)
(* and every member keeps its type.                                        *)
THEOREM GroupTypeCorrect == GroupSpec => []GroupTypeOK
<1>1. GroupIInv => GroupTypeOK
  BY DEF GroupIInv, MemberIInv
<1> QED
  BY <1>1, GroupIInvInit, GroupIInvNext, PTL DEF GroupSpec

(* Whoever joins whom, and also when two threads join the same worker: a   *)
(* join of abstract_thread that returns normally has waited for the end of *)
(* the worker's run(), even when it has waited for a thread that got the   *)
(* id of the worker's thread since.                                        *)
THEOREM JoinsWait == GroupSpec => []JoinMeansEnded
<1>1. GroupIInv => JoinMeansEnded
  BY DEF GroupIInv, MemberIInv, CallsSound, Gone, Running, JoinMeansEnded
<1> QED
  BY <1>1, GroupIInvInit, GroupIInvNext, PTL DEF GroupSpec

-----------------------------------------------------------------------------
(* In a careful program the loop that joins, by hand or in the destructor, *)
(* leaves only joined workers behind it; the destructor deletes what has   *)
(* been joined, and each when nobody can be in a join on it: those who     *)
(* could have been deleted before.                                         *)
Reaping ==
  /\ \A w \in deleted : Gone(w)
  /\ phase = "join" => \A w \in Passed : Gone(w)
  /\ phase = "destroy" /\ ~joinsFirst => \A w \in Workers : Gone(w)
  /\ phase \in {"join", "destroy"} /\ pc[Main] \in Ended => Gone(Current)
  /\ \A a \in Actors : pc[a] # "idle" => arg[a] \notin deleted

(* A worker that is about to join another one, or does it, has not been    *)
(* passed by the loops of Main, and neither has the one it joins.          *)
LEMMA JoinerAhead ==
  ASSUME GroupIInv, Reaping, JoinsForward, phase \in {"join", "destroy"},
         NEW b \in Tids, os[b] = "running", NEW w \in targets[runs[b]]
  PROVE  /\ w \in Workers /\ w \notin Passed /\ w \notin deleted
         /\ next <= Len(Order) /\ w = Current => runs[b] = Current
<1> USE GroupAssumption DEF Workers
<1>0. runs[b] \in Workers /\ Has(b, runs[b]) /\ w \in Workers
  BY DEF GroupIInv, MemberIInv, GroupTypeOK, ThreadsOwned, Has
<1>1. next \in 1 .. Len(Order) + 1 /\ runs[b] \notin Passed
  BY <1>0 DEF GroupIInv, MemberIInv, GroupTypeOK, Reaping, Deleting, Gone
<1>2. PICK j \in DOMAIN Order : Order[j] = runs[b]
  BY <1>0
<1>3. PICK k \in DOMAIN Order : Order[k] = w
  BY <1>0
<1>4. j <= k
  BY <1>2, <1>3 DEF JoinsForward
<1>5. next <= j
  BY <1>1, <1>2 DEF Passed
<1>6. w \notin Passed
  BY <1>1, <1>2, <1>3, <1>4, <1>5 DEF Passed
<1>7. w \notin deleted
  BY <1>6 DEF GroupIInv, Deleting
<1> QED
  BY <1>0, <1>1, <1>2, <1>3, <1>4, <1>5, <1>6, <1>7 DEF Current

LEMMA CurrentNotDeleted ==
  ASSUME GroupIInv, phase \in {"join", "destroy"}, next <= Len(Order)
  PROVE  Current \notin deleted
BY CurrentNotPassed DEF GroupIInv, Deleting

(* Nobody but Main is at the end of a join on the current worker.          *)
LEMMA CurrentNotCleared ==
  ASSUME GroupIInv, Reaping, JoinsForward, phase \in {"join", "destroy"}, next <= Len(Order),
         NEW b \in Actors, pc[b] = "clear", arg[b] = Current
  PROVE  b = Main
<1> SUFFICES ASSUME b \in Tids PROVE FALSE
  BY DEF Actors
<1>1. os[b] = "running" /\ Current \in targets[runs[b]] /\ Gone(Current)
  BY DEF GroupIInv, MemberIInv, CallsSound
<1>2. runs[b] = Current
  BY <1>1, JoinerAhead
<1> QED
  BY <1>1, <1>2 DEF Gone, Has

(* Nobody but Main waits for the thread of the current worker.             *)
LEMMA CurrentUnattached ==
  ASSUME GroupIInv, Reaping, JoinsForward, phase \in {"join", "destroy"}, next <= Len(Order),
         pc[Main] # "wait", NEW i \in Tids, Has(i, Current)
  PROVE  joiner[i] = NoTid
<1> USE ThreadAssumption, GroupAssumption
<1> SUFFICES ASSUME joiner[i] # NoTid PROVE FALSE
  OBVIOUS
<1>1. Current \in Workers /\ next \in DOMAIN Order /\ runs[i] = Current /\ os[i] # "free"
  BY CurrentWorker DEF GroupIInv, Has
<1>2. PICK b \in Tids : b # i /\ pc[b] = "wait" /\ Before(arg[b], Current)
  BY <1>1 DEF GroupIInv, MemberIInv, JoinersWait, WaitsFor, Actors
<1>3. os[b] = "running" /\ arg[b] \in targets[runs[b]]
  BY <1>2 DEF GroupIInv, MemberIInv, CallsSound
<1>4. arg[b] \in Workers /\ arg[b] \notin Passed
  BY <1>3, JoinerAhead
<1>5. PICK k \in DOMAIN Order : Order[k] = arg[b]
  BY <1>4
<1>6. k <= next
  BY <1>1, <1>2, <1>5 DEF Before, Current
<1>7. k >= next
  BY <1>1, <1>4, <1>5 DEF Passed
<1>8. runs[b] = Current
  BY <1>1, <1>3, <1>5, <1>6, <1>7, JoinerAhead DEF Current
<1> QED
  BY <1>1, <1>2, <1>3, <1>8 DEF GroupIInv, MemberIInv, ThreadsOwned

(* A join by Main ends, or fails, only when the thread is gone.            *)
LEMMA MainJoinStep ==
  ASSUME GroupIInv, GroupIInv', Reaping, JoinsForward, phase \in {"join", "destroy"},
         JoinStep(Main), UNCHANGED <<runs, groupVars>>
  PROVE  pc'[Main] \in Ended => Gone(Current)'
<1> USE ThreadAssumption, GroupAssumption
    DEF GroupIInv, MemberIInv, GroupTypeOK, ThreadTypeOK, Workers, Actors, Ended, Step,
        groupVars, programVars
<1>1. /\ pc[Main] \in {"guard", "attach", "wait", "clear"} /\ arg' = arg
      /\ pc'[Main] # "skipped"
  BY DEF JoinStep, JoinGuard, JoinAttach, JoinReap, JoinClear
<1>2. arg[Main] = Current /\ next <= Len(Order) /\ Current \in Workers
  BY <1>1, CurrentWorker DEF Position
<1>3. Current' = Current
  BY DEF Current
<1>4. CASE pc'[Main] = "returned"
  BY <1>1, <1>2, <1>3, <1>4 DEF CallsSound
<1>5. CASE pc'[Main] = "threw"
  <2>1. JoinGuard(Main) \/ JoinAttach(Main)
    BY <1>5 DEF JoinStep, JoinReap, JoinClear
  <2>2. Gone(Current)
    <3>1. CASE JoinGuard(Main)
      <4>1. tid[Current] # Main
        BY <1>2
      <4>2. status[Current] = "not_a_thread"
        BY <1>2, <1>5, <3>1, <4>1 DEF JoinGuard
      <4> QED
        BY <1>2, <4>2, ThreadOf
    <3>2. CASE JoinAttach(Main)
      <4> DEFINE i == tid[Current]
      <4>1. pc[Main] = "attach" /\ ~(Alive(i) /\ Attachable(Main, i))
        BY <1>2, <1>5, <3>2 DEF JoinAttach
      <4>2. CASE ~Alive(i)
        BY <1>2, <4>2, ThreadOf DEF Alive
      <4>3. CASE Alive(i) /\ joiner[i] # NoTid
        <5>1. ~Has(i, Current)
          BY <1>2, <4>1, <4>3, CurrentUnattached DEF Alive
        <5> QED
          BY <1>2, <5>1, ThreadOf DEF Gone
      <4> QED
        BY <4>1, <4>2, <4>3 DEF Alive, Attachable
    <3> QED
      BY <2>1, <3>1, <3>2
  <2>3. \A j \in Tids : os'[j] # "free" => os[j] # "free"
    BY <2>1 DEF JoinGuard, JoinAttach, objectVars
  <2> QED
    BY <1>3, <2>2, <2>3, GoneStays DEF Gone, Has
<1> QED
  BY <1>1, <1>4, <1>5

(* A group that does not join in its destructor relies on its join by      *)
(* hand, which must not fail.  When no two workers join the same one, no   *)
(* join has an id that is out of date: while the thread of a worker is     *)
(* gone and its id is still there, the one who is about to reset it is the *)
(* only one in a join on the worker.                                       *)
HandJoining ==
  /\ \A w \in Workers : tid[w] # NoTid /\ Gone(w) =>
       \E a \in Actors : pc[a] = "clear" /\ arg[a] = w
  /\ \A i \in Tids : joiner[i] # NoTid => arg[joiner[i]] = runs[i]
  /\ phase = "join" => /\ pc[Main] # "threw"
                       /\ pc[Main] \in {"guard", "attach"} => tid[Current] # NoTid

ByHand == Careful /\ ~joinsFirst

(* The bodies and the flag do not change, and that start has thrown is not *)
(* forgotten: a program that is careless stays so.                         *)
LEMMA CarefulBefore ==
  ASSUME GroupTypeOK, [GroupNext]_allVars
  PROVE  joinsFirst' = joinsFirst /\ targets' = targets /\ (Careful' => Careful)
<1> SUFFICES targets' = targets /\ joinsFirst' = joinsFirst /\ (failed => failed')
  BY DEF Careful, JoinsForward, JoinsUnshared
<1> USE DEF groupVars, programVars
<1>1. CASE StartThread \/ StorePointer \/ StartFails \/ Started \/ Leave \/ AllJoined
  BY <1>1 DEF StartThread, StorePointer, StartFails, Started, Leave, AllJoined
<1>2. CASE JoinNext \/ JoinedNext \/ JoinFails \/ JoinFirst \/ Delete \/ JoinAsked
  BY <1>2 DEF JoinNext, AskJoinable, JoinedNext, JoinFails, JoinFirst, Delete, JoinAsked
<1>3. CASE UNCHANGED groupVars
  BY <1>3
<1>4. ASSUME NEW i \in Tids, RunJoins(i) \/ RunGoesOn(i) \/ RunReturns(i)
      PROVE  UNCHANGED groupVars
  BY <1>4 DEF RunJoins, RunGoesOn, RunReturns
<1> QED
  BY <1>1, <1>2, <1>3, <1>4 DEF GroupNext, MainStep, Over, allVars

LEMMA ReapingNext ==
  ASSUME Careful, Careful', ~joinsFirst => HandJoining, GroupIInv, GroupIInv', Reaping,
         [GroupNext]_allVars
  PROVE  Reaping'
<1> USE ThreadAssumption, GroupAssumption
    DEF GroupIInv, MemberIInv, GroupTypeOK, ThreadTypeOK, Workers, Actors, Ended, Step, programVars
<1>0. JoinsForward
  BY DEF Careful
<1>1. CASE StartThread \/ StorePointer
  <2>1. phase = "start" /\ phase' = "start" /\ deleted' = {}
    BY <1>1 DEF StartThread, StorePointer, At, GoOn, groupVars, Deleting
  <2> QED
    BY <2>1 DEF Reaping
<1>2. CASE StartFails \/ Started \/ AllJoined
  <2>1. /\ phase \in {"start", "join"} /\ pc[Main] = "idle"
        /\ UNCHANGED <<os, pc, arg, runs, deleted, joinsFirst>> /\ next' = 1
        /\ phase' \in {"join", "destroy"}
    BY <1>2 DEF StartFails, Started, AllJoined, At, Enter, Position, threadVars, joinVars
  <2>2. deleted = {} /\ Passed' = {}
    BY <2>1, PassedNobody DEF Deleting
  <2>3. phase' = "destroy" /\ ~joinsFirst' => \A w \in Workers : Gone(w)'
    <3>1. CASE StartFails
      BY <3>1 DEF StartFails, Careful
    <3>2. CASE Started
      BY <3>2 DEF Started, Enter
    <3>3. CASE AllJoined
      <4>1. Passed = Workers /\ phase = "join"
        BY <3>3 DEF AllJoined, Passed
      <4> QED
        BY <2>1, <4>1 DEF Reaping, Gone, Has
    <3> QED
      BY <1>2, <3>1, <3>2, <3>3
  <2> QED
    BY <2>1, <2>2, <2>3 DEF Reaping, Current
<1>3. CASE JoinNext \/ JoinFirst
  <2>1. /\ Current \in Workers /\ Current \notin deleted /\ phase \in {"join", "destroy"}
        /\ next <= Len(Order)
    BY <1>3, CurrentWorker, CurrentNotDeleted DEF JoinNext, JoinFirst, At
  <2>2. ~Joinable(Current) => Gone(Current)
    <3>1. tid[Current] = NoTid => Gone(Current)
      BY <2>1, ThreadOf
    <3>2. Current \notin exists => tid[Current] = NoTid
      BY <2>1 DEF Position, Known
    <3> QED
      BY <3>1, <3>2 DEF Joinable
  <2>3. /\ arg' = [arg EXCEPT ![Main] = Current]
        /\ \/ Joinable(Current) /\ pc' = [pc EXCEPT ![Main] = "asked"]
           \/ ~Joinable(Current) /\ pc' = [pc EXCEPT ![Main] = "skipped"]
        /\ UNCHANGED <<os, tid, runs, phase, next, deleted, joinsFirst>>
    BY <1>3 DEF JoinNext, JoinFirst, AskJoinable, objectVars, groupVars
  <2>4. Current' = Current /\ Passed' = Passed /\ \A w : Gone(w) => Gone(w)'
    BY <2>3 DEF Current, Passed, Gone, Has
  <2>5. pc'[Main] \in Ended => Gone(Current)'
    BY <2>2, <2>3, <2>4 DEF Gone, Has
  <2>6. \A a \in Actors : pc'[a] # "idle" => arg'[a] \notin deleted
    BY <2>1, <2>3 DEF Reaping
  <2> QED
    BY <2>3, <2>4, <2>5, <2>6 DEF Reaping
<1>4. CASE JoinedNext
  <2>1. /\ phase = "join" /\ pc[Main] \in {"returned", "skipped"} /\ next <= Len(Order)
        /\ next' = next + 1 /\ pc' = [pc EXCEPT ![Main] = "idle"]
        /\ UNCHANGED <<os, runs, arg, deleted, phase>>
    BY <1>4 DEF JoinedNext, GoOn, Position
  <2>2. Passed' = Passed \cup {Current} /\ Gone(Current)
    BY <2>1, PassedGrows DEF Reaping
  <2> QED
    BY <2>1, <2>2 DEF Reaping, Gone, Has
<1>5. CASE JoinFails
  <2>1. joinsFirst
    BY <1>5 DEF JoinFails, HandJoining
  <2>2. /\ phase = "join" /\ phase' = "destroy" /\ pc' = [pc EXCEPT ![Main] = "idle"]
        /\ UNCHANGED <<os, runs, arg, deleted, joinsFirst>>
    BY <1>5 DEF JoinFails, Enter
  <2> QED
    BY <2>1, <2>2 DEF Reaping, Gone, Has
<1>6. CASE JoinAsked
  <2>1. /\ phase \in {"join", "destroy"} /\ next <= Len(Order) /\ arg[Main] = Current
        /\ Current \in Workers /\ pc[Main] = "asked"
    BY <1>6, CurrentWorker DEF JoinAsked, Position
  <2>2. PICK label \in {"returned", "guard"} :
          pc' = [pc EXCEPT ![Main] = label] /\ (label = "returned" => tid[Current] = NoTid)
    BY <1>6, <2>1 DEF JoinAsked, Entry
  <2>3. UNCHANGED <<os, arg, runs, phase, next, deleted, joinsFirst>>
    BY <1>6 DEF JoinAsked, groupVars
  <2>4. Current' = Current /\ Passed' = Passed /\ \A w : Gone(w) => Gone(w)'
    BY <2>3 DEF Current, Passed, Gone, Has
  <2>5. pc'[Main] \in Ended => Gone(Current)
    BY <2>1, <2>2, ThreadOf
  <2> QED
    BY <2>1, <2>2, <2>3, <2>4, <2>5 DEF Reaping, Gone, Has, Current
<1>7. CASE Delete
  <2>1. /\ Current \in Workers /\ Current \notin deleted /\ phase = "destroy"
        /\ Gone(Current) /\ next <= Len(Order)
    BY <1>7, CurrentWorker, CurrentNotDeleted DEF Delete, At, Reaping
  <2>2. /\ deleted' = deleted \cup {Current} /\ next' = next + 1
        /\ pc' = [pc EXCEPT ![Main] = "idle"]
        /\ UNCHANGED <<os, arg, runs, phase, joinsFirst>>
    BY <1>7 DEF Delete, GoOn
  <2>3. ASSUME NEW a \in Actors, pc'[a] # "idle" PROVE arg'[a] \notin deleted'
    <3>1. a \in Tids /\ os[a] = "running" /\ arg[a] \in targets[runs[a]]
      BY <2>2, <2>3 DEF CallsSound
    <3>2. runs[a] # Current
      BY <2>1, <3>1 DEF Gone, Has
    <3> QED
      BY <1>0, <2>1, <2>2, <3>1, <3>2, JoinerAhead
  <2> QED
    BY <2>1, <2>2, <2>3 DEF Reaping, Gone, Has
<1>8. CASE Leave
  <2>1. pc[Main] = "idle"
    BY <1>8 DEF Leave, Position
  <2>2. deleted = Workers
    <3>1. next = Len(Order) + 1 /\ deleted = Passed
      BY <1>8 DEF Leave, Deleting
    <3> QED
      BY <3>1 DEF Passed
  <2> QED
    BY <1>8, <2>1, <2>2 DEF Leave, Reaping, Gone, Has, threadVars, joinVars
<1>9. ASSUME NEW a \in Actors, JoinStep(a), UNCHANGED <<runs, groupVars>> PROVE Reaping'
  <2>1. \A i \in Tids : os'[i] # "free" => os[i] # "free"
    BY <1>9 DEF JoinStep, JoinGuard, JoinAttach, JoinReap, JoinClear, objectVars
  <2>2. \A w : Gone(w) => Gone(w)'
    BY <1>9, <2>1, GoneStays
  <2>3. /\ UNCHANGED <<arg, runs, phase, next, deleted, joinsFirst>> /\ pc[a] # "idle"
        /\ \A b \in Actors : b # a => pc'[b] = pc[b]
    BY <1>9 DEF JoinStep, JoinGuard, JoinAttach, JoinReap, JoinClear, objectVars, groupVars
  <2>4. Current' = Current /\ Passed' = Passed
    BY <2>3 DEF Current, Passed
  <2>5. phase \in {"join", "destroy"} /\ pc'[Main] \in Ended => Gone(Current)'
    <3>1. CASE a = Main
      BY <1>0, <1>9, <3>1, MainJoinStep
    <3>2. CASE a # Main
      BY <2>2, <2>3, <2>4, <3>2 DEF Reaping, Gone, Has
    <3> QED
      BY <3>1, <3>2
  <2>6. \A b \in Actors : pc'[b] # "idle" => arg'[b] \notin deleted'
    BY <2>3 DEF Reaping
  <2> QED
    BY <2>2, <2>3, <2>4, <2>5, <2>6 DEF Reaping
<1>10. ASSUME NEW i \in Tids, RunJoins(i) PROVE Reaping'
  <2>1. PICK v \in targets[runs[i]] : JoinObject(i, v)
    BY <1>10 DEF RunJoins
  <2>2. /\ os[i] = "running" /\ arg' = [arg EXCEPT ![i] = v]
        /\ \A b \in Actors : b # i => pc'[b] = pc[b]
        /\ UNCHANGED <<os, runs, phase, next, deleted, joinsFirst>>
    BY <1>10, <2>1 DEF RunJoins, JoinObject, JoinCall, objectVars, groupVars
  <2>3. v \notin deleted
    <3>1. CASE phase \in {"join", "destroy"}
      BY <1>0, <2>1, <2>2, <3>1, JoinerAhead
    <3>2. CASE phase = "done"
      <4>1. Has(i, runs[i]) /\ runs[i] \in deleted
        BY <2>2, <3>2 DEF Has, ThreadsOwned, Deleting
      <4> QED
        BY <4>1 DEF Reaping, Gone
    <3> QED
      BY <3>1, <3>2 DEF Deleting
  <2>4. Current' = Current /\ Passed' = Passed /\ \A w : Gone(w) => Gone(w)'
    BY <2>2 DEF Current, Passed, Gone, Has
  <2>5. \A b \in Actors : pc'[b] # "idle" => arg'[b] \notin deleted'
    BY <2>2, <2>3 DEF Reaping
  <2>6. pc'[Main] = pc[Main]
    BY <2>2
  <2> QED
    BY <2>2, <2>4, <2>5, <2>6 DEF Reaping, Gone, Has
<1>11. ASSUME NEW i \in Tids, JoinDone(i), UNCHANGED <<runs, groupVars>> PROVE Reaping'
  BY <1>11 DEF JoinDone, objectVars, groupVars, Reaping, Gone, Has, Current, Passed
<1>12. ASSUME NEW i \in Tids, RunReturns(i) PROVE Reaping'
  <2>1. /\ os[i] = "running" /\ os' = [os EXCEPT ![i] = "ended"]
        /\ UNCHANGED <<pc, arg, runs, phase, next, deleted, joinsFirst>>
    BY <1>12 DEF RunReturns, RunEnds, joinVars, groupVars
  <2>2. Current' = Current /\ Passed' = Passed /\ \A w : Gone(w) => Gone(w)'
    BY <2>1, GoneStays DEF Current, Passed
  <2> QED
    BY <2>1, <2>2 DEF Reaping, Gone, Has
<1>13. CASE UNCHANGED allVars
  BY <1>13 DEF allVars, threadVars, joinVars, groupVars, Reaping, Gone, Has, Current, Passed
<1> QED
  BY <1>1, <1>2, <1>3, <1>4, <1>5, <1>6, <1>7, <1>8, <1>9, <1>10, <1>11, <1>12, <1>13
  DEF GroupNext, MainStep, RunGoesOn, Over

(* Who attaches himself to a thread by an id that is out of date has got   *)
(* into a join together with the one who is about to reset it: none does.  *)
LEMMA OwnJoin ==
  ASSUME ByHand, GroupIInv, Reaping, HandJoining, NEW a \in Actors, pc[a] = "attach"
  PROVE  tid[arg[a]] # NoTid => ~Gone(arg[a])
<1> USE ThreadAssumption, GroupAssumption DEF Workers
<1> SUFFICES ASSUME tid[arg[a]] # NoTid, Gone(arg[a]) PROVE FALSE
  OBVIOUS
<1>1. arg[a] \in Workers
  BY DEF GroupIInv, MemberIInv, GroupTypeOK, CallsSound, Joining, Known, ThreadTypeOK
<1>2. PICK c \in Actors : pc[c] = "clear" /\ arg[c] = arg[a]
  BY <1>1 DEF HandJoining
<1>3. c # a /\ JoinsForward /\ JoinsUnshared
  BY <1>2 DEF ByHand, Careful
<1>4. \A b \in Tids : pc[b] # "idle" =>
        os[b] = "running" /\ arg[b] \in targets[runs[b]] /\ runs[b] \in Workers /\ tid[runs[b]] = b
  BY DEF GroupIInv, MemberIInv, CallsSound, ThreadsOwned
<1>5. \A b \in Tids : pc[b] # "idle" => runs[b] # arg[a]
  BY <1>4 DEF Gone, Has
<1>6. pc[Main] # "idle" => phase \in {"join", "destroy"} /\ next <= Len(Order) /\ arg[Main] = Current
  BY DEF GroupIInv, MemberIInv, Position
<1>7. CASE a \in Tids /\ c \in Tids
  <2>1. runs[a] # runs[c]
    BY <1>2, <1>3, <1>4, <1>7
  <2> QED
    BY <1>2, <1>3, <1>4, <1>5, <1>7, <2>1 DEF JoinsUnshared
<1>8. CASE a = Main
  BY <1>2, <1>3, <1>6, <1>8, CurrentNotCleared
<1>9. CASE c = Main /\ a \in Tids
  <2>1. arg[a] = Current /\ phase \in {"join", "destroy"} /\ next <= Len(Order)
    BY <1>2, <1>6, <1>9
  <2> QED
    BY <1>3, <1>4, <1>5, <1>9, <2>1, JoinerAhead
<1> QED
  BY <1>7, <1>8, <1>9 DEF Actors

(* The join of Main by hand.                                               *)
LEMMA HandJoinStep ==
  ASSUME ByHand, GroupIInv, Reaping, HandJoining, phase = "join", JoinStep(Main)
  PROVE  pc'[Main] # "threw" /\ (pc'[Main] \in {"guard", "attach"} => tid'[Current] # NoTid)
<1> USE ThreadAssumption, GroupAssumption
    DEF GroupIInv, MemberIInv, GroupTypeOK, ThreadTypeOK, Workers, Actors, Ended, Step
<1>1. pc[Main] \in {"guard", "attach", "wait", "clear"} /\ JoinsForward
  BY DEF JoinStep, JoinGuard, JoinAttach, JoinReap, JoinClear, ByHand, Careful
<1>2. arg[Main] = Current /\ next <= Len(Order) /\ Current \in Workers
  BY <1>1, CurrentWorker DEF Position
<1>3. ASSUME pc[Main] \in {"guard", "attach"} PROVE tid[Current] # NoTid /\ ~Gone(Current)
  <2>1. tid[Current] # NoTid
    BY <1>3 DEF HandJoining
  <2>2. ASSUME Gone(Current) PROVE FALSE
    <3>1. PICK b \in Actors : pc[b] = "clear" /\ arg[b] = Current
      BY <1>2, <2>1, <2>2 DEF HandJoining
    <3>2. b = Main
      BY <1>1, <1>2, <3>1, CurrentNotCleared
    <3> QED
      BY <1>3, <3>1, <3>2
  <2> QED
    BY <2>1, <2>2
<1>4. CASE JoinGuard(Main)
  <2>1. tid[Current] # NoTid /\ tid[Current] # Main /\ status[Current] # "not_a_thread"
    BY <1>2, <1>3, <1>4, ThreadOf DEF JoinGuard
  <2> QED
    BY <1>2, <1>4, <2>1 DEF JoinGuard, objectVars
<1>5. CASE JoinAttach(Main)
  <2>1. pc[Main] = "attach"
    BY <1>5 DEF JoinAttach
  <2>2. PICK i \in Tids : Has(i, Current)
    BY <1>3, <2>1 DEF Gone
  <2>3. tid[Current] = i
    BY <1>2, <2>2, ThreadOf
  <2>4. Alive(i) /\ Attachable(Main, i)
    BY <1>1, <1>2, <2>1, <2>2, CurrentUnattached DEF Alive, Attachable, Has
  <2> QED
    BY <1>2, <1>5, <2>3, <2>4 DEF JoinAttach
<1>6. CASE JoinReap(Main) \/ JoinClear(Main)
  BY <1>6 DEF JoinReap, JoinClear
<1> QED
  BY <1>4, <1>5, <1>6 DEF JoinStep

LEMMA HandJoiningNext ==
  ASSUME ByHand, ByHand', GroupIInv, GroupIInv', Reaping, HandJoining, [GroupNext]_allVars
  PROVE  HandJoining'
<1>0. \A a \in Actors : pc[a] = "attach" /\ tid[arg[a]] # NoTid => ~Gone(arg[a])
  BY OwnJoin
<1> USE ThreadAssumption, GroupAssumption
    DEF GroupIInv, MemberIInv, GroupTypeOK, ThreadTypeOK, Workers, Actors, Ended, Step, programVars
(* Steps that leave the threads and the ids alone and join nobody.         *)
<1>1. ASSUME UNCHANGED <<os, tid, runs, joiner>>,
             \A a \in Actors : pc[a] \in {"wait", "clear"} => pc'[a] = pc[a] /\ arg'[a] = arg[a],
             phase' = "join" => /\ pc'[Main] # "threw"
                                /\ pc'[Main] \in {"guard", "attach"} => tid[Current'] # NoTid
      PROVE  HandJoining'
  <2>1. ASSUME NEW w \in Workers, tid'[w] # NoTid, Gone(w)'
        PROVE  \E a \in Actors : pc'[a] = "clear" /\ arg'[a] = w
    BY <1>1, <2>1 DEF HandJoining, Gone, Has
  <2>2. ASSUME NEW i \in Tids, joiner'[i] # NoTid PROVE arg'[joiner'[i]] = runs'[i]
    <3>1. arg[joiner[i]] = runs[i] /\ pc[joiner[i]] = "wait" /\ joiner[i] \in Actors
      BY <1>1, <2>2 DEF HandJoining, JoinersWait, WaitsFor
    <3> QED
      BY <1>1, <3>1
  <2> QED
    BY <1>1, <2>1, <2>2 DEF HandJoining
<1>2. CASE StartThread
  <2>1. /\ Current \in Workers /\ tid[Current] = NoTid /\ phase = "start"
        /\ UNCHANGED <<joiner, pc, arg, phase, next>>
    BY <1>2, CurrentWorker DEF StartThread, At, joinVars, groupVars
  <2>2. PICK i \in Tids :
          /\ os[i] = "free" /\ os' = [os EXCEPT ![i] = "running"]
          /\ runs' = [runs EXCEPT ![i] = Current] /\ tid' = [tid EXCEPT ![Current] = i]
    BY <1>2, <2>1 DEF StartThread, Launch
  <2>3. ASSUME NEW w \in Workers, tid'[w] # NoTid, Gone(w)'
        PROVE  \E a \in Actors : pc'[a] = "clear" /\ arg'[a] = w
    <3>1. w # Current
      BY <2>1, <2>2, <2>3 DEF Gone, Has
    <3>2. Gone(w) /\ tid[w] # NoTid
      BY <2>1, <2>2, <2>3, <3>1 DEF Gone, Has
    <3> QED
      BY <2>1, <3>2 DEF HandJoining
  <2>4. ASSUME NEW j \in Tids, joiner'[j] # NoTid PROVE arg'[joiner'[j]] = runs'[j]
    <3>1. j # i /\ arg[joiner[j]] = runs[j]
      BY <2>1, <2>2, <2>4 DEF HandJoining, JoinersWait, WaitsFor
    <3> QED
      BY <2>1, <2>2, <3>1
  <2> QED
    BY <2>1, <2>3, <2>4 DEF HandJoining
<1>3. CASE StorePointer \/ StartFails \/ Started \/ AllJoined \/ Leave
  <2>1. UNCHANGED <<os, tid, runs, joiner, pc, arg>> /\ phase \in {"start", "join", "destroy"}
    BY <1>3 DEF StorePointer, StartFails, Started, AllJoined, Leave, At, threadVars, objectVars, joinVars
  <2>2. pc[Main] = "idle"
    BY <1>3 DEF StorePointer, StartFails, Started, AllJoined, Leave, At, Position
  <2> QED
    BY <1>1, <2>1, <2>2
<1>4. CASE JoinNext \/ JoinFirst \/ JoinedNext \/ JoinFails \/ Delete
  <2>1. /\ UNCHANGED <<os, tid, runs, joiner>> /\ pc[Main] \notin {"wait", "clear"}
        /\ pc'[Main] \in {"asked", "skipped", "idle"}
        /\ \A a \in Tids : pc'[a] = pc[a] /\ arg'[a] = arg[a]
    BY <1>4 DEF JoinNext, JoinFirst, JoinedNext, JoinFails, Delete, AskJoinable, objectVars
  <2> QED
    BY <1>1, <2>1
<1>5. CASE JoinAsked
  <2>1. /\ UNCHANGED <<os, tid, runs, joiner, arg, next>> /\ pc[Main] = "asked"
        /\ \A a \in Tids : pc'[a] = pc[a]
        /\ arg[Main] = Current
    BY <1>5 DEF JoinAsked, objectVars, groupVars, Position
  <2>2. pc'[Main] \in {"returned", "guard"} /\ (pc'[Main] = "guard" => tid[Current] # NoTid)
    BY <1>5, <2>1 DEF JoinAsked, Entry
  <2> QED
    BY <1>1, <2>1, <2>2 DEF Current
<1>6. ASSUME NEW a \in Actors, JoinStep(a), UNCHANGED <<runs, groupVars>> PROVE HandJoining'
  <2>0. /\ arg' = arg /\ UNCHANGED <<runs, phase, next>> /\ Current' = Current
        /\ \A b \in Actors : b # a => pc'[b] = pc[b]
    BY <1>6 DEF JoinStep, JoinGuard, JoinAttach, JoinReap, JoinClear, groupVars, Current
  <2>1. phase' = "join" => /\ pc'[Main] # "threw"
                           /\ pc'[Main] \in {"guard", "attach"} => tid'[Current'] # NoTid
    <3>1. CASE a = Main
      BY <1>6, <2>0, <3>1, HandJoinStep
    <3>2. CASE a # Main
      <4>1. ASSUME phase = "join", pc[Main] \in {"guard", "attach"} PROVE tid'[Current] # NoTid
        <5>1. tid[Current] # NoTid /\ next <= Len(Order) /\ Current \in Workers
          BY <4>1, CurrentWorker DEF HandJoining, Position
        <5>2. JoinClear(a) => arg[a] # Current
          BY <3>2, <4>1, <5>1, CurrentNotCleared DEF JoinClear, ByHand, Careful
        <5> QED
          BY <1>6, <5>1, <5>2 DEF JoinStep, JoinGuard, JoinAttach, JoinReap, JoinClear, objectVars
      <4> QED
        BY <2>0, <3>2, <4>1 DEF HandJoining
    <3> QED
      BY <3>1, <3>2
  <2>2. CASE JoinGuard(a)
    BY <1>1, <2>0, <2>1, <2>2 DEF JoinGuard, objectVars
  <2>3. CASE JoinAttach(a)
    <3>1. pc[a] = "attach" /\ UNCHANGED <<os, tid>>
      BY <2>3 DEF JoinAttach, objectVars
    <3>2. CASE UNCHANGED joiner
      BY <1>1, <2>0, <2>1, <3>1, <3>2
    <3>3. CASE joiner' # joiner
      <4> DEFINE i == tid[arg[a]]
      <4>1. Alive(i) /\ joiner' = [joiner EXCEPT ![i] = a] /\ arg[a] \in Workers
        BY <2>3, <3>1, <3>3 DEF JoinAttach, CallsSound, Joining, Known
      <4>2. runs[i] = arg[a]
        <5>1. ~Gone(arg[a])
          <6>1. tid[arg[a]] # NoTid
            BY <4>1 DEF Alive
          <6> QED
            BY <1>0, <3>1, <6>1
        <5> QED
          BY <4>1, <5>1, ThreadOf DEF Gone, Has
      <4>3. \A w \in Workers : tid'[w] # NoTid /\ Gone(w)' =>
              \E b \in Actors : pc'[b] = "clear" /\ arg'[b] = w
        BY <2>0, <3>1 DEF HandJoining, Gone, Has
      <4>4. \A j \in Tids : joiner'[j] # NoTid => arg'[joiner'[j]] = runs'[j]
        BY <2>0, <4>1, <4>2 DEF HandJoining
      <4> QED
        BY <2>1, <4>3, <4>4 DEF HandJoining
    <3> QED
      BY <3>2, <3>3
  <2>4. CASE JoinReap(a)
    <3>1. PICK i \in Tids : /\ joiner[i] = a /\ os' = [os EXCEPT ![i] = "free"]
                            /\ joiner' = [joiner EXCEPT ![i] = NoTid]
      BY <2>4 DEF JoinReap
    <3>2. pc[a] = "wait" /\ pc'[a] = "clear" /\ UNCHANGED tid
      BY <2>4 DEF JoinReap
    <3>3. arg[a] = runs[i]
      BY <3>1 DEF HandJoining
    <3>4. ASSUME NEW w \in Workers, tid'[w] # NoTid, Gone(w)'
          PROVE  \E b \in Actors : pc'[b] = "clear" /\ arg'[b] = w
      <4>1. CASE w = runs[i]
        BY <2>0, <3>2, <3>3, <4>1
      <4>2. CASE w # runs[i]
        <5>1. Gone(w) /\ tid[w] # NoTid
          BY <2>0, <3>1, <3>2, <3>4, <4>2 DEF Gone, Has
        <5>2. PICK b \in Actors : pc[b] = "clear" /\ arg[b] = w
          BY <5>1 DEF HandJoining
        <5> QED
          BY <2>0, <3>2, <5>2
      <4> QED
        BY <4>1, <4>2
    <3>5. \A j \in Tids : joiner'[j] # NoTid => arg'[joiner'[j]] = runs'[j]
      BY <2>0, <3>1 DEF HandJoining
    <3> QED
      BY <2>1, <3>4, <3>5 DEF HandJoining
  <2>5. CASE JoinClear(a)
    <3>1. /\ tid' = [tid EXCEPT ![arg[a]] = NoTid] /\ arg[a] \in Workers
          /\ UNCHANGED <<os, joiner>>
      BY <2>5 DEF JoinClear, CallsSound, Joining, Known
    <3>2. ASSUME NEW w \in Workers, tid'[w] # NoTid, Gone(w)'
          PROVE  \E b \in Actors : pc'[b] = "clear" /\ arg'[b] = w
      <4>1. w # arg[a] /\ tid[w] # NoTid /\ Gone(w)
        BY <2>0, <3>1, <3>2 DEF Gone, Has
      <4>2. PICK b \in Actors : pc[b] = "clear" /\ arg[b] = w
        BY <4>1 DEF HandJoining
      <4> QED
        BY <2>0, <4>1, <4>2
    <3>3. \A j \in Tids : joiner'[j] # NoTid => arg'[joiner'[j]] = runs'[j]
      BY <2>0, <3>1 DEF HandJoining
    <3> QED
      BY <2>1, <3>2, <3>3 DEF HandJoining
  <2> QED
    BY <1>6, <2>2, <2>3, <2>4, <2>5 DEF JoinStep
<1>7. ASSUME NEW i \in Tids, RunJoins(i) \/ (JoinDone(i) /\ UNCHANGED <<runs, groupVars>>)
      PROVE  HandJoining'
  <2>1. /\ UNCHANGED <<os, tid, runs, joiner, phase, next>> /\ pc[i] \notin {"wait", "clear"}
        /\ \A b \in Actors : b # i => pc'[b] = pc[b] /\ arg'[b] = arg[b]
    BY <1>7 DEF RunJoins, JoinObject, JoinCall, JoinDone, objectVars, groupVars
  <2>2. pc'[Main] = pc[Main] /\ Current' = Current
    BY <2>1 DEF Current
  <2> QED
    BY <1>1, <2>1, <2>2 DEF HandJoining
<1>8. ASSUME NEW i \in Tids, RunReturns(i) PROVE HandJoining'
  <2>1. /\ os[i] = "running" /\ os' = [os EXCEPT ![i] = "ended"]
        /\ UNCHANGED <<tid, runs, joiner, pc, arg, phase, next>>
    BY <1>8 DEF RunReturns, RunEnds, objectVars, joinVars, groupVars
  <2>2. \A w : Gone(w)' => Gone(w)
    BY <2>1 DEF Gone, Has
  <2>3. \A w \in Workers : tid'[w] # NoTid /\ Gone(w)' =>
          \E b \in Actors : pc'[b] = "clear" /\ arg'[b] = w
    BY <2>1, <2>2 DEF HandJoining
  <2> QED
    BY <2>1, <2>3 DEF HandJoining, Current
<1>9. CASE UNCHANGED allVars
  BY <1>9 DEF allVars, threadVars, objectVars, joinVars, groupVars, HandJoining, Gone, Has, Current
<1> QED
  BY <1>2, <1>3, <1>4, <1>5, <1>6, <1>7, <1>8, <1>9 DEF GroupNext, MainStep, RunGoesOn, Over

ReapingIInv == GroupIInv /\ (Careful => Reaping) /\ (ByHand => HandJoining)

LEMMA ReapingIInvInit == GroupInit => ReapingIInv
<1> SUFFICES ASSUME GroupInit PROVE Reaping /\ HandJoining
  BY GroupIInvInit DEF ReapingIInv
<1> USE ThreadAssumption, GroupAssumption DEF GroupInit, ThreadInit, Actors, Workers
<1>1. Reaping
  BY DEF Reaping
<1>2. HandJoining
  BY DEF HandJoining
<1> QED
  BY <1>1, <1>2

LEMMA ReapingIInvNext == ReapingIInv /\ [GroupNext]_allVars => ReapingIInv'
<1> SUFFICES ASSUME ReapingIInv, [GroupNext]_allVars PROVE ReapingIInv'
  OBVIOUS
<1>1. GroupIInv /\ GroupIInv'
  BY GroupIInvNext DEF ReapingIInv
<1>2. joinsFirst' = joinsFirst /\ (Careful' => Careful)
  BY <1>1, CarefulBefore DEF GroupIInv, MemberIInv
<1>3. Careful' => Reaping'
  BY <1>1, <1>2, ReapingNext DEF ReapingIInv, ByHand
<1>4. ByHand' => HandJoining'
  BY <1>1, <1>2, HandJoiningNext DEF ReapingIInv, ByHand
<1> QED
  BY <1>1, <1>3, <1>4 DEF ReapingIInv

(* A worker is deleted only when its run() has ended and nobody is in a    *)
(* join on it, now or later, although joins may fail, workers join each    *)
(* other and ids are used again, provided that none joins a worker that    *)
(* was added before it: in a group that joins in its destructor, also when *)
(* its start fails half-way, and in one that is joined by hand, unless its *)
(* start fails or two workers join the same third one.                     *)
THEOREM NothingFreedInUse == GroupSpec => []NoUseAfterFree
<1>1. ReapingIInv => NoUseAfterFree
  BY DEF ReapingIInv, Reaping, Gone, Running, NoUseAfterFree
<1> QED
  BY <1>1, ReapingIInvInit, ReapingIInvNext, PTL DEF GroupSpec

(* And when the scope of the group is left every thread has been joined.   *)
THEOREM EveryThreadReaped == GroupSpec => []AllReaped
<1>1. ReapingIInv => AllReaped
  BY DEF ReapingIInv, GroupIInv, MemberIInv, ThreadsOwned, Deleting, Reaping, Gone, Has, AllReaped
<1> QED
  BY <1>1, ReapingIInvInit, ReapingIInvNext, PTL DEF GroupSpec

-----------------------------------------------------------------------------
(* The refinement: the life of a worker, as ForkJoin sees it, changes in   *)
(* four actions, and of one worker at a time.                              *)
LEMMA LifeChange ==
  ASSUME NEW w \in Workers, NEW stage, Life(w)' = stage,
         \A v \in Workers : v # w => Life(v)' = Life(v)
  PROVE  Lives' = [Lives EXCEPT ![w] = stage]
BY DEF Lives

(* It is settled by the worker's thread, pointer and id.                   *)
LEMMA LifeStays ==
  ASSUME NEW w, w \in deleted <=> w \in deleted',
         \/ w \in deleted
         \/ /\ \A i \in Tids : Has(i, w) <=> Has(i, w)'
            /\ \A i \in Tids : Has(i, w) => (os[i] = "running" <=> os'[i] = "running")
            /\ (w \in exists \/ tid[w] # NoTid) <=> (w \in exists' \/ tid'[w] # NoTid)
  PROVE  Life(w)' = Life(w)
BY DEF Life, Running, Gone

LEMMA StepIsForked ==
  ASSUME ReapingIInv, [GroupNext]_allVars
  PROVE  [Forked!ForkNext]_(Forked!forkVars)
<1> USE ThreadAssumption, GroupAssumption
    DEF ReapingIInv, GroupIInv, MemberIInv, GroupTypeOK, ThreadTypeOK, Workers, Actors, Ended,
        Step, Known, programVars, groupVars
<1> DEFINE Refined == [Forked!ForkNext]_(Forked!forkVars)
(* Steps that ForkJoin does not see.                                       *)
<1>1. ASSUME UNCHANGED <<failed, programVars, phase>>, \A v \in Workers : Life(v)' = Life(v)
      PROVE  Refined
  <2>1. Lives' = Lives
    BY <1>1 DEF Lives
  <2>2. Careful' = Careful /\ UNCHANGED (phase # "done")
    BY <1>1 DEF Careful, JoinsForward, JoinsUnshared
  <2> QED
    BY <2>1, <2>2 DEF Forked!forkVars
<1>2. ASSUME UNCHANGED <<os, runs, exists, tid, deleted>> PROVE \A v \in Workers : Life(v)' = Life(v)
  BY <1>2, LifeStays DEF Has
<1>3. ASSUME NEW w \in Workers, UNCHANGED <<failed, programVars, phase>>,
             \A v \in Workers : v # w => Life(v)' = Life(v),
             \/ phase # "done" /\ Life(w) = "new" /\ Life(w)' = "running"
             \/ /\ phase # "done" /\ Life(w) # "deleted" /\ Life(w)' = "deleted"
                /\ Careful => Life(w) \in {"new", "joined"}
             \/ Life(w) = "running" /\ Life(w)' = "ended"
             \/ Life(w) = "ended" /\ Life(w)' = "joined"
      PROVE  Refined
  <2>1. Lives' = [Lives EXCEPT ![w] = Life(w)'] /\ Lives[w] = Life(w)
    BY <1>3, LifeChange DEF Lives
  <2>2. Careful' = Careful /\ UNCHANGED (phase # "done")
    BY <1>3 DEF Careful, JoinsForward, JoinsUnshared
  <2>3. Forked!Start(w) \/ Forked!End(w) \/ Forked!Join(w) \/ Forked!Delete(w)
    BY <1>3, <2>1, <2>2 DEF Forked!Start, Forked!End, Forked!Join, Forked!Delete, Forked!Become
  <2> QED
    BY <2>3 DEF Forked!ForkNext
<1>5. CASE StartThread
  <2>1. /\ Current \in Workers /\ Current \notin Known /\ tid[Current] = NoTid
        /\ UNCHANGED <<exists, deleted, failed, programVars, phase>> /\ phase # "done"
    BY <1>5, CurrentWorker DEF StartThread, At, Position, Current
  <2>2. PICK i \in Tids :
          /\ os[i] = "free" /\ os' = [os EXCEPT ![i] = "running"]
          /\ runs' = [runs EXCEPT ![i] = Current] /\ tid' = [tid EXCEPT ![Current] = i]
    BY <1>5, <2>1 DEF StartThread, Launch
  <2>3. PICK w \in Workers : w = Current
    BY <2>1
  <2>4. Gone(w) /\ Has(i, w)'
    BY <2>1, <2>2, <2>3, ThreadOf DEF Has
  <2>5. Life(w) = "new" /\ Life(w)' = "running"
    BY <2>1, <2>2, <2>3, <2>4 DEF Life, Running, Gone
  <2>6. ASSUME NEW v \in Workers, v # w PROVE Life(v)' = Life(v)
    <3>1. \A j \in Tids : Has(j, v) <=> Has(j, v)'
      BY <2>2, <2>3, <2>6 DEF Has
    <3>2. \A j \in Tids : Has(j, v) => os'[j] = os[j]
      BY <2>2 DEF Has
    <3>3. tid'[v] = tid[v] /\ UNCHANGED <<exists, deleted>>
      BY <2>1, <2>2, <2>3, <2>6
    <3> QED
      BY <3>1, <3>2, <3>3, LifeStays
  <2> QED
    BY <1>3, <2>1, <2>5, <2>6
(* The id of the thread is known before the pointer.                       *)
<1>6. CASE StorePointer
  <2>1. /\ tid[Current] # NoTid /\ exists' = exists \cup {Current}
        /\ UNCHANGED <<os, runs, tid, deleted, failed, programVars, phase>>
    BY <1>6 DEF StorePointer, At, GoOn
  <2>2. \A v \in Workers : Life(v)' = Life(v)
    BY <2>1, LifeStays DEF Has
  <2> QED
    BY <1>1, <2>1, <2>2
<1>7. CASE Started \/ AllJoined \/ JoinFails
  <2>1. /\ UNCHANGED <<os, runs, exists, tid, deleted, failed, programVars>>
        /\ phase # "done" /\ phase' # "done"
    BY <1>7 DEF Started, AllJoined, JoinFails, Enter, threadVars, objectVars
  <2>2. Lives' = Lives
    BY <1>2, <2>1 DEF Lives
  <2> QED
    BY <2>1, <2>2 DEF Forked!forkVars, Careful, JoinsForward, JoinsUnshared
<1>8. CASE StartFails
  <2>1. /\ UNCHANGED <<os, runs, exists, tid, deleted, programVars>> /\ failed' = TRUE
        /\ phase # "done" /\ phase' # "done"
    BY <1>8 DEF StartFails, At, Enter, threadVars, objectVars
  <2>2. Lives' = Lives /\ UNCHANGED (phase # "done")
    BY <1>2, <2>1 DEF Lives
  <2>3. Careful' => Careful
    BY <2>1 DEF Careful, JoinsForward, JoinsUnshared
  <2>4. CASE Careful' = Careful
    BY <2>2, <2>4 DEF Forked!forkVars
  <2>5. CASE Careful' # Careful
    <3>1. Careful /\ Careful' = FALSE
      BY <2>3, <2>5 DEF Careful
    <3>2. Forked!Neglect
      BY <2>2, <3>1 DEF Forked!Neglect
    <3> QED
      BY <3>2 DEF Forked!ForkNext
  <2> QED
    BY <2>4, <2>5
<1>9. CASE JoinNext \/ JoinedNext \/ JoinFirst \/ JoinAsked
  <2>1. UNCHANGED <<os, runs, exists, tid, deleted, failed, programVars, phase>>
    BY <1>9 DEF JoinNext, JoinedNext, JoinFirst, JoinAsked, AskJoinable, GoOn, objectVars
  <2> QED
    BY <1>1, <1>2, <2>1
<1>10. CASE Delete
  <2>1. /\ Current \in Workers /\ Current \notin deleted /\ exists' = exists \ {Current}
        /\ deleted' = deleted \cup {Current}
        /\ phase = "destroy" /\ UNCHANGED <<os, runs, tid, failed, programVars, phase>>
    BY <1>10, CurrentWorker, CurrentNotDeleted DEF Delete, At, GoOn
  <2>2. Careful => Gone(Current)
    BY <1>10, <2>1 DEF Delete, At, Reaping
  <2>3. PICK w \in Workers : w = Current
    BY <2>1
  <2>4. Life(w) # "deleted" /\ Life(w)' = "deleted" /\ (Careful => Life(w) \in {"new", "joined"})
    BY <2>1, <2>2, <2>3 DEF Life, Running, Gone
  <2>5. \A v \in Workers : v # w => Life(v)' = Life(v)
    BY <2>1, <2>3, LifeStays DEF Has
  <2> QED
    BY <1>3, <2>1, <2>4, <2>5
<1>11. CASE Leave
  <2>1. deleted = Workers
    <3>1. next = Len(Order) + 1 /\ deleted = Passed
      BY <1>11 DEF Leave, Deleting
    <3> QED
      BY <3>1 DEF Passed
  <2>2. /\ phase = "destroy" /\ phase' = "done"
        /\ UNCHANGED <<os, runs, exists, tid, deleted, failed, programVars>>
    BY <1>11 DEF Leave, threadVars, objectVars
  <2>3. Lives' = Lives /\ \A w \in Workers : Lives[w] = "deleted"
    BY <1>2, <2>1, <2>2 DEF Lives, Life
  <2>4. Careful' = Careful /\ (phase # "done") = TRUE /\ (phase' # "done") = FALSE
    BY <2>2 DEF Careful, JoinsForward, JoinsUnshared
  <2>5. Forked!Close
    BY <2>3, <2>4 DEF Forked!Close
  <2> QED
    BY <2>5 DEF Forked!ForkNext
<1>12. ASSUME NEW a \in Actors, JoinStep(a), UNCHANGED <<runs, groupVars>> PROVE Refined
  <2>0. UNCHANGED <<runs, exists, deleted, failed, programVars, phase>>
    BY <1>12 DEF JoinStep, JoinGuard, JoinAttach, JoinReap, JoinClear, objectVars
  <2>1. CASE JoinReap(a)
    <3>1. PICK i \in Tids : os[i] = "ended" /\ os' = [os EXCEPT ![i] = "free"] /\ UNCHANGED tid
      BY <2>1 DEF JoinReap
    <3>2. PICK w \in Workers : w = runs[i] /\ tid[w] = i /\ Has(i, w)
      BY <3>1 DEF ThreadsOwned, Has
    <3>3. \A j \in Tids : Has(j, w) => j = i
      BY <3>2, ThreadOf
    <3>4. \A v \in Workers : v # w => Life(v)' = Life(v)
      <4> SUFFICES ASSUME NEW v \in Workers, v # w PROVE Life(v)' = Life(v)
        OBVIOUS
      <4>1. \A j \in Tids : Has(j, v) <=> Has(j, v)'
        BY <2>0, <3>1, <3>2 DEF Has
      <4>2. \A j \in Tids : Has(j, v) => os'[j] = os[j]
        BY <3>1, <3>2 DEF Has
      <4> QED
        BY <2>0, <3>1, <4>1, <4>2, LifeStays
    <3>5. CASE w \in deleted
      <4>1. Life(w)' = Life(w)
        BY <2>0, <3>5, LifeStays
      <4> QED
        BY <1>1, <2>0, <3>4, <4>1
    <3>6. CASE w \notin deleted
      <4>1. Life(w) = "ended"
        BY <3>1, <3>2, <3>3, <3>6 DEF Life, Running, Gone
      <4>2. Gone(w)'
        BY <2>0, <3>1, <3>3 DEF Gone, Has
      <4>3. Life(w)' = "joined"
        BY <2>0, <3>1, <3>2, <3>6, <4>2 DEF Life, Running, Gone
      <4> QED
        BY <1>3, <2>0, <3>4, <4>1, <4>3
    <3> QED
      BY <3>5, <3>6
  <2>2. CASE JoinGuard(a) \/ JoinAttach(a)
    BY <1>1, <1>2, <2>0, <2>2 DEF JoinGuard, JoinAttach, objectVars
  <2>3. CASE JoinClear(a)
    <3>1. UNCHANGED os /\ tid' = [tid EXCEPT ![arg[a]] = NoTid] /\ arg[a] \in Known
      BY <2>3 DEF JoinClear, CallsSound, Joining
    <3>2. ASSUME NEW v \in Workers PROVE Life(v)' = Life(v)
      <4>1. \A j \in Tids : Has(j, v) <=> Has(j, v)'
        BY <2>0, <3>1 DEF Has
      <4>2. v \in deleted \/ v \in exists \/ tid'[v] = tid[v]
        BY <3>1
      <4> QED
        BY <2>0, <3>1, <4>1, <4>2, LifeStays
    <3> QED
      BY <1>1, <2>0, <3>2
  <2> QED
    BY <1>12, <2>1, <2>2, <2>3 DEF JoinStep
<1>13. ASSUME NEW i \in Tids, RunJoins(i) PROVE Refined
  BY <1>1, <1>2, <1>13 DEF RunJoins, JoinObject, JoinCall, objectVars
<1>14. ASSUME NEW i \in Tids, JoinDone(i), UNCHANGED <<runs, groupVars>> PROVE Refined
  BY <1>1, <1>2, <1>14 DEF JoinDone, objectVars
<1>15. ASSUME NEW i \in Tids, RunReturns(i) PROVE Refined
  <2>1. /\ os[i] = "running" /\ os' = [os EXCEPT ![i] = "ended"]
        /\ UNCHANGED <<runs, exists, tid, deleted, failed, programVars, phase>>
    BY <1>15 DEF RunReturns, RunEnds, objectVars
  <2>2. PICK w \in Workers : w = runs[i] /\ Has(i, w)
    BY <2>1 DEF ThreadsOwned, Has
  <2>3. \A j \in Tids : Has(j, w) => j = i
    BY <2>2, ThreadOf
  <2>4. \A v : \A j \in Tids : Has(j, v) <=> Has(j, v)'
    BY <2>1 DEF Has
  <2>5. \A v \in Workers : v # w => Life(v)' = Life(v)
    <3> SUFFICES ASSUME NEW v \in Workers, v # w PROVE Life(v)' = Life(v)
      OBVIOUS
    <3>1. \A j \in Tids : Has(j, v) => os'[j] = os[j]
      BY <2>1, <2>2 DEF Has
    <3> QED
      BY <2>1, <2>4, <3>1, LifeStays
  <2>6. CASE w \in deleted
    <3>1. Life(w)' = Life(w)
      BY <2>1, <2>6, LifeStays
    <3> QED
      BY <1>1, <2>1, <2>5, <3>1
  <2>7. CASE w \notin deleted
    <3>1. Life(w) = "running" /\ Life(w)' = "ended"
      BY <2>1, <2>2, <2>3, <2>4, <2>7 DEF Life, Running, Gone
    <3> QED
      BY <1>3, <2>1, <2>5, <3>1
  <2> QED
    BY <2>6, <2>7
<1>16. CASE UNCHANGED allVars
  BY <1>1, <1>2, <1>16 DEF allVars, threadVars, objectVars
<1> QED
  BY <1>5, <1>6, <1>7, <1>8, <1>9, <1>10, <1>11, <1>12, <1>13, <1>14, <1>15, <1>16
  DEF GroupNext, MainStep, RunGoesOn, Over

(* A group with its pointers, iterators, ids, statuses and calls of join   *)
(* implements fork and join: each worker is started once at most, and is   *)
(* deleted once, after its run() has ended and been joined, as long as the *)
(* program is careful (thread.cpp:208-250).                                *)
THEOREM GroupForksAndJoins == GroupSpec => ForksAndJoins
<1>1. GroupInit => Forked!ForkInit
  <2> SUFFICES ASSUME GroupInit PROVE Forked!ForkInit
    OBVIOUS
  <2>1. \A w \in Workers : Life(w) = "new"
    BY ThreadAssumption, GroupAssumption
    DEF GroupInit, ThreadInit, Life, Running, Gone, Has, Workers
  <2>2. Careful \in BOOLEAN /\ (phase # "done") = TRUE
    BY DEF Careful, GroupInit
  <2> QED
    BY <2>1, <2>2 DEF Forked!ForkInit, Lives
<1> QED
  BY <1>1, StepIsForked, ReapingIInvInit, ReapingIInvNext, PTL
  DEF GroupSpec, ForksAndJoins, Forked!Spec

=============================================================================
