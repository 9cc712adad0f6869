----------------------------- MODULE LocksProofs -----------------------------
(***************************************************************************)
(* Theorems about Locks, for any number of threads, any nesting of locks   *)
(* and any exceptions and handlers.                                        *)
(***************************************************************************)
EXTENDS Locks, TLAPS

(* A copy of the counter is used only under the lock it was made under.    *)
CopyHeld == \A t \in Threads : copy[t] # None => writer = t \/ readers[t] > 0

(* POSIX promises that a writer excludes all readers.                      *)
Exclusion == writer # NoThread => \A t \in Threads : readers[t] = 0

LocksIInv == LocksTypeOK /\ Exclusion /\ GuardsMatch /\ CopyHeld /\ CopiesCurrent

LEMMA LocksIInvInit == Init => LocksIInv
<1> SUFFICES ASSUME Init PROVE LocksIInv
  OBVIOUS
<1>1. \A t \in Threads, k \in Kinds : guards[t][k] = 0 /\ byHand[t][k] = 0
  BY DEF Init
<1>2. guards \in [Threads -> Counts] /\ byHand \in [Threads -> Counts]
  BY DEF Init, Counts
<1>3. LocksTypeOK
  BY <1>2 DEF Init, LocksTypeOK, NoWant, Kinds
<1> QED
  BY <1>1, <1>3, LocksAssumption
  DEF Init, LocksIInv, Exclusion, GuardsMatch, CopyHeld, CopiesCurrent, Kinds

(* What t holds of each kind, by a guard or by hand.                       *)
Total(t, k) == guards[t][k] + byHand[t][k]

LEMMA TotalType ==
  ASSUME LocksTypeOK, NEW t \in Threads, NEW k \in Kinds
  PROVE  guards[t][k] \in Nat /\ byHand[t][k] \in Nat
BY DEF LocksTypeOK, Counts

(* A lock is taken: d = 1, or given back: d = -1.                          *)
LEMMA TotalChange ==
  ASSUME LocksTypeOK, NEW t \in Threads, NEW k \in Kinds, NEW d \in {1, -1},
         \/ guards[t][k] + d >= 0 /\ guards' = [guards EXCEPT ![t][k] = guards[t][k] + d]
            /\ byHand' = byHand
         \/ byHand[t][k] + d >= 0 /\ byHand' = [byHand EXCEPT ![t][k] = byHand[t][k] + d]
            /\ guards' = guards
  PROVE  /\ guards' \in [Threads -> Counts] /\ byHand' \in [Threads -> Counts]
         /\ \A u \in Threads, j \in Kinds :
              Total(u, j)' = IF u = t /\ j = k THEN Total(u, j) + d ELSE Total(u, j)
<1>1. guards \in [Threads -> Counts] /\ byHand \in [Threads -> Counts]
  BY DEF LocksTypeOK
<1>2. \A u \in Threads, j \in Kinds : guards[u][j] \in Nat /\ byHand[u][j] \in Nat
  BY TotalType
<1>3. CASE /\ guards[t][k] + d >= 0 /\ guards' = [guards EXCEPT ![t][k] = guards[t][k] + d]
           /\ byHand' = byHand
  <2>1. guards[t][k] + d \in Nat
    BY <1>2, <1>3
  <2>2. /\ guards' \in [Threads -> Counts]
        /\ \A u \in Threads, j \in Kinds :
             guards'[u][j] = IF u = t /\ j = k THEN guards[t][k] + d ELSE guards[u][j]
    <3> DEFINE row == [guards[t] EXCEPT ![k] = guards[t][k] + d]
    <3>1. guards' = [guards EXCEPT ![t] = row]
      BY <1>3
    <3>2. row \in Counts /\ \A j \in Kinds : row[j] = IF j = k THEN guards[t][k] + d ELSE guards[t][j]
      BY <1>1, <2>1 DEF Counts
    <3> HIDE DEF row
    <3> QED
      BY <1>1, <3>1, <3>2
  <2> QED
    BY <1>1, <1>2, <1>3, <2>2 DEF Total
<1>4. CASE /\ byHand[t][k] + d >= 0 /\ byHand' = [byHand EXCEPT ![t][k] = byHand[t][k] + d]
           /\ guards' = guards
  <2>1. byHand[t][k] + d \in Nat
    BY <1>2, <1>4
  <2>2. /\ byHand' \in [Threads -> Counts]
        /\ \A u \in Threads, j \in Kinds :
             byHand'[u][j] = IF u = t /\ j = k THEN byHand[t][k] + d ELSE byHand[u][j]
    <3> DEFINE row == [byHand[t] EXCEPT ![k] = byHand[t][k] + d]
    <3>1. byHand' = [byHand EXCEPT ![t] = row]
      BY <1>4
    <3>2. row \in Counts /\ \A j \in Kinds : row[j] = IF j = k THEN byHand[t][k] + d ELSE byHand[t][j]
      BY <1>1, <2>1 DEF Counts
    <3> HIDE DEF row
    <3> QED
      BY <1>1, <3>1, <3>2
  <2> QED
    BY <1>1, <1>2, <1>4, <2>2 DEF Total
<1> QED
  BY <1>3, <1>4

LEMMA MatchTotal ==
  GuardsMatch <=> \A t \in Threads : /\ Total(t, "mutex") = (IF owner = t THEN 1 ELSE 0)
                                     /\ Total(t, "write") = (IF writer = t THEN 1 ELSE 0)
                                     /\ Total(t, "read") = readers[t]
BY DEF GuardsMatch, Total

(* lock() and try_lock() when they succeed: one more lock is held, by a    *)
(* guard or by hand.                                                       *)
LEMMA TakeStep ==
  ASSUME LocksIInv, NEW t \in Threads, NEW k \in Kinds, Grantable(k), Take(t, k),
         \/ guards' = [guards EXCEPT ![t][k] = @ + 1] /\ UNCHANGED byHand
         \/ byHand' = [byHand EXCEPT ![t][k] = @ + 1] /\ UNCHANGED guards,
         UNCHANGED <<writersFirst, failure, value, copy, terminated>>,
         pc' \in [Threads -> {"run", "asking", "throwing", "ended"}],
         want' \in [Threads -> [kind : Kinds, guard : BOOLEAN]]
  PROVE  LocksIInv'
<1> USE LocksAssumption
<1>0. /\ guards' \in [Threads -> Counts] /\ byHand' \in [Threads -> Counts]
      /\ \A u \in Threads, j \in Kinds :
           Total(u, j)' = IF u = t /\ j = k THEN Total(u, j) + 1 ELSE Total(u, j)
  BY TotalType, TotalChange DEF LocksIInv
<1>1. LocksTypeOK'
  BY <1>0 DEF Take, LocksIInv, LocksTypeOK
<1>2. Exclusion'
  BY DEF Take, Grantable, ReaderCanEnter, LocksIInv, LocksTypeOK, Exclusion
<1>3. GuardsMatch'
  <2>1. \A u \in Threads :
          /\ Total(u, "mutex")' = (IF owner' = u THEN 1 ELSE 0)
          /\ Total(u, "write")' = (IF writer' = u THEN 1 ELSE 0)
          /\ Total(u, "read")' = readers'[u]
    BY <1>0, MatchTotal DEF Take, Grantable, ReaderCanEnter, LocksIInv, LocksTypeOK, Kinds
  <2> QED
    BY <2>1 DEF GuardsMatch, Total
<1>4. CopyHeld' /\ CopiesCurrent'
  BY DEF Take, Grantable, ReaderCanEnter, CopyHeld, CopiesCurrent, LocksIInv, LocksTypeOK
<1> QED
  BY <1>1, <1>2, <1>3, <1>4 DEF LocksIInv

(* unlock(), of a guard or by hand: exactly the lock that was held is      *)
(* released, though read and write locks share one function.               *)
LEMMA ReleaseStep ==
  ASSUME LocksIInv, NEW t \in Threads, NEW k \in Kinds, Release(t, k),
         \/ guards[t][k] > 0 /\ guards' = [guards EXCEPT ![t][k] = @ - 1] /\ UNCHANGED byHand
         \/ byHand[t][k] > 0 /\ byHand' = [byHand EXCEPT ![t][k] = @ - 1] /\ UNCHANGED guards,
         UNCHANGED <<writersFirst, pc, want, failure, value, terminated>>
  PROVE  LocksIInv'
<1> USE LocksAssumption
<1>0. /\ guards' \in [Threads -> Counts] /\ byHand' \in [Threads -> Counts]
      /\ \A u \in Threads, j \in Kinds :
           Total(u, j)' = IF u = t /\ j = k THEN Total(u, j) - 1 ELSE Total(u, j)
  <2>1. guards[t][k] \in Nat /\ byHand[t][k] \in Nat
    BY TotalType DEF LocksIInv
  <2>2. \A u \in Threads, j \in Kinds : Total(u, j) \in Nat
    BY TotalType DEF LocksIInv, Total
  <2>3. \/ guards[t][k] + (-1) >= 0 /\ guards' = [guards EXCEPT ![t][k] = guards[t][k] + (-1)]
           /\ byHand' = byHand
        \/ byHand[t][k] + (-1) >= 0 /\ byHand' = [byHand EXCEPT ![t][k] = byHand[t][k] + (-1)]
           /\ guards' = guards
    BY <2>1
  <2>4. /\ guards' \in [Threads -> Counts] /\ byHand' \in [Threads -> Counts]
        /\ \A u \in Threads, j \in Kinds :
             Total(u, j)' = IF u = t /\ j = k THEN Total(u, j) + (-1) ELSE Total(u, j)
    BY <2>3, TotalChange DEF LocksIInv
  <2> QED
    BY <2>2, <2>4
<1>1. Total(t, k) > 0
  BY TotalType DEF LocksIInv, Total
<1>2. /\ k = "mutex" => owner = t /\ owner' = NoThread /\ UNCHANGED <<writer, readers, copy>>
      /\ k = "write" => writer = t /\ writer' = NoThread /\ UNCHANGED <<owner, readers>>
      /\ k = "read" => /\ writer = NoThread /\ readers[t] > 0 /\ UNCHANGED <<owner, writer>>
                       /\ readers' = [readers EXCEPT ![t] = @ - 1]
      /\ k # "mutex" => copy' = [copy EXCEPT ![t] = None]
  <2>1. Total(t, k) = CASE k = "mutex" -> (IF owner = t THEN 1 ELSE 0)
                        [] k = "write" -> (IF writer = t THEN 1 ELSE 0)
                        [] k = "read"  -> readers[t]
    BY MatchTotal DEF LocksIInv, Kinds
  <2>2. CASE k = "mutex"
    BY <1>1, <2>1, <2>2 DEF Release, RwKinds, LocksIInv, LocksTypeOK
  <2>3. CASE k = "write"
    BY <1>1, <2>1, <2>3 DEF Release, RwKinds, LocksIInv, LocksTypeOK
  <2>4. CASE k = "read"
    <3>1. readers[t] > 0 /\ writer = NoThread
      BY <1>1, <2>1, <2>4 DEF LocksIInv, LocksTypeOK, Exclusion
    <3>2. writer # t
      BY <3>1
    <3> QED
      BY <2>4, <3>1, <3>2 DEF Release, RwKinds
  <2> QED
    BY <2>2, <2>3, <2>4 DEF Kinds
<1>3. LocksTypeOK'
  <2>1. readers' \in [Threads -> Nat]
    BY <1>2 DEF LocksIInv, LocksTypeOK, Kinds
  <2>2. copy' \in [Threads -> Nat \cup {None}]
    BY <1>2 DEF LocksIInv, LocksTypeOK, Kinds
  <2> QED
    BY <1>0, <1>2, <2>1, <2>2 DEF LocksIInv, LocksTypeOK, Kinds
<1>4. Exclusion'
  BY <1>2 DEF LocksIInv, LocksTypeOK, Exclusion, Kinds
<1>5. GuardsMatch'
  <2>1. \A u \in Threads :
          /\ Total(u, "mutex")' = (IF owner' = u THEN 1 ELSE 0)
          /\ Total(u, "write")' = (IF writer' = u THEN 1 ELSE 0)
          /\ Total(u, "read")' = readers'[u]
    BY <1>0, <1>2, MatchTotal DEF LocksIInv, LocksTypeOK, Kinds
  <2> QED
    BY <2>1 DEF GuardsMatch, Total
<1>6. CopyHeld' /\ CopiesCurrent'
  BY <1>2 DEF CopyHeld, CopiesCurrent, LocksIInv, LocksTypeOK, Kinds
<1> QED
  BY <1>3, <1>4, <1>5, <1>6 DEF LocksIInv

LEMMA LocksIInvNext == LocksIInv /\ [Next]_vars => LocksIInv'
<1> SUFFICES ASSUME LocksIInv, [Next]_vars PROVE LocksIInv'
  OBVIOUS
<1> USE LocksAssumption DEF LocksIInv, LocksTypeOK, GoTo
<1>1. ASSUME NEW t \in Threads, Grant(t) PROVE LocksIInv'
  <2>1. want[t].kind \in Kinds /\ Grantable(want[t].kind)
    BY <1>1 DEF Grant
  <2>2. want' \in [Threads -> [kind : Kinds, guard : BOOLEAN]]
    BY <1>1 DEF Grant, NoWant, Kinds
  <2>3. pc' \in [Threads -> {"run", "asking", "throwing", "ended"}]
    BY <1>1 DEF Grant
  <2> HIDE DEF LocksIInv
  <2> QED
    BY <1>1, <2>1, <2>2, <2>3, TakeStep DEF Grant
<1>2. ASSUME NEW t \in Threads, TryLock(t) PROVE LocksIInv'
  BY <1>2, TakeStep DEF TryLock
<1>3. ASSUME NEW t \in Threads, NEW k \in Kinds, LeaveScope(t, k) PROVE LocksIInv'
  BY <1>3, ReleaseStep DEF LeaveScope
<1>4. ASSUME NEW t \in Threads, Unwind(t) PROVE LocksIInv'
  BY <1>4, ReleaseStep DEF Unwind
<1>5. ASSUME NEW t \in Threads, Ask(t) \/ Refuse(t) \/ TryFails(t) \/ Raise(t) \/ Catch(t) \/ Escape(t)
      PROVE  LocksIInv'
  <2>1. UNCHANGED <<lockVars, writersFirst, heldVars, value, copy>>
    BY <1>5 DEF Ask, Refuse, TryFails, Raise, Catch, Escape
  <2>2. /\ pc' \in [Threads -> {"run", "asking", "throwing", "ended"}]
        /\ terminated' \in BOOLEAN
    BY <1>5 DEF Ask, Refuse, TryFails, Raise, Catch, Escape
  <2>3. want' \in [Threads -> [kind : Kinds, guard : BOOLEAN]]
    <3>1. CASE Ask(t)
      <4>1. PICK k \in Kinds, g \in BOOLEAN : want' = [want EXCEPT ![t] = [kind |-> k, guard |-> g]]
        BY <3>1 DEF Ask
      <4> QED
        BY <4>1
    <3>2. CASE Refuse(t)
      BY <3>2 DEF Refuse, NoWant, Kinds
    <3>3. CASE UNCHANGED want
      BY <3>3
    <3> QED
      BY <1>5, <3>1, <3>2, <3>3 DEF TryFails, Raise, Catch, Escape
  <2>4. failure' \in [Threads -> Classes \cup {NoError}]
    BY <1>5 DEF Ask, Refuse, TryFails, Raise, Catch, Escape, Classes, PosixErrors
  <2> QED
    BY <2>1, <2>2, <2>3, <2>4
    DEF lockVars, heldVars, Exclusion, GuardsMatch, CopyHeld, CopiesCurrent
<1>6. ASSUME NEW t \in Threads, Load(t) PROVE LocksIInv'
  <2>1. writer = t \/ readers[t] > 0
    BY <1>6 DEF Load, Holds, RwKinds, GuardsMatch
  <2> QED
    BY <1>6, <2>1 DEF Load, lockVars, heldVars, Exclusion, GuardsMatch, CopyHeld, CopiesCurrent
<1>7. ASSUME NEW t \in Threads, Increment(t) PROVE LocksIInv'
  <2>1. writer = t
    BY <1>7 DEF Increment, Holds, GuardsMatch
  <2>2. \A u \in Threads : u # t => copy[u] = None
    BY <2>1 DEF CopyHeld, Exclusion
  <2> QED
    BY <1>7, <2>1, <2>2
    DEF Increment, lockVars, heldVars, Exclusion, GuardsMatch, CopyHeld, CopiesCurrent, None
<1>8. ASSUME NEW t \in Threads, RunEnds(t) PROVE LocksIInv'
  BY <1>8 DEF RunEnds, lockVars, heldVars, Exclusion, GuardsMatch, CopyHeld, CopiesCurrent
<1>9. CASE UNCHANGED vars
  BY <1>9 DEF vars, lockVars, heldVars, Exclusion, GuardsMatch, CopyHeld, CopiesCurrent
<1> QED
  BY <1>1, <1>2, <1>3, <1>4, <1>5, <1>6, <1>7, <1>8, <1>9 DEF Next

LEMMA LocksInvariance == Spec => []LocksIInv
BY LocksIInvInit, LocksIInvNext, PTL DEF Spec

(* Every variable keeps its type: no count of locks becomes negative, so   *)
(* unlock is never called for a lock that is not held.                     *)
THEOREM LocksTypeCorrect == Spec => []LocksTypeOK
<1>1. LocksIInv => LocksTypeOK
  BY DEF LocksIInv
<1> QED
  BY <1>1, LocksInvariance, PTL

(* Guards and POSIX objects agree, whatever throws where.                  *)
THEOREM GuardsSound == Spec => []GuardsMatch
<1>1. LocksIInv => GuardsMatch
  BY DEF LocksIInv
<1> QED
  BY <1>1, LocksInvariance, PTL

(* The counter is never read stale and no increment is lost.               *)
THEOREM CounterSound == Spec => []CopiesCurrent
<1>1. LocksIInv => CopiesCurrent
  BY DEF LocksIInv
<1> QED
  BY <1>1, LocksInvariance, PTL

(* Whichever side the implementation prefers, only nested and forgotten    *)
(* locks bring a program to a halt.                                        *)
THEOREM HangsOnlyWhenNested == Spec => []NoHang
<1>1. LocksIInv => NoHang
  <2> SUFFICES ASSUME LocksIInv, Careful, NEW t \in Threads, pc[t] = "asking",
                      ~ \E u \in Threads : pc[u] = "asking" /\ Grantable(want[u].kind)
               PROVE  \E u \in Threads : pc[u] \in {"run", "throwing"} /\ HoldsAny(u)
    BY DEF NoHang
  <2>1. SUFFICES \E u \in Threads : HoldsAny(u)
    BY DEF LocksIInv, LocksTypeOK, Careful, Nested, Forgotten
  <2>2. PICK w \in Threads : /\ pc[w] = "asking"
                             /\ \/ owner # NoThread
                                \/ writer # NoThread
                                \/ \E u \in Threads : readers[u] # 0
    <3>1. CASE want[t].kind \in {"mutex", "write"} \/ ~writersFirst
      BY <3>1 DEF Grantable, ReaderCanEnter, LocksIInv, LocksTypeOK, Kinds
    <3>2. CASE want[t].kind = "read" /\ writersFirst /\ writer = NoThread
      BY <3>2 DEF Grantable, ReaderCanEnter, AsksFor
    <3> QED
      BY <3>1, <3>2 DEF LocksIInv, LocksTypeOK, Kinds
  <2>3. ASSUME NEW u \in Threads, owner = u PROVE HoldsAny(u)
    BY <2>3 DEF LocksIInv, GuardsMatch, HoldsAny, Holds, Kinds
  <2>4. ASSUME NEW u \in Threads, writer = u PROVE HoldsAny(u)
    BY <2>4 DEF LocksIInv, GuardsMatch, HoldsAny, Holds, Kinds
  <2>5. ASSUME NEW u \in Threads, readers[u] # 0 PROVE HoldsAny(u)
    BY <2>5 DEF LocksIInv, LocksTypeOK, GuardsMatch, HoldsAny, Holds, Kinds
  <2> QED
    BY <2>2, <2>3, <2>4, <2>5 DEF LocksIInv, LocksTypeOK
<1> QED
  BY <1>1, LocksInvariance, PTL

-----------------------------------------------------------------------------
(* What is thrown is one of the classes, and the program ends only while   *)
(* an exception without a handler is in flight.                            *)
Thrown ==
  /\ \A t \in Threads : pc[t] = "throwing" => failure[t] \in Classes
  /\ terminated => \E t \in Threads : pc[t] = "throwing" /\ ~Caught(failure[t], Catches)

LEMMA ThrownNext == LocksTypeOK /\ Thrown /\ [Next]_vars => Thrown'
<1> SUFFICES ASSUME LocksTypeOK, Thrown, [Next]_vars PROVE Thrown'
  OBVIOUS
<1> USE LocksAssumption
<1>1. CASE UNCHANGED vars
  BY <1>1 DEF vars, Thrown
<1>2. ASSUME ~terminated, NEW t \in Threads, NEW c \in Classes,
             failure' = [failure EXCEPT ![t] = c], GoTo(t, "throwing"), UNCHANGED terminated
      PROVE  Thrown'
  BY <1>2 DEF Thrown, LocksTypeOK, GoTo
<1>3. ASSUME ~terminated, NEW t \in Threads, Refuse(t) \/ TryFails(t) \/ Raise(t) PROVE Thrown'
  <2>1. PICK c \in Classes : failure' = [failure EXCEPT ![t] = c]
    BY <1>3 DEF Refuse, TryFails, Raise, Classes, PosixErrors
  <2> QED
    BY <1>2, <1>3, <2>1 DEF Refuse, TryFails, Raise
<1>4. ASSUME ~terminated, NEW t \in Threads, Escape(t) PROVE Thrown'
  BY <1>4 DEF Escape, Thrown
<1>5. ASSUME ~terminated, NEW t \in Threads, Catch(t) PROVE Thrown'
  BY <1>5 DEF Catch, Thrown, LocksTypeOK, GoTo
<1>6. ASSUME ~terminated, UNCHANGED <<failure, terminated>>,
             \A u \in Threads : pc'[u] = "throwing" => pc[u] = "throwing"
      PROVE  Thrown'
  BY <1>6 DEF Thrown
<1>7. ASSUME ~terminated, NEW t \in Threads,
             \/ Ask(t) \/ Grant(t) \/ TryLock(t) \/ Load(t) \/ Increment(t) \/ RunEnds(t)
             \/ (\E k \in Kinds : LeaveScope(t, k)) \/ Unwind(t)
      PROVE  Thrown'
  <2>1. UNCHANGED <<failure, terminated>>
    BY <1>7 DEF Ask, Grant, TryLock, Load, Increment, RunEnds, LeaveScope, Unwind
  <2>2. \A u \in Threads : pc'[u] = "throwing" => pc[u] = "throwing"
    BY <1>7 DEF Ask, Grant, TryLock, Load, Increment, RunEnds, LeaveScope, Unwind, GoTo, LocksTypeOK
  <2> QED
    BY <1>6, <1>7, <2>1, <2>2
<1> QED
  BY <1>1, <1>3, <1>4, <1>5, <1>7 DEF Next

(* Handlers for the two families let nothing of the library through.       *)
LEMMA FamiliesCatch ==
  ASSUME NEW c \in Classes, ~Caught(c, Families) PROVE c = "exception"
BY DEF Classes, PosixErrors, QueueErrors, Families, Caught, IsA, Base

(* Whatever the bodies raise and wherever a lock is refused: the program   *)
(* of which every run() has handlers for both families ends only because   *)
(* of an exception that is not the library's.                              *)
THEOREM NoLibraryErrorEscapes == Spec => []OnlyForeignEscapes
<1>1. Init => LocksTypeOK /\ Thrown
  BY LocksIInvInit DEF LocksIInv, Init, Thrown
<1>2. Thrown => OnlyForeignEscapes
  BY FamiliesCatch DEF Thrown, OnlyForeignEscapes
<1> QED
  BY <1>1, <1>2, ThrownNext, LocksTypeCorrect, PTL DEF Spec

-----------------------------------------------------------------------------
(* The refinement: a step of Locks that changes what somebody holds takes  *)
(* or gives back one lock of the abstract specification.                   *)
LEMMA HeldChange ==
  ASSUME LocksTypeOK, LocksTypeOK', NEW t \in Threads, NEW k \in Kinds, NEW d \in {1, -1},
         \A u \in Threads, j \in Kinds :
           Total(u, j)' = IF u = t /\ j = k THEN Total(u, j) + d ELSE Total(u, j)
  PROVE  Held' = [Held EXCEPT ![t][k] = @ + d]
BY DEF Held, Total

LEMMA HeldIsTotal == \A t \in Threads, k \in Kinds : Held[t][k] = Total(t, k)
BY DEF Held, Total

LEMMA TakeAcquires ==
  ASSUME LocksIInv, LocksIInv', NEW t \in Threads, NEW k \in Kinds, Grantable(k),
         \/ guards' = [guards EXCEPT ![t][k] = @ + 1] /\ UNCHANGED byHand
         \/ byHand' = [byHand EXCEPT ![t][k] = @ + 1] /\ UNCHANGED guards,
         UNCHANGED value
  PROVE  Protected!Acquire(t, k)
<1>1. \A u \in Threads, j \in Kinds :
           Total(u, j)' = IF u = t /\ j = k THEN Total(u, j) + 1 ELSE Total(u, j)
  BY TotalType, TotalChange DEF LocksIInv
<1>2. Held' = [Held EXCEPT ![t][k] = @ + 1]
  BY <1>1, HeldChange DEF LocksIInv
<1>3. ASSUME NEW u \in Threads, NEW j \in Kinds, Protected!Excludes(j, k) PROVE Total(u, j) = 0
  <2>1. GuardsMatch /\ LocksTypeOK /\ Exclusion
    BY DEF LocksIInv
  <2>2. (j = k /\ k # "read") \/ (j = "read" /\ k = "write") \/ (j = "write" /\ k = "read")
    BY <1>3 DEF Protected!Excludes
  <2> QED
    BY <2>1, <2>2, MatchTotal, LocksAssumption
    DEF Grantable, ReaderCanEnter, Kinds, LocksTypeOK
<1> QED
  BY <1>2, <1>3, HeldIsTotal DEF Protected!Acquire, Protected!Kinds, Kinds

LEMMA ReleaseGivesBack ==
  ASSUME LocksIInv, LocksIInv', NEW t \in Threads, NEW k \in Kinds,
         \/ guards[t][k] > 0 /\ guards' = [guards EXCEPT ![t][k] = @ - 1] /\ UNCHANGED byHand
         \/ byHand[t][k] > 0 /\ byHand' = [byHand EXCEPT ![t][k] = @ - 1] /\ UNCHANGED guards,
         UNCHANGED value
  PROVE  Protected!GiveBack(t, k)
<1>1. guards[t][k] \in Nat /\ byHand[t][k] \in Nat
  BY TotalType DEF LocksIInv
<1>2. \/ guards[t][k] + (-1) >= 0 /\ guards' = [guards EXCEPT ![t][k] = guards[t][k] + (-1)]
         /\ byHand' = byHand
      \/ byHand[t][k] + (-1) >= 0 /\ byHand' = [byHand EXCEPT ![t][k] = byHand[t][k] + (-1)]
         /\ guards' = guards
  BY <1>1
<1>3. \A u \in Threads, j \in Kinds :
         Total(u, j)' = IF u = t /\ j = k THEN Total(u, j) + (-1) ELSE Total(u, j)
  BY <1>2, TotalChange DEF LocksIInv
<1>4. Held' = [Held EXCEPT ![t][k] = @ + (-1)]
  BY <1>3, HeldChange DEF LocksIInv
<1>5. Held[t][k] = Total(t, k) /\ Total(t, k) \in Nat /\ Total(t, k) > 0
  BY <1>1, HeldIsTotal DEF Total
<1>6. Held' = [Held EXCEPT ![t][k] = @ - 1]
  BY <1>4, <1>5
<1> QED
  BY <1>5, <1>6 DEF Protected!GiveBack

LEMMA StepIsProtected ==
  LocksIInv /\ LocksIInv' /\ [Next]_vars => [Protected!CounterNext]_(Protected!counterVars)
<1> SUFFICES ASSUME LocksIInv, LocksIInv', [Next]_vars
             PROVE  Protected!CounterNext \/ UNCHANGED Protected!counterVars
  OBVIOUS
<1> USE DEF Protected!CounterNext, Protected!Kinds, Kinds
<1>1. ASSUME NEW t \in Threads, Grant(t) PROVE \E k \in Kinds : Protected!Acquire(t, k)
  <2>1. want[t].kind \in Kinds
    BY DEF LocksIInv, LocksTypeOK
  <2> QED
    BY <1>1, <2>1, TakeAcquires DEF Grant
<1>2. ASSUME NEW t \in Threads, TryLock(t) PROVE \E k \in Kinds : Protected!Acquire(t, k)
  BY <1>2, TakeAcquires DEF TryLock
<1>3. ASSUME NEW t \in Threads, NEW k \in Kinds, LeaveScope(t, k) PROVE Protected!GiveBack(t, k)
  BY <1>3, ReleaseGivesBack DEF LeaveScope
<1>4. ASSUME NEW t \in Threads, Unwind(t) PROVE \E k \in Kinds : Protected!GiveBack(t, k)
  BY <1>4, ReleaseGivesBack DEF Unwind
<1>5. ASSUME NEW t \in Threads, Increment(t) PROVE Protected!Add(t)
  <2>1. Held[t]["write"] > 0
    BY <1>5, HeldIsTotal DEF Increment, Holds, Total
  <2>2. copy[t] = value
    BY <1>5 DEF Increment, LocksIInv, CopiesCurrent
  <2>3. Held' = Held
    BY <1>5 DEF Increment, heldVars, Held
  <2> QED
    BY <1>5, <2>1, <2>2, <2>3 DEF Increment, Protected!Add
<1>6. ASSUME UNCHANGED <<heldVars, value>> PROVE UNCHANGED Protected!counterVars
  BY <1>6 DEF heldVars, Held, Protected!counterVars
<1>7. ASSUME NEW t \in Threads,
             \/ Ask(t) \/ Refuse(t) \/ TryFails(t) \/ Load(t) \/ RunEnds(t) \/ Raise(t)
             \/ Catch(t) \/ Escape(t)
      PROVE  UNCHANGED <<heldVars, value>>
  BY <1>7 DEF Ask, Refuse, TryFails, Load, RunEnds, Raise, Catch, Escape
<1>8. CASE UNCHANGED vars
  BY <1>6, <1>8 DEF vars
<1> QED
  BY <1>1, <1>2, <1>3, <1>4, <1>5, <1>6, <1>7, <1>8 DEF Next

(* Guards, exceptions, unwinding and locks taken by hand implement what    *)
(* the bodies rely on: exclusive locks that only their holder gives back,  *)
(* and a counter of which every increment is one step.                     *)
THEOREM LocksProtect == Spec => CounterProtected
<1>1. Init => Protected!CounterInit
  BY DEF Init, Held, Protected!CounterInit, Protected!Kinds, Kinds
<1> QED
  BY <1>1, StepIsProtected, LocksInvariance, PTL DEF Spec, CounterProtected, Protected!Spec

=============================================================================
