------------------------------- MODULE ForkJoin -------------------------------
(***************************************************************************)
(* What a thread_group promises to a careful program (src/include/pthread/ *)
(* thread.hpp): the workers that are started run at the same time, each is *)
(* joined when its run() has ended, and only then deleted; the scope of    *)
(* the group is left when all are deleted.  A program that stops being     *)
(* careful is promised less: its workers may be deleted while they run.    *)
(* Iterators, ids, statuses and the calls of join do not appear here;      *)
(* ThreadGroup is shown to implement this specification.                   *)
(***************************************************************************)
CONSTANTS Workers

VARIABLES life,     \* life[w]: new, running, ended, joined, deleted
          open,     \* is the scope of the group still open?
          careful

forkVars == <<life, open, careful>>

ForkInit ==
  /\ life = [w \in Workers |-> "new"]
  /\ open = TRUE
  /\ careful \in BOOLEAN

Become(w, stage) == life' = [life EXCEPT ![w] = stage] /\ UNCHANGED <<open, careful>>

Start(w) == open /\ life[w] = "new" /\ Become(w, "running")
End(w)   == life[w] = "running" /\ Become(w, "ended")
Join(w)  == life[w] = "ended" /\ Become(w, "joined")

Delete(w) ==
  /\ open /\ life[w] # "deleted"
  /\ careful => life[w] \in {"new", "joined"}
  /\ Become(w, "deleted")

Close ==
  /\ open /\ \A w \in Workers : life[w] = "deleted"
  /\ open' = FALSE
  /\ UNCHANGED <<life, careful>>

Neglect == careful /\ careful' = FALSE /\ UNCHANGED <<life, open>>

ForkNext ==
  \/ \E w \in Workers : Start(w) \/ End(w) \/ Join(w) \/ Delete(w)
  \/ Close \/ Neglect

Spec == ForkInit /\ [][ForkNext]_forkVars

=============================================================================
