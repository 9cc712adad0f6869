------------------------------- MODULE MCLocks -------------------------------
(* Small instances of Locks for TLC.                                       *)
EXTENDS Locks

CONSTANTS t1, t2

TwoThreads    == {t1, t2}
(* A timed get gives up, or something outside the library throws; the      *)
(* locks themselves raise the other family.                                *)
Errors        == {"queue_timeout", "exception"}
BothFamilies  == Families

=============================================================================
