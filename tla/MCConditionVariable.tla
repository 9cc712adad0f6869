------------------------- MODULE MCConditionVariable -------------------------
(* Small instances of ConditionVariable for TLC.                           *)
EXTENDS ConditionVariable, TLC

CONSTANTS t1, t2

TwoThreads   == {t1, t2}
TwoTimed     == {t1, t2}
ShortAndLong == {1, 3}
AllDurations == {-3, -1, 0, 1, 3}   \* with seconds of 2 ms: whole and mixed, both signs
Alike        == Permutations(TwoThreads)

=============================================================================
