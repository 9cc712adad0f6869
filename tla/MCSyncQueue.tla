----------------------------- MODULE MCSyncQueue -----------------------------
(* Small instances of SyncQueue for TLC.                                   *)
EXTENDS SyncQueue

CONSTANTS t1, t2, t3, a, b

ThreeThreads == {t1, t2, t3}
OneItem      == {a}
TwoItems     == {a, b}
WrapResizes  == {1, 4}   \* with 2-bit ints, 4 is stored as 0
Resizes      == {1, 2}   \* grow and shrink within the range of int

=============================================================================
