---------------------------- MODULE MCQueueObserver ----------------------------
(* A small instance of QueueObserver for TLC.                              *)
EXTENDS QueueObserver

CONSTANTS t1, t2, t3, a

ThreeThreads == {t1, t2, t3}
OneItem      == {a}
NoSizes      == {}

=============================================================================
