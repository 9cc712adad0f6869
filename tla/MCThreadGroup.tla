---------------------------- MODULE MCThreadGroup ----------------------------
(* Small instances of ThreadGroup for TLC.                                 *)
EXTENDS ThreadGroup, TLC

CONSTANTS w1, w2, w3, w4

FourWorkers == {w1, w2, w3, w4}
InOrder     == <<w1, w2, w3, w4>>

(* What every run() may join: workers after its own, or its own; one       *)
(* before it; the next one; one that others join too, whose id a later     *)
(* worker may get while the slower of these joins is still in progress.    *)
Forward  == w1 :> {w2, w3} @@ w2 :> {w3}     @@ w3 :> {w3} @@ w4 :> {}
Backward == w1 :> {}       @@ w2 :> {w1}     @@ w3 :> {w1} @@ w4 :> {w1}
Chain    == w1 :> {w1, w2} @@ w2 :> {w3}     @@ w3 :> {w4} @@ w4 :> {}
Shared   == w1 :> {w3}     @@ w2 :> {w3}     @@ w3 :> {}   @@ w4 :> {w4}
AllPrograms == {Forward, Backward, Chain, Shared}
OneProgram  == {Forward}

=============================================================================
