------------------------------ MODULE MCThread ------------------------------
(* Small instances of Thread for TLC.                                      *)
EXTENDS Thread

CONSTANTS i1, i2, i3, h1, h2, h3

ThreeTids     == {i1, i2, i3}
ThreeHandles  == {h1, h2, h3}

=============================================================================
