-------------------------- MODULE MCProducerConsumer --------------------------
(* A small instance of ProducerConsumer for TLC.                           *)
EXTENDS ProducerConsumer

CONSTANTS p, c1, c2, c3

OneAndThree == {p, c1, c2, c3}
Texts       == {Message, Stop}
NoSizes     == {}

=============================================================================
