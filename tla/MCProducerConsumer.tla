------------------------- MODULE MCProducerConsumer -------------------------
(* Producers, consumers and the driver of examples/producer_consumer.c, with *)
(* preemption.                                                               *)
EXTENDS ProducerConsumer
NoJoins == {}
SemInits == [s \in Sems |-> IF s = empty THEN BUFFER_SIZE ELSE 0]
=============================================================================
