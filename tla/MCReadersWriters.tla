-------------------------- MODULE MCReadersWriters --------------------------
(* Writers, readers and the driver of examples/readers_writers.c, with       *)
(* preemption.                                                               *)
EXTENDS ReadersWriters
NoJoins == {}
=============================================================================
