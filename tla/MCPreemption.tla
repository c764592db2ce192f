---------------------------- MODULE MCPreemption ----------------------------
(* Threads that enable and disable preemption.                               *)
EXTENDS Preemption
=============================================================================
