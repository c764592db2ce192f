-------------------------- MODULE MCSpinSemaphore ---------------------------
(* Three threads, with preemption, on one spinlock and one semaphore with up *)
(* to two permits.                                                           *)
EXTENDS SpinSemaphore
Empty == [s \in Sems |-> 0]
=============================================================================
