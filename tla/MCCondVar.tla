----------------------------- MODULE MCCondVar ------------------------------
(* Three threads, one mutex and one condition variable, with preemption.    *)
EXTENDS CondVar
=============================================================================
