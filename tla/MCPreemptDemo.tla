---------------------------- MODULE MCPreemptDemo ----------------------------
(* The threads A and B of examples/preempt_demo.c and their driver.  Units of *)
(* time are scaled down: a second has 8 milliseconds of 4 microseconds, and   *)
(* an unsigned int 6 bits.                                                    *)
EXTENDS PreemptDemo
NoJoins == {}
=============================================================================
