--------------------------- MODULE MCPhilosophers ---------------------------
(* Two philosophers and the driver, with preemption.  With two, both forks   *)
(* are shared and one of the two is the last.                                *)
EXTENDS Philosophers
CONSTANTS f0, f1
TwoForks == [i \in Indices |-> IF i = 0 THEN f0 ELSE f1]
NoJoins == {}
=============================================================================
