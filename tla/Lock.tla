-------------------------------- MODULE Lock --------------------------------
(***************************************************************************)
(* What every lock of uthreads promises: a lock that is free is given to   *)
(* one thread, and only the thread that holds it makes it free again.      *)
(***************************************************************************)
CONSTANTS
  Tids,    \* the threads
  NULL,    \* no thread
  Locks

VARIABLE holder   \* holder[l]: the thread that has l, or NULL

Init == holder = [l \in Locks |-> NULL]

Acquire(t, l) == holder[l] = NULL /\ holder' = [holder EXCEPT ![l] = t]

Release(t, l) == holder[l] = t /\ holder' = [holder EXCEPT ![l] = NULL]

Next == \E t \in Tids : \E l \in Locks : Acquire(t, l) \/ Release(t, l)

Spec == Init /\ [][Next]_holder
=============================================================================
