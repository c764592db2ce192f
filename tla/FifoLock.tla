------------------------------ MODULE FifoLock ------------------------------
(***************************************************************************)
(* What a fair lock promises: threads ask for the lock, and it is given in *)
(* the order in which they asked.                                          *)
(***************************************************************************)
CONSTANTS
  Tids,    \* the threads
  NULL,    \* no thread
  Locks

VARIABLES
  holder,    \* holder[l]: the thread that has l, or NULL
  waiting,   \* waiting[l]: the threads that have asked for l
  before     \* before[l]: the pairs <<t, u>> of them such that t asked first

Init ==
  /\ holder = [l \in Locks |-> NULL]
  /\ waiting = [l \in Locks |-> {}]
  /\ before = [l \in Locks |-> {}]

Ask(t, l) ==
  /\ t \notin waiting[l]
  /\ waiting' = [waiting EXCEPT ![l] = @ \cup {t}]
  /\ before' = [before EXCEPT ![l] = @ \cup (waiting[l] \X {t})]
  /\ UNCHANGED holder

Acquire(t, l) ==
  /\ holder[l] = NULL
  /\ t \in waiting[l]
  /\ \A u \in waiting[l] : <<u, t>> \notin before[l]
  /\ holder' = [holder EXCEPT ![l] = t]
  /\ waiting' = [waiting EXCEPT ![l] = @ \ {t}]
  /\ before' = [before EXCEPT ![l] = @ \ ({t} \X waiting[l])]

Release(t, l) ==
  /\ holder[l] = t
  /\ holder' = [holder EXCEPT ![l] = NULL]
  /\ UNCHANGED <<waiting, before>>

Next == \E t \in Tids : \E l \in Locks : Ask(t, l) \/ Acquire(t, l) \/ Release(t, l)

Spec == Init /\ [][Next]_<<holder, waiting, before>>
=============================================================================
