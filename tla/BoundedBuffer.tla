---------------------------- MODULE BoundedBuffer ----------------------------
(***************************************************************************)
(* What a bounded buffer promises: items come out in the order in which    *)
(* they went in, each of them once, and there are never more than Size in  *)
(* it.                                                                     *)
(***************************************************************************)
EXTENDS Naturals, Sequences, SequencesExt

CONSTANTS Items, Size

VARIABLES
  queue,   \* what is in the buffer, oldest first
  taken    \* what came out of it so far

Init == queue = <<>> /\ taken = <<>>

Put ==
  /\ Len(queue) < Size
  /\ \E x \in Items \ (Range(queue) \cup Range(taken)) : queue' = Append(queue, x)
  /\ UNCHANGED taken

Get ==
  /\ queue # <<>>
  /\ taken' = Append(taken, Head(queue))
  /\ queue' = Tail(queue)

Next == Put \/ Get

Spec == Init /\ [][Next]_<<queue, taken>>
=============================================================================
