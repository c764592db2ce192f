---------------------------- MODULE MCTicketLock ----------------------------
(* Three threads, with preemption, on one ticket lock whose counters wrap   *)
(* around at 4.                                                             *)
EXTENDS TicketLock
=============================================================================
