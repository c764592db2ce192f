------------------------------ MODULE MCThreads ------------------------------
(* Up to three threads, created by main and by one another, where every      *)
(* thread may join every thread.                                             *)
EXTENDS Threads
AllJoins == Tids \X Tids
=============================================================================
