--------------------------- MODULE ReadersWriters ---------------------------
(***************************************************************************)
(* examples/readers_writers.c: a readers-writers lock with writer          *)
(* preference made of a mutex and two condition variables, and the reader  *)
(* and writer threads that use it.                                         *)
(***************************************************************************)
EXTENDS Program, CondVar

CONSTANTS
  g_nw,       \* writers; the other threads of driver() are readers
  g_iters,    \* iterations of each thread
  lock, can_read, can_write

ASSUME ReadersWritersAssumption ==
  /\ g_nw \in 0 .. NThreads
  /\ g_iters \in Nat
  /\ lock \in Mutexes /\ {can_read, can_write} \subseteq Conds /\ can_read # can_write

VARIABLES
  active_readers, active_writers, waiting_writers,
  shared_data,
  tmp          \* tmp[t]: the value of shared_data that shared_data++ has read

rwVars == <<active_readers, active_writers, waiting_writers, shared_data, tmp>>
syncVars == <<mutexVars, cond_args>>
rwSysVars == <<schedVars, threadVars, programVars, syncVars, rwVars>>

\* driver() creates the writers first.
Writer(t) == t # Driver /\ arg[t] < g_nw
Reader(t) == t # Driver /\ arg[t] >= g_nw

-----------------------------------------------------------------------------
(* Calls of the library.                                                   *)

acquire(l, next) ==
  /\ Line(l, next)
  /\ uth_mutex_lock(lock, "user", "user")
  /\ UNCHANGED <<threadVars, count, arg, tids, cond_args, rwVars>>

release(l, next) ==
  /\ Line(l, next)
  /\ uth_mutex_unlock(lock, "user", "user")
  /\ UNCHANGED <<threadVars, count, arg, tids, cond_args, rwVars>>

\* A call on a condition variable.
on_cond(l, next, call) == Line(l, next) /\ call /\ UNCHANGED <<threadVars, count, arg, tids, rwVars>>

pause(l, next) == yield(l, next) /\ UNCHANGED <<syncVars, rwVars>>

\* A line that works on the variables of the program.
Compute(l, next) == Local(l, next) /\ UNCHANGED <<count, syncVars>>

iterate ==
  /\ for("start", g_iters, IF Writer(Me) THEN "wl_lock" ELSE "rl_lock")
  /\ UNCHANGED <<syncVars, rwVars>>

-----------------------------------------------------------------------------
(* Readers.                                                                *)

\* (Mutant: a reader does not wait for waiting writers.)
must_wait_active == active_writers > 0
must_wait == active_writers > 0 \/ waiting_writers > 0

read_lock ==
  \/ acquire("rl_lock", "rl_test")
  \/ must_wait /\ on_cond("rl_test", "rl_test", uth_cond_wait(can_read, lock))
  \/ ~must_wait /\ Compute("rl_test", "rl_enter") /\ UNCHANGED rwVars
  \/ /\ Compute("rl_enter", "rl_unlock")
     /\ active_readers' = active_readers + 1
     /\ UNCHANGED <<active_writers, waiting_writers, shared_data, tmp>>
  \/ release("rl_unlock", "read")

read_unlock ==
  \/ acquire("ru_lock", "ru_leave")
  \/ /\ Compute("ru_leave", IF active_readers = 1 THEN "ru_signal" ELSE "ru_unlock")
     /\ active_readers' = active_readers - 1
     /\ UNCHANGED <<active_writers, waiting_writers, shared_data, tmp>>
  \/ on_cond("ru_signal", "ru_unlock", uth_cond_signal(can_write))
  \/ release("ru_unlock", "gap")

\* The loop body: read_lock, the read, uth_yield, read_unlock, uth_yield.
reader ==
  \/ read_lock
  \/ pause("read", "ru_lock")
  \/ read_unlock
  \/ pause("gap", "start")

-----------------------------------------------------------------------------
(* Writers.                                                                *)

\* (Mutant: a writer does not wait for another writer.)
somebody_in_readers == active_readers > 0
somebody_in == active_readers > 0 \/ active_writers > 0

write_lock ==
  \/ acquire("wl_lock", "wl_ask")
  \/ /\ Compute("wl_ask", "wl_test")
     /\ waiting_writers' = waiting_writers + 1
     /\ UNCHANGED <<active_readers, active_writers, shared_data, tmp>>
  \/ somebody_in /\ on_cond("wl_test", "wl_test", uth_cond_wait(can_write, lock))
  \/ ~somebody_in /\ Compute("wl_test", "wl_enter") /\ UNCHANGED rwVars
  \/ /\ Compute("wl_enter", "wl_unlock")
     /\ waiting_writers' = waiting_writers - 1
     /\ active_writers' = active_writers + 1
     /\ UNCHANGED <<active_readers, shared_data, tmp>>
  \/ release("wl_unlock", "load")

\* Whom the writer that leaves wakes: a writer if one waits, else all readers.
\* (Mutant: always the readers.)
wake_next_readers == "wu_broadcast"
wake_next == IF waiting_writers > 0 THEN "wu_signal" ELSE "wu_broadcast"

write_unlock ==
  \/ acquire("wu_lock", "wu_leave")
  \/ /\ Compute("wu_leave", wake_next)
     /\ active_writers' = active_writers - 1
     /\ UNCHANGED <<active_readers, waiting_writers, shared_data, tmp>>
  \/ on_cond("wu_signal", "wu_unlock", uth_cond_signal(can_write))
  \/ on_cond("wu_broadcast", "wu_unlock", uth_cond_broadcast(can_read))
  \/ release("wu_unlock", "gap")

\* shared_data++ reads the variable and writes it.
increment ==
  \/ /\ Compute("load", "write")
     /\ tmp' = [tmp EXCEPT ![Me] = shared_data]
     /\ UNCHANGED <<active_readers, active_writers, waiting_writers, shared_data>>
  \/ /\ Compute("write", "hold")
     /\ shared_data' = tmp[Me] + 1
     /\ UNCHANGED <<active_readers, active_writers, waiting_writers, tmp>>

writer ==
  \/ write_lock
  \/ increment
  \/ pause("hold", "wu_lock")
  \/ write_unlock

-----------------------------------------------------------------------------
RWInit ==
  /\ ProgramInit
  /\ uth_mutex_init
  /\ held = [t \in Tids |-> {}]
  /\ cond_args = [t \in Tids |-> NoArgs]
  /\ active_readers = 0
  /\ active_writers = 0
  /\ waiting_writers = 0
  /\ shared_data = 0
  /\ tmp = [t \in Tids |-> 0]

RWCpuStep ==
  \/ ProgramStep /\ UNCHANGED <<syncVars, rwVars>>
  \/ MutexStep /\ UNCHANGED <<threadVars, programVars, cond_args, rwVars>>
  \/ CondStep /\ UNCHANGED <<threadVars, programVars, rwVars>>
  \/ iterate
  \/ reader
  \/ writer

RWNext ==
  \/ RWCpuStep
  \/ Preempt /\ UNCHANGED <<threadVars, programVars, syncVars, rwVars>>

RWSpec == RWInit /\ [][RWNext]_rwSysVars

-----------------------------------------------------------------------------
(* Properties.                                                             *)

\* Thread t has entered and has not begun to leave.
Reading(t) == line[t] \in {"rl_unlock", "read", "ru_lock", "ru_leave"}
Writing(t) == Writer(t) /\ line[t] \in {"wl_unlock", "load", "write", "hold", "wu_lock", "wu_leave"}

\* "Multiple readers may read concurrently; writers need exclusive access":
\* while a writer is in, nobody else is, however threads are preempted and
\* whoever barges in between a signal and the thread it wakes.
WritersExclude ==
  \A t, u \in Tids : t # u /\ Writing(t) => ~Writing(u) /\ ~Reading(u)

\* "If a writer is waiting, new readers wait too": a reader enters only while
\* no writer has asked and not yet entered.
WritersPreferred ==
  [][\A t \in Tids : ~Reading(t) /\ Reading(t)' =>
       ~\E u \in Tids : line[u] \in {"wl_test", "wl_enter"}]_rwSysVars

\* How many increments of shared_data thread t has made.
Increments(t) ==
  IF ~Writer(t) THEN 0
  ELSE IF line[t] = "return" THEN g_iters
  ELSE IF line[t] \in {"start", "hold", "wu_lock", "wu_leave", "wu_signal", "wu_broadcast", "wu_unlock", "gap"} THEN count[t]
  ELSE count[t] - 1

\* All increments made; <<t, i>> is the i-th of thread t.
Made == UNION {{t} \X (1 .. Increments(t)) : t \in Tids}

\* S has n elements: they can be numbered from 1 to n.
Counts(n, S) ==
  /\ n \in Nat
  /\ \E e \in [1 .. n -> S] : IsInjective(e) /\ Range(e) = S

\* No increment is lost, although shared_data++ is a load and a store that can
\* be preempted: shared_data is the number of increments made.  So main finds
\* g_nw * g_iters at the end if every writer could be created.
NoWriteLost == Counts(shared_data, Made)

-----------------------------------------------------------------------------
(* The facts that make WritersExclude, NeverAllAsleep and NoWriteLost      *)
(* inductive.                                                              *)

\* The lines from the return of uth_mutex_lock to the call of uth_mutex_unlock.
CriticalLines ==
  {"rl_test", "rl_enter", "rl_unlock", "ru_leave", "ru_signal", "ru_unlock",
   "wl_ask", "wl_test", "wl_enter", "wl_unlock", "wu_leave", "wu_signal", "wu_broadcast", "wu_unlock"}

\* Thread t is in uth_mutex_lock and does not have the mutex yet.
Locking(t) == Place(t) \in {"lock_xchg", "lock_block", "lock_swap", "lock_own"}

\* Thread t is in uth_cond_wait and has not slept yet.
GoesToSleep(t) == cond_args[t] # NoArgs /\ Place(t) \notin {"cond_swap", "cond_relock"}

\* What thread t waits for at line l.
Awaited(l) == [cond |-> IF l = "rl_test" THEN can_read ELSE can_write, mutex |-> lock]

\* The library call thread t is in is the one before its line, and t holds the
\* mutex in the critical lines except while uth_cond_wait has released it.
LockOf(t) ==
  /\ Place(t) \in MutexLabels => obj[t] = lock
  /\ Locking(t) => line[t] \in {"rl_test", "ru_leave", "wl_ask", "wl_test", "wu_leave"}
  /\ cond_args[t] # NoArgs => line[t] \in {"rl_test", "wl_test"} /\ cond_args[t] = Awaited(line[t])
  /\ Place(t) = "unlock_free" /\ cond_args[t] = NoArgs => line[t] \in {"read", "gap", "load"}
  /\ Place(t) = "signal_wake" => obj[t] = can_write /\ line[t] \in {"ru_unlock", "wu_unlock"}
  /\ Place(t) = "broadcast_wake" => obj[t] = can_read /\ line[t] = "wu_unlock"
  /\ state[t] = "BLOCKED" /\ obj[t] \in Conds =>
       Place(t) \in {"cond_swap", "cond_relock"} /\ obj[t] = cond_args[t].cond
  /\ obj[t] \in Mutexes \cup Conds \cup {"none"}
  /\ held[t] = IF \/ Place(t) \in {"unlock_free", "cond_unlock"}
                  \/ line[t] \in CriticalLines /\ ~Locking(t) /\ cond_args[t] = NoArgs
               THEN {lock} ELSE {}

\* The counters count the threads that are in or have asked.
Readers == {t \in Tids : line[t] \in {"rl_unlock", "read", "ru_lock", "ru_leave"}}
Writers == {t \in Tids : line[t] \in {"wl_unlock", "load", "write", "hold", "wu_lock", "wu_leave"}}
Asking == {t \in Tids : line[t] \in {"wl_test", "wl_enter"}}

CountInv ==
  /\ Counts(active_readers, Readers)
  /\ Counts(active_writers, Writers)
  /\ Counts(waiting_writers, Asking)
  /\ active_writers <= 1 /\ (active_writers = 0 \/ active_readers = 0)

\* What a thread has found in the counters is still so when it enters or sleeps.
TestInv ==
  \A t \in Tids :
    /\ line[t] = "rl_enter" => ~must_wait
    /\ line[t] = "wl_enter" => ~somebody_in
    /\ GoesToSleep(t) => IF line[t] = "rl_test" THEN must_wait ELSE somebody_in

\* Thread t is about to signal can_write, is a writer that has asked and does
\* not sleep there, or is about to wake all readers.
Signals(t) == line[t] \in {"ru_signal", "wu_signal"} \/ Place(t) = "signal_wake"
Testing(t) == t \in Asking /\ ~(state[t] = "BLOCKED" /\ obj[t] = can_write)
Broadcasts(t) == line[t] = "wu_broadcast" \/ Place(t) = "broadcast_wake"

\* While a writer sleeps on can_write, somebody is in, a signal is coming, or
\* another writer is going to test; while a reader sleeps on can_read, a writer
\* is in or has asked, or a broadcast is coming.
WakeInv ==
  /\ waiters[can_write] # <<>> => somebody_in \/ \E t \in Tids : Signals(t) \/ Testing(t)
  /\ waiters[can_read] # <<>> => must_wait \/ \E t \in Tids : Broadcasts(t)

RWInv == (\A t \in Tids : LockOf(t)) /\ CountInv /\ TestInv /\ WakeInv

RWIndInv == ThreadIndInv /\ CondIndInv /\ ProgramTypeOK /\ ProgramInv /\ RWInv

\* The lines of reader() and writer() after the test of their loops.
ReaderLines ==
  {"rl_lock", "rl_test", "rl_enter", "rl_unlock", "read", "ru_lock", "ru_leave", "ru_signal", "ru_unlock"}
WriterLines ==
  {"wl_lock", "wl_ask", "wl_test", "wl_enter", "wl_unlock", "load", "write", "hold",
   "wu_lock", "wu_leave", "wu_signal", "wu_broadcast", "wu_unlock"}

\* A thread executes the function driver() gave it, in one of its iterations,
\* and what it has loaded from shared_data is still there when it stores.
LoopOf(t) ==
  /\ state[t] = "NONE" => count[t] = 0
  /\ line[t] \in ReaderLines => Reader(t)
  /\ line[t] \in WriterLines => Writer(t)
  /\ line[t] # "return" => count[t] \in (IF line[t] = "start" THEN 0 ELSE 1) .. g_iters
  /\ line[t] = "write" => tmp[t] = shared_data

WriteInv == DOMAIN tmp = Tids /\ (\A t \in Tids \ {Driver} : LoopOf(t)) /\ NoWriteLost
=============================================================================
