------------------------ MODULE ReadersWritersProofs ------------------------
(***************************************************************************)
(* The readers-writers lock for any number of readers, writers and         *)
(* iterations, with and without preemption: RWIndInv of module             *)
(* ReadersWriters is inductive, so a writer is alone, a reader enters only *)
(* if no writer waits, no increment of shared_data is lost (WriteInv is    *)
(* inductive relative to RWIndInv), and the threads are never all asleep.  *)
(***************************************************************************)
EXTENDS ReadersWritersLemmas

-----------------------------------------------------------------------------
(* The specification.                                                      *)

\* The inductive invariant holds when main() starts.
LEMMA RWInitInv == RWInit => RWIndInv
<1> SUFFICES ASSUME RWInit PROVE RWIndInv
  OBVIOUS
<1>1. ThreadIndInv /\ ProgramTypeOK /\ ProgramInv
  BY ProgramInitInv, ZenonT(30) DEF RWInit
<1>2. /\ locked = [m \in Mutexes |-> FALSE] /\ owner = [m \in Mutexes |-> NULL]
      /\ held = [t \in Tids |-> {}] /\ pc = "main" /\ waiters = [o \in Objs |-> <<>>]
      /\ line = [t \in Tids |-> IF t = Driver THEN "create" ELSE "start"]
      /\ cond_args = [t \in Tids |-> NoArgs]
      /\ \A t \in Tids : state[t] = "NONE" /\ ctx[t] = NewContext /\ obj[t] = "none" /\ frames[t] = <<>>
      /\ active_readers = 0 /\ active_writers = 0 /\ waiting_writers = 0
  BY ZenonT(30) DEF RWInit, ProgramInit, ThreadInit, uth_mutex_init
<1>3. \A t \in Tids : Place(t) = "user" /\ cond_args[t] = NoArgs /\ held[t] = {} /\ line[t] \in {"create", "start"}
  BY <1>2 DEF Place, OnCpu, SchedLabels, NewContext
<1>4. MutexIndInv
  <2>1. MutexTypeOK
    BY <1>1, <1>2, ZenonT(30) DEF MutexTypeOK, ThreadIndInv, SchedInv
  <2>2. MutualExclusion /\ NoLostWakeup
    BY <1>2, MutexAssumption, ZenonT(30) DEF MutualExclusion, NoLostWakeup
  <2>3. MutexInv
    BY <1>2, <1>3, ZenonT(30) DEF MutexInv, MutexLabels, CallInv
  <2> QED
    BY <1>1, <2>1, <2>2, <2>3, ZenonT(30) DEF MutexIndInv, ThreadIndInv
<1>5. CondIndInv
  <2>1. CondTypeOK
    BY <1>2, <1>4, ZenonT(30) DEF CondTypeOK, MutexIndInv, NoArgs
  <2>2. \A t \in Tids : WaiterInv(t)
    BY <1>2, <1>3, Len(<<>>) = 0 DEF WaiterInv, CondLabels
  <2> QED
    BY <1>2, <1>4, <2>1, <2>2, ZenonT(30) DEF CondIndInv, CondInv
<1>6. ASSUME NEW t \in Tids PROVE LockOf(t) /\ t \notin Readers /\ t \notin Writers /\ t \notin Asking
  <2>1. ~Locking(t) /\ Place(t) \notin MutexLabels /\ line[t] \notin CriticalLines
    BY <1>3, ZenonT(30) DEF Locking, MutexLabels, CriticalLines
  <2>2. LockOf(t)
    BY <1>2, <1>3, <2>1, ZenonT(30) DEF LockOf
  <2> QED
    BY <1>3, <2>2, ZenonT(30) DEF Readers, Writers, Asking
<1>7. CountInv
  <2>1. Readers = {} /\ Writers = {} /\ Asking = {}
    BY <1>6, ZenonT(30) DEF Readers, Writers, Asking
  <2> QED
    BY <1>2, <2>1, CountedNone DEF CountInv
<1>8. TestInv
  BY <1>3, ZenonT(30) DEF TestInv, GoesToSleep
<1>9. WakeInv
  BY <1>2, RWObjects, ZenonT(30) DEF WakeInv
<1> QED
  BY <1>1, <1>5, <1>6, <1>7, <1>8, <1>9, ZenonT(30) DEF RWIndInv, RWInv

\* Nothing happens.
LEMMA RWStutter ==
  ASSUME RWIndInv, UNCHANGED rwSysVars
  PROVE  RWIndInv'
<1>1. /\ UNCHANGED <<schedVars, threadVars, programVars, mutexVars, cond_args>>
      /\ UNCHANGED <<active_readers, active_writers, waiting_writers, held, waiters, state, obj, line>>
  BY ZenonT(30) DEF rwSysVars, syncVars, rwVars, schedVars, mutexVars, programVars
<1>2. \A t \in Tids : Place(t)' = Place(t)
  BY <1>1, ZenonT(30) DEF schedVars, Place, OnCpu
<1>3. ThreadIndInv'
  BY <1>1, ThreadNextInv, ZenonT(30) DEF threadSysVars, RWIndInv
<1>4. CondIndInv'
  BY <1>1, CondNextInv, ZenonT(30) DEF condSysVars, RWIndInv
<1>5. ProgramTypeOK' /\ ProgramInv'
  BY <1>1, <1>2, ZenonT(30) DEF threadVars, programVars, ProgramTypeOK, ProgramInv, RWIndInv
<1>6. \A t \in Tids : LockOf(t)' /\ Steady(t) /\ (Signals(t)' <=> Signals(t)) /\ (Broadcasts(t)' <=> Broadcasts(t))
  BY <1>1, <1>2, Bystander, ZenonT(30) DEF RWIndInv, RWInv
<1>7. CountInv' /\ TestInv' /\ WakeInv'
  BY <1>1, <1>6, SteadyStep, ZenonT(30) DEF RWIndInv
<1> QED
  BY <1>3, <1>4, <1>5, <1>6, <1>7, ZenonT(30) DEF RWIndInv, RWInv

\* Every step of the program preserves the inductive invariant.
LEMMA RWNextInv == RWIndInv /\ [RWNext]_rwSysVars => RWIndInv'
<1> SUFFICES ASSUME RWIndInv, [RWNext]_rwSysVars PROVE RWIndInv'
  OBVIOUS
<1>1. CASE ProgramStep /\ UNCHANGED <<syncVars, rwVars>>
  BY <1>1, RWShared, ZenonT(30)
<1>2. CASE MutexStep /\ UNCHANGED <<threadVars, programVars, cond_args, rwVars>>
  BY <1>2, RWMutex, ZenonT(30)
<1>3. CASE CondStep /\ UNCHANGED <<threadVars, programVars, rwVars>>
  BY <1>3, RWCond, ZenonT(30)
<1>4. CASE iterate \/ reader \/ writer
  BY <1>4, RWThreads, ZenonT(30)
<1>5. CASE Preempt /\ UNCHANGED <<threadVars, programVars, syncVars, rwVars>>
  BY <1>5, RWShared, ZenonT(30)
<1>6. CASE UNCHANGED rwSysVars
  BY <1>6, RWStutter, ZenonT(30)
<1> QED
  BY <1>1, <1>2, <1>3, <1>4, <1>5, <1>6, ZenonT(30) DEF RWNext, RWCpuStep

\* The library and the program stay correct together: the scheduler, the
\* threads, the mutex and the condition variables keep their invariants when
\* reader() and writer() use them, the counters count the threads that are in
\* or have asked, what a thread has tested stays so until it enters or sleeps,
\* and whoever sleeps has somebody to wake it.
THEOREM RWCorrect == RWSpec => []RWIndInv
BY RWInitInv, RWNextInv, PTL DEF RWSpec

-----------------------------------------------------------------------------
(* What follows from it.                                                   *)

\* The counters keep everybody out while a writer is in.
LEMMA WriterIsAlone == RWIndInv => WritersExclude
<1> SUFFICES ASSUME RWIndInv, NEW t \in Tids, NEW u \in Tids, t # u, Writing(t), Writing(u) \/ Reading(u) PROVE FALSE
  BY ZenonT(30) DEF WritersExclude
<1>1. t \in Writers /\ (u \in Writers \/ u \in Readers) /\ Writers \in SUBSET Tids /\ Readers \in SUBSET Tids
  BY ZenonT(30) DEF Writing, Reading, Writers, Readers
<1>2. /\ Counts(active_readers, Readers) /\ Counts(active_writers, Writers)
      /\ active_writers <= 1 /\ (active_writers = 0 \/ active_readers = 0)
  BY ZenonT(30) DEF RWIndInv, RWInv, CountInv
<1> HIDE DEF Writers, Readers
<1>3. active_writers = 1 /\ active_readers = 0
  <2>1. active_writers \in Nat /\ active_writers # 0
    BY <1>1, <1>2, CountedSize, ZenonT(30)
  <2> QED
    BY <1>2, <2>1
<1>4. u \notin Readers
  BY <1>2, <1>3, CountedSize, ZenonT(30)
<1>5. u \notin Writers
  BY <1>1, <1>2, <1>3, CountedSize, ZenonT(30)
<1> QED
  BY <1>1, <1>4, <1>5, ZenonT(30)

\* "Multiple readers may read concurrently; writers need exclusive access":
\* while a writer is in, nobody else is.
THEOREM RWExcludes == RWSpec => []WritersExclude
BY WriterIsAlone, RWCorrect, PTL

\* The lines before the store of shared_data++ and those after it.
BeforeStore == {"wl_lock", "wl_ask", "wl_test", "wl_enter", "wl_unlock", "load"}
AfterStore == {"hold", "wu_lock", "wu_leave", "wu_signal", "wu_broadcast", "wu_unlock"}

\* From line l to line `next' without shared_data++ and without the test of the
\* loop; a thread comes among the readers only from "rl_enter".
Flows(l, next) ==
  \/ /\ l \in ReaderLines /\ next \in ReaderLines \cup {"gap"}
     /\ next \in {"rl_unlock", "read", "ru_lock", "ru_leave"} => l \in {"rl_enter", "rl_unlock", "read", "ru_lock"}
  \/ l \in BeforeStore /\ next \in BeforeStore
  \/ l \in AfterStore /\ next \in AfterStore \cup {"gap"}
  \/ l = "gap" /\ next = "start"

\* What a line of reader() or writer() does to the loop and to shared_data.
Flow(l, next) == Flows(l, next) /\ Line(l, next) /\ UNCHANGED <<count, shared_data, tmp>>
Load == Line("load", "write") /\ tmp' = [tmp EXCEPT ![Me] = shared_data] /\ UNCHANGED <<count, shared_data>>
Store == Line("write", "hold") /\ shared_data' = tmp[Me] + 1 /\ UNCHANGED <<count, tmp>>
Iterate ==
  /\ Line("start", IF count[Me] < g_iters THEN IF Writer(Me) THEN "wl_lock" ELSE "rl_lock" ELSE "return")
  /\ count' = [count EXCEPT ![Me] = @ + 1]
  /\ UNCHANGED <<shared_data, tmp>>

\* Every line of reader() and writer() goes on without touching shared_data,
\* loads it, stores it or starts the next iteration.
LEMMA RWLines ==
  ASSUME iterate \/ reader \/ writer
  PROVE  /\ UNCHANGED <<state, arg>>
         /\ (\E l, next : Flow(l, next)) \/ Load \/ Store \/ Iterate
<1> DEFINE Goal == /\ UNCHANGED <<state, arg>>
                   /\ (\E l, next : Flow(l, next)) \/ Load \/ Store \/ Iterate
           Goes(l, next) == Line(l, next) /\ UNCHANGED <<state, arg, count, shared_data, tmp>>
<1> SUFFICES Goal
  OBVIOUS
<1>1. ASSUME NEW l, NEW next PROVE acquire(l, next) \/ release(l, next) \/ pause(l, next) => Goes(l, next)
  BY ZenonT(30) DEF acquire, release, pause, uth_mutex_lock, uth_mutex_unlock, yield, uth_yield, Enter, rwVars
<1>2. ASSUME NEW l, NEW next, NEW d
      PROVE  (\/ on_cond(l, next, uth_cond_signal(d)) \/ on_cond(l, next, uth_cond_broadcast(d))
              \/ on_cond(l, next, uth_cond_wait(d, lock))) => Goes(l, next)
  BY ZenonT(30) DEF on_cond, uth_cond_signal, uth_cond_broadcast, uth_cond_wait, Enter, rwVars
<1>3. ASSUME NEW l, NEW next PROVE Compute(l, next) /\ UNCHANGED <<shared_data, tmp>> => Goes(l, next)
  BY ZenonT(30) DEF Compute, Local, schedVars
<1>4. ASSUME NEW l, NEW next, Goes(l, next), Flows(l, next) PROVE Goal
  BY <1>4, ZenonT(30) DEF Flow
<1>5. CASE iterate
  BY <1>5, ZenonT(30) DEF iterate, for, Local, schedVars, rwVars, Iterate, Me
<1>6. CASE increment
  BY <1>6, ZenonT(30) DEF increment, Compute, Local, schedVars, Load, Store, Me
<1> HIDE DEF Goal, Goes
<1>7. CASE read_lock
  <2>1. \/ Goes("rl_lock", "rl_test") \/ Goes("rl_test", "rl_test") \/ Goes("rl_test", "rl_enter")
        \/ Goes("rl_enter", "rl_unlock") \/ Goes("rl_unlock", "read")
    BY <1>1, <1>2, <1>3, <1>7, ZenonT(30) DEF read_lock, rwVars
  <2> QED
    BY <1>4, <2>1, ZenonT(30) DEF Flows, ReaderLines
<1>8. CASE read_unlock \/ pause("read", "ru_lock") \/ pause("gap", "start")
  <2>1. \/ Goes("ru_lock", "ru_leave") \/ Goes("ru_leave", "ru_signal") \/ Goes("ru_leave", "ru_unlock")
        \/ Goes("ru_signal", "ru_unlock") \/ Goes("ru_unlock", "gap")
        \/ Goes("read", "ru_lock") \/ Goes("gap", "start")
    BY <1>1, <1>2, <1>3, <1>8, ZenonT(30) DEF read_unlock
  <2> QED
    BY <1>4, <2>1, ZenonT(30) DEF Flows, ReaderLines
<1>9. CASE write_lock
  <2>1. \/ Goes("wl_lock", "wl_ask") \/ Goes("wl_ask", "wl_test") \/ Goes("wl_test", "wl_test")
        \/ Goes("wl_test", "wl_enter") \/ Goes("wl_enter", "wl_unlock") \/ Goes("wl_unlock", "load")
    BY <1>1, <1>2, <1>3, <1>9, ZenonT(30) DEF write_lock, rwVars
  <2> QED
    BY <1>4, <2>1, ZenonT(30) DEF Flows, BeforeStore
<1>10. CASE write_unlock \/ pause("hold", "wu_lock")
  <2>1. \/ Goes("wu_lock", "wu_leave") \/ Goes("wu_leave", "wu_signal") \/ Goes("wu_leave", "wu_broadcast")
        \/ Goes("wu_signal", "wu_unlock") \/ Goes("wu_broadcast", "wu_unlock") \/ Goes("wu_unlock", "gap")
        \/ Goes("hold", "wu_lock")
    BY <1>1, <1>2, <1>3, <1>10, ZenonT(30) DEF write_unlock, wake_next
  <2> QED
    BY <1>4, <2>1, ZenonT(30) DEF Flows, AfterStore
<1> QED
  BY <1>5, <1>6, <1>7, <1>8, <1>9, <1>10, ZenonT(30) DEF reader, writer

\* A step of a thread brings it among the readers only from "rl_enter".
LEMMA RWEnters ==
  ASSUME DOMAIN line = Tids, iterate \/ reader \/ writer, NEW t \in Tids, ~Reading(t), Reading(t)'
  PROVE  t = uth_current /\ line[t] = "rl_enter"
<1>1. CASE \E l, next : Flow(l, next)
  BY <1>1 DEF Flow, Flows, Line, Me, Reading, ReaderLines, BeforeStore, AfterStore
<1>2. CASE Load \/ Store \/ Iterate
  BY <1>2 DEF Load, Store, Iterate, Line, Me, Reading
<1> QED
  BY <1>1, <1>2, RWLines, ZenonT(30)

\* A reader that enters has found no waiting writer.
LEMMA WritersGoFirst ==
  ASSUME RWIndInv, [RWNext]_rwSysVars, NEW t \in Tids, ~Reading(t), Reading(t)'
  PROVE  ~\E u \in Tids : line[u] \in {"wl_test", "wl_enter"}
<1>1. DOMAIN line = Tids /\ RWIndInv'
  BY RWNextInv, ZenonT(30) DEF RWIndInv, ProgramTypeOK
<1>2. t # Driver
  BY <1>1, ZenonT(30) DEF RWIndInv, ProgramInv, Reading
<1>3. ~(ProgramStep /\ UNCHANGED <<syncVars, rwVars>>)
  <2> SUFFICES ASSUME ProgramStep PROVE FALSE
    BY ZenonT(30)
  <2>1. ProgramFrame
    BY ProgramStepInv, ZenonT(30) DEF RWIndInv
  <2> QED
    BY <1>2, <2>1, ZenonT(30) DEF ProgramFrame, Reading
<1>4. line' # line
  BY ZenonT(30) DEF Reading
<1>5. iterate \/ reader \/ writer
  BY <1>3, <1>4, ZenonT(30) DEF RWNext, RWCpuStep, rwSysVars, programVars
<1>6. line[t] = "rl_enter"
  BY <1>1, <1>5, RWEnters, ZenonT(30)
<1>7. ~must_wait /\ Counts(waiting_writers, Asking)
  BY <1>6, ZenonT(30) DEF RWIndInv, RWInv, TestInv, CountInv
<1>8. waiting_writers \in Nat /\ (waiting_writers = 0 <=> Asking = {})
  BY <1>7, CountedSize, ZenonT(30)
<1>9. Asking = {}
  BY <1>7, <1>8 DEF must_wait
<1> QED
  BY <1>9, ZenonT(30) DEF Asking

\* "If a writer is waiting, new readers wait too": no reader enters while a
\* writer has asked and has not entered.
THEOREM RWPrefers == RWSpec => WritersPreferred
<1>1. RWIndInv /\ [RWNext]_rwSysVars =>
        [\A t \in Tids : ~Reading(t) /\ Reading(t)' => ~\E u \in Tids : line[u] \in {"wl_test", "wl_enter"}]_rwSysVars
  BY WritersGoFirst, ZenonT(30)
<1> QED
  BY <1>1, RWCorrect, PTL DEF RWSpec, WritersPreferred

-----------------------------------------------------------------------------
(* No write is lost.                                                       *)

\* No increment is made.
LEMMA NothingMade ==
  ASSUME NoWriteLost, shared_data' = shared_data, \A t \in Tids : Increments(t)' = Increments(t)
  PROVE  NoWriteLost'
<1>1. Made' = Made
  BY ZenonT(30) DEF Made
<1> QED
  BY <1>1, ZenonT(30) DEF NoWriteLost

\* The steps that are not lines of reader() or writer().
LEMMA LoopUntouched ==
  ASSUME RWIndInv, WriteInv, UNCHANGED <<shared_data, tmp>>,
         \A t \in Tids \ {Driver} : line'[t] = line[t] /\ count'[t] = count[t],
         \A t \in Tids : arg'[t] = arg[t] \/ state[t] = "NONE",
         \A t \in Tids : state'[t] = "NONE" => state[t] = "NONE"
  PROVE  WriteInv'
<1>1. ASSUME NEW t \in Tids \ {Driver}, state[t] = "NONE"
      PROVE  Increments(t) = 0 /\ Increments(t)' = 0 /\ LoopOf(t)'
  <2>1. line[t] = "start" /\ line'[t] = "start" /\ count[t] = 0 /\ count'[t] = 0
    BY <1>1, ZenonT(30) DEF RWIndInv, ProgramInv, WriteInv, LoopOf
  <2>2. 0 \in 0 .. g_iters
    BY ReadersWritersAssumption
  <2> QED
    BY <2>1, <2>2, ZenonT(30) DEF Increments, LoopOf, ReaderLines, WriterLines
<1>2. ASSUME NEW t \in Tids \ {Driver}, state[t] # "NONE"
      PROVE  Increments(t)' = Increments(t) /\ LoopOf(t)'
  BY <1>2, ZenonT(30) DEF WriteInv, LoopOf, Increments, Reader, Writer
<1>3. Increments(Driver)' = Increments(Driver)
  BY ZenonT(30) DEF Increments, Writer
<1>4. NoWriteLost'
  BY <1>1, <1>2, <1>3, NothingMade, ZenonT(30) DEF WriteInv
<1> QED
  BY <1>1, <1>2, <1>4, ZenonT(30) DEF WriteInv

\* A line of thread c leaves the loops of the other threads alone.
LEMMA LoopOthers ==
  ASSUME NEW c \in Tids, NEW t \in Tids \ {c, Driver}, LoopOf(t), UNCHANGED <<state, arg>>,
         line'[t] = line[t], count'[t] = count[t], line[t] = "write" => UNCHANGED <<shared_data, tmp[t]>>
  PROVE  LoopOf(t)' /\ Increments(t)' = Increments(t)
BY ZenonT(30) DEF LoopOf, Increments, Reader, Writer

\* An iteration of writer() begins; it makes its increment at the store.
LEMMA LoopInv ==
  ASSUME RWIndInv, WriteInv, iterate \/ reader \/ writer
  PROVE  WriteInv'
<1>1. UNCHANGED <<state, arg>>
  BY RWLines, ZenonT(30)
<1>2. ASSUME NEW l, NEW next, Line(l, next), l \notin {"create", "store", "join", "return"}
      PROVE  \E c \in Tids \ {Driver} :
               /\ c = Me /\ line[c] = l /\ line'[c] = next /\ count[c] \in Int /\ LoopOf(c)
               /\ state[c] # "NONE"
               /\ \A t \in Tids \ {c} : line'[t] = line[t]
  <2>1. /\ uth_current \in Tids \ {Driver} /\ line[uth_current] = l /\ line'[uth_current] = next
        /\ count[uth_current] \in Int /\ state[uth_current] # "NONE"
    BY <1>2, UserHas, ZenonT(30)
  <2> QED
    BY <1>2, <2>1, ZenonT(30) DEF Line, Me, WriteInv, RWIndInv, ProgramTypeOK
<1>3. /\ DOMAIN count = Tids /\ DOMAIN tmp = Tids /\ g_iters \in Nat
      /\ \A t \in Tids \ {Driver} : (Reader(t) <=> ~Writer(t)) /\ (Reader(t)' <=> Reader(t)) /\ (Writer(t)' <=> Writer(t))
  <2>1. DOMAIN count = Tids /\ arg \in [Tids -> Indices] /\ \A i \in Indices : i \in Int
    BY DEF RWIndInv, ProgramTypeOK, Indices
  <2>2. g_iters \in Nat /\ \A i \in Int : i >= g_nw <=> ~(i < g_nw)
    BY ReadersWritersAssumption
  <2> QED
    BY <1>1, <2>1, <2>2, ZenonT(30) DEF Reader, Writer, WriteInv
<1>4. CASE \E l, next : Flow(l, next)
  <2>1. PICK l, next : Flows(l, next) /\ Line(l, next) /\ UNCHANGED <<count, shared_data, tmp>>
    BY <1>4, ZenonT(30) DEF Flow
  <2>2. l \notin {"create", "store", "join", "return", "start", "write"} /\ next \notin {"return", "write"}
    BY <2>1, ZenonT(30) DEF Flows, ReaderLines, BeforeStore, AfterStore
  <2>3. PICK c \in Tids \ {Driver} : /\ line[c] = l /\ line'[c] = next /\ LoopOf(c)
                                     /\ \A t \in Tids \ {c} : line'[t] = line[t]
    BY <1>2, <2>1, <2>2, ZenonT(30)
  <2>4. count'[c] = count[c] /\ count[c] \in 1 .. g_iters /\ count[c] \in 0 .. g_iters /\ state'[c] = state[c]
    <3>1. count[c] \in 1 .. g_iters
      BY <2>2, <2>3, ZenonT(30) DEF LoopOf
    <3> QED
      BY <1>1, <2>1, <3>1
  <2>5. LoopOf(c)' /\ Increments(c)' = Increments(c)
    <3>1. CASE l \in ReaderLines /\ next \in ReaderLines \cup {"gap"}
      BY <1>3, <2>2, <2>3, <2>4, <3>1, ZenonT(30) DEF LoopOf, Increments, ReaderLines, WriterLines
    <3>2. CASE l \in BeforeStore /\ next \in BeforeStore
      BY <1>3, <2>2, <2>3, <2>4, <3>2, ZenonT(30) DEF LoopOf, Increments, BeforeStore, ReaderLines, WriterLines
    <3>3. CASE l \in AfterStore /\ next \in AfterStore \cup {"gap"}
      BY <1>3, <2>2, <2>3, <2>4, <3>3, ZenonT(30) DEF LoopOf, Increments, AfterStore, ReaderLines, WriterLines
    <3>4. CASE l = "gap" /\ next = "start"
      BY <1>3, <2>2, <2>3, <2>4, <3>4, ZenonT(30) DEF LoopOf, Increments, ReaderLines, WriterLines
    <3> QED
      BY <2>1, <3>1, <3>2, <3>3, <3>4, ZenonT(30) DEF Flows
  <2>6. \A t \in Tids \ {c, Driver} : LoopOf(t)' /\ Increments(t)' = Increments(t)
    BY <1>1, <2>1, <2>3, LoopOthers, ZenonT(30) DEF WriteInv
  <2> QED
    BY <1>3, <2>1, <2>5, <2>6, NothingMade, ZenonT(30) DEF WriteInv, Increments, Writer
<1>5. CASE Load
  <2>1. PICK c \in Tids \ {Driver} : /\ c = Me /\ line[c] = "load" /\ line'[c] = "write" /\ LoopOf(c)
                                     /\ \A t \in Tids \ {c} : line'[t] = line[t]
    BY <1>2, <1>5, ZenonT(30) DEF Load
  <2>2. UNCHANGED <<count, shared_data>> /\ tmp' = [tmp EXCEPT ![c] = shared_data]
    BY <1>5, <2>1, ZenonT(30) DEF Load
  <2>3. DOMAIN tmp' = Tids /\ tmp'[c] = shared_data /\ \A t \in Tids \ {c} : tmp'[t] = tmp[t]
    BY <1>3, <2>2, ZenonT(30)
  <2>4. LoopOf(c)' /\ Increments(c)' = Increments(c)
    BY <1>1, <1>3, <2>1, <2>2, <2>3, ZenonT(30) DEF LoopOf, Increments, ReaderLines, WriterLines
  <2>5. \A t \in Tids \ {c, Driver} : LoopOf(t)' /\ Increments(t)' = Increments(t)
    BY <1>1, <2>1, <2>2, <2>3, LoopOthers, ZenonT(30) DEF WriteInv
  <2> QED
    BY <2>2, <2>3, <2>4, <2>5, NothingMade, ZenonT(30) DEF WriteInv, Increments, Writer
<1>6. CASE Store
  <2>1. PICK c \in Tids \ {Driver} : /\ c = Me /\ line[c] = "write" /\ line'[c] = "hold" /\ LoopOf(c)
                                     /\ \A t \in Tids \ {c} : line'[t] = line[t]
    BY <1>2, <1>6, ZenonT(30) DEF Store
  <2>2. /\ UNCHANGED <<count, tmp>> /\ shared_data' = shared_data + 1 /\ Writer(c)
        /\ count[c] \in 1 .. g_iters /\ count'[c] = count[c]
    BY <1>6, <2>1, ZenonT(30) DEF Store, LoopOf, WriterLines
  <2>3. \A t \in Tids \ {c, Driver} : line[t] # "write"
    <3> SUFFICES ASSUME NEW t \in Tids \ {c, Driver}, line[t] = "write" PROVE FALSE
      BY ZenonT(30)
    <3>1. Writer(t)
      BY ZenonT(30) DEF WriteInv, LoopOf, WriterLines
    <3> QED
      BY <2>1, <2>2, <3>1, WriterIsAlone, ZenonT(30) DEF WritersExclude, Writing
  <2>4. LoopOf(c)'
    BY <1>1, <1>3, <2>1, <2>2, ZenonT(30) DEF LoopOf, ReaderLines, WriterLines
  <2>5. Increments(c) = count[c] - 1 /\ Increments(c)' = count[c]
    BY <1>3, <2>1, <2>2, ZenonT(30) DEF Increments
  <2>6. \A t \in Tids \ {c, Driver} : LoopOf(t)' /\ Increments(t)' = Increments(t)
    BY <1>1, <2>1, <2>2, <2>3, LoopOthers, ZenonT(30) DEF WriteInv
  <2>7. \A t \in Tids \ {c} : Increments(t)' = Increments(t)
    BY <2>6, ZenonT(30) DEF Increments, Writer
  <2>8. 1 .. count[c] = (1 .. (count[c] - 1)) \cup {count[c]} /\ count[c] \notin 1 .. (count[c] - 1)
    BY <1>3, <2>2
  <2>9. Made' = Made \cup {<<c, count[c]>>} /\ <<c, count[c]>> \notin Made
    <3>1. /\ Made = {p \in Tids \X Int : p[2] \in 1 .. Increments(p[1])}
          /\ Made' = {p \in Tids \X Int : p[2] \in 1 .. Increments(p[1])'}
      BY DEF Made
    <3> HIDE DEF Made, Increments
    <3> QED
      BY <2>2, <2>5, <2>7, <2>8, <3>1, SMTT(30)
  <2>10. NoWriteLost'
    BY <2>2, <2>9, CountedAdd, ZenonT(30) DEF WriteInv, NoWriteLost
  <2> QED
    BY <1>3, <2>2, <2>4, <2>6, <2>10, ZenonT(30) DEF WriteInv
<1>7. CASE Iterate
  <2> DEFINE Next(c) == IF count[c] < g_iters THEN IF Writer(c) THEN "wl_lock" ELSE "rl_lock" ELSE "return"
  <2>1. PICK c \in Tids \ {Driver} :
          /\ line[c] = "start" /\ LoopOf(c) /\ count[c] \in Int /\ line'[c] = Next(c) /\ state[c] # "NONE"
          /\ count' = [count EXCEPT ![c] = @ + 1]
          /\ \A t \in Tids \ {c} : line'[t] = line[t]
    <3>1. Line("start", Next(Me)) /\ count' = [count EXCEPT ![Me] = @ + 1]
      BY <1>7, ZenonT(30) DEF Iterate
    <3> HIDE DEF Next
    <3> QED
      BY <1>2, <3>1, ZenonT(30)
  <2>2. UNCHANGED <<shared_data, tmp>> /\ \A t \in Tids \ {c} : count'[t] = count[t]
    BY <1>3, <1>7, <2>1, ZenonT(30) DEF Iterate
  <2>3. count[c] \in 0 .. g_iters /\ count'[c] = count[c] + 1
    BY <1>3, <2>1, ZenonT(30) DEF LoopOf
  <2>4. /\ count'[c] - 1 = count[c]
        /\ count[c] < g_iters => count'[c] \in 1 .. g_iters
        /\ ~(count[c] < g_iters) => count[c] = g_iters
    BY <1>3, <2>3
  <2>5. LoopOf(c)' /\ Increments(c)' = Increments(c)
    <3>1. CASE count[c] < g_iters
      BY <1>1, <1>3, <2>1, <2>4, <3>1, ZenonT(30) DEF LoopOf, Increments, ReaderLines, WriterLines
    <3>2. CASE ~(count[c] < g_iters)
      BY <1>1, <1>3, <2>1, <2>4, <3>2, ZenonT(30) DEF LoopOf, Increments, ReaderLines, WriterLines
    <3> QED
      BY <3>1, <3>2, ZenonT(30)
  <2>6. \A t \in Tids \ {c, Driver} : LoopOf(t)' /\ Increments(t)' = Increments(t)
    BY <1>1, <2>1, <2>2, LoopOthers, ZenonT(30) DEF WriteInv
  <2> QED
    BY <1>3, <2>2, <2>5, <2>6, NothingMade, ZenonT(30) DEF WriteInv, Increments, Writer
<1> QED
  BY <1>4, <1>5, <1>6, <1>7, RWLines, ZenonT(30)

\* No increment has been made when main() starts.
LEMMA WriteInit == RWInit => WriteInv
<1> SUFFICES ASSUME RWInit PROVE WriteInv
  OBVIOUS
<1>1. /\ shared_data = 0 /\ DOMAIN tmp = Tids /\ count = [t \in Tids |-> 0]
      /\ line = [t \in Tids |-> IF t = Driver THEN "create" ELSE "start"]
  BY ZenonT(30) DEF RWInit, ProgramInit
<1>2. 0 \in 0 .. g_iters /\ 1 .. 0 = {}
  BY ReadersWritersAssumption
<1>3. \A t \in Tids \ {Driver} : LoopOf(t)
  BY <1>1, <1>2, ZenonT(30) DEF LoopOf, ReaderLines, WriterLines
<1>4. \A t \in Tids : Increments(t) = 0
  BY <1>1, ZenonT(30) DEF Increments, Writer
<1>5. Made = {}
  BY <1>2, <1>4, ZenonT(30) DEF Made
<1> QED
  BY <1>1, <1>3, <1>5, CountedNone, ZenonT(30) DEF WriteInv, NoWriteLost

\* Every step of the program makes the increments shared_data counts.
LEMMA WriteNext == RWIndInv /\ RWIndInv' /\ WriteInv /\ [RWNext]_rwSysVars => WriteInv'
<1> SUFFICES ASSUME RWIndInv, RWIndInv', WriteInv, [RWNext]_rwSysVars PROVE WriteInv'
  OBVIOUS
<1>1. CASE iterate \/ reader \/ writer
  BY <1>1, LoopInv, ZenonT(30)
<1>2. CASE ProgramStep /\ UNCHANGED <<syncVars, rwVars>>
  <2>1. LifecycleStep /\ ProgramFrame
    BY <1>2, ProgramStepInv, ZenonT(30) DEF RWIndInv
  <2>2. \A t \in Tids : state'[t] = "NONE" => state[t] = "NONE"
    BY <2>1, ZenonT(30) DEF LifecycleStep
  <2> QED
    BY <1>2, <2>1, <2>2, LoopUntouched, ZenonT(30) DEF ProgramFrame, rwVars
<1>3. CASE UNCHANGED <<threadVars, programVars, rwVars>>
  <2>1. \A t \in Tids : (state[t] = "NONE" <=> t >= next_tid) /\ (state'[t] = "NONE" <=> t >= next_tid')
    BY ZenonT(30) DEF RWIndInv, ThreadIndInv, ThreadInv
  <2>2. next_tid' = next_tid /\ UNCHANGED <<shared_data, tmp, line, count, arg>>
    BY <1>3, ZenonT(30) DEF threadVars, programVars, rwVars
  <2> QED
    BY <2>1, <2>2, LoopUntouched, ZenonT(30)
<1> QED
  BY <1>1, <1>2, <1>3, ZenonT(30) DEF RWNext, RWCpuStep, rwSysVars

\* No increment is lost, although shared_data++ is a load and a store that can
\* be preempted: shared_data is at all times the number of increments made.
THEOREM RWNoWriteLost == RWSpec => []NoWriteLost
<1>1. WriteInv => NoWriteLost
  BY DEF WriteInv
<1> QED
  BY <1>1, WriteInit, WriteNext, RWCorrect, PTL DEF RWSpec

-----------------------------------------------------------------------------
(* The threads are never all asleep.                                       *)

\* Where a thread is that does not run: a thread that has not started or has
\* returned and the driver are outside the lock, and the others sleep in it.
AsleepOn(t, o, l) == state[t] = "BLOCKED" /\ obj[t] = o /\ line[t] \in l
Outside(t) ==
  /\ t = Driver \/ t \notin Live
  /\ line[t] \in {"create", "store", "join", "return", "start"}
  /\ Place(t) \notin {"signal_wake", "broadcast_wake"}

\* A thread that is not READY or RUNNING holds no mutex, and is at one of
\* these places.
LEMMA WhereAsleep ==
  ASSUME RWIndInv, NEW t \in Tids, state[t] \notin {"READY", "RUNNING"}
  PROVE  /\ held[t] = {}
         /\ \/ AsleepOn(t, lock, {"rl_test", "ru_leave", "wl_ask", "wl_test", "wu_leave"})
            \/ AsleepOn(t, can_read, {"rl_test"}) /\ Place(t) \in {"cond_swap", "cond_relock"}
            \/ AsleepOn(t, can_write, {"wl_test"}) /\ Place(t) \in {"cond_swap", "cond_relock"}
            \/ Outside(t)
<1>1. /\ LockOf(t)
      /\ state[t] \in {"NONE", "BLOCKED", "ZOMBIE", "FREED"}
  BY ZenonT(30) DEF RWIndInv, RWInv, ThreadIndInv, SchedInv, SchedTypeOK, TCBStates
<1>2. CASE state[t] = "NONE"
  <2>1. Place(t) \in Preemptible /\ t \notin Live
    BY <1>2, ZenonT(30) DEF RWIndInv, ThreadIndInv, ThreadInv, SchedInv, FrameInv, Live
  <2>2. line[t] \in {"create", "store", "join", "return", "start"}
    BY <1>2, ZenonT(30) DEF RWIndInv, ProgramInv
  <2>3. Place(t) \notin {"unlock_free", "cond_unlock", "signal_wake", "broadcast_wake"}
    BY <2>1, ZenonT(30) DEF Preemptible, Unmasked
  <2>4. held[t] = {}
    BY <1>1, <2>2, <2>3, ZenonT(30) DEF LockOf, CriticalLines
  <2>5. Outside(t)
    BY <2>1, <2>2, <2>3, ZenonT(30) DEF Outside
  <2> QED
    BY <2>4, <2>5, ZenonT(30)
<1>3. CASE state[t] \in {"ZOMBIE", "FREED"}
  <2>1. Place(t) \in {"exit_swap", "dead"} /\ t \notin Live /\ line[t] = "return"
    BY <1>3, ZenonT(30) DEF RWIndInv, ThreadIndInv, ThreadInv, ProgramInv, Live
  <2>2. held[t] = {}
    BY <1>1, <2>1, ZenonT(30) DEF LockOf, CriticalLines
  <2> QED
    BY <2>1, <2>2, ZenonT(30) DEF Outside
<1>4. CASE state[t] = "BLOCKED" /\ obj[t] = "none"
  <2>1. Place(t) \in {"join_swap", "join_refind"} /\ t = Driver
    BY <1>4, ZenonT(30) DEF RWIndInv, ThreadIndInv, ThreadInv, AsleepInJoin, ProgramInv, JoinLabels
  <2>2. line[t] \in {"create", "store", "join", "return"}
    BY <2>1, ZenonT(30) DEF RWIndInv, ProgramInv
  <2>3. held[t] = {}
    BY <1>1, <2>1, <2>2, ZenonT(30) DEF LockOf, CriticalLines
  <2> QED
    BY <2>1, <2>2, <2>3, ZenonT(30) DEF Outside
<1>5. CASE state[t] = "BLOCKED" /\ obj[t] \in Mutexes
  <2>1. Place(t) \in {"lock_swap", "lock_xchg"}
    BY <1>5, ZenonT(30) DEF RWIndInv, CondIndInv, MutexIndInv, MutexInv
  <2>2. Locking(t) /\ Place(t) \in MutexLabels /\ Place(t) \notin {"unlock_free", "cond_unlock"}
    BY <2>1, ZenonT(30) DEF Locking, MutexLabels
  <2>3. held[t] = {} /\ obj[t] = lock /\ line[t] \in {"rl_test", "ru_leave", "wl_ask", "wl_test", "wu_leave"}
    BY <1>1, <2>2, ZenonT(30) DEF LockOf
  <2> QED
    BY <1>5, <2>3, ZenonT(30) DEF AsleepOn
<1>6. CASE state[t] = "BLOCKED" /\ obj[t] \in Conds
  <2>1. Place(t) \in {"cond_swap", "cond_relock"} /\ obj[t] = cond_args[t].cond
    BY <1>1, <1>6, ZenonT(30) DEF LockOf
  <2>2. cond_args[t] # NoArgs
    BY <2>1, ZenonT(30) DEF RWIndInv, CondIndInv, CondInv, WaiterInv, CondLabels
  <2>3. line[t] \in {"rl_test", "wl_test"} /\ cond_args[t] = Awaited(line[t]) /\ held[t] = {}
    BY <1>1, <2>1, <2>2, ZenonT(30) DEF LockOf
  <2>4. obj[t] = IF line[t] = "rl_test" THEN can_read ELSE can_write
    BY <2>1, <2>3 DEF Awaited
  <2> QED
    BY <1>6, <2>1, <2>3, <2>4, ZenonT(30) DEF AsleepOn
<1> QED
  BY <1>1, <1>2, <1>3, <1>4, <1>5, <1>6, ZenonT(30) DEF LockOf

\* If all threads were asleep nobody would hold the mutex, so nobody would
\* sleep on it; nobody would be in, so no writer would sleep; no writer would
\* have asked, so no reader would sleep; and then the driver would wait for a
\* thread that has exited.
LEMMA SomeoneIsAwake == RWIndInv => NeverAllAsleep
<1> SUFFICES ASSUME RWIndInv, pc = "loop", Live # {}, rq = <<>> PROVE FALSE
  BY ZenonT(30) DEF NeverAllAsleep
<1>1. \A t \in Tids : state[t] \notin {"READY", "RUNNING"}
  <2>1. Range(rq) = {}
    BY DEF Range
  <2> QED
    BY <2>1, ZenonT(30) DEF RWIndInv, ThreadIndInv, SchedInv, QueueDiscipline, CpuInv
<1>2. ASSUME NEW t \in Tids, NEW o \in Objs, state[t] = "BLOCKED", obj[t] = o PROVE waiters[o] # <<>>
  <2>1. t \in Range(waiters[o])
    BY <1>2, ZenonT(30) DEF RWIndInv, ThreadIndInv, SchedInv, QueueDiscipline
  <2> QED
    BY <2>1 DEF Range
<1>3. waiters[lock] = <<>>
  <2>1. \A t \in Tids : lock \notin held[t] /\ ~Trying(t, lock)
    BY <1>1, WhereAsleep, ZenonT(30) DEF Trying
  <2> QED
    BY <2>1, RWObjects, ZenonT(30) DEF RWIndInv, CondIndInv, MutexIndInv, NoLostWakeup
<1>4. ASSUME NEW t \in Tids
      PROVE  \/ AsleepOn(t, can_read, {"rl_test"}) /\ Place(t) \in {"cond_swap", "cond_relock"}
             \/ AsleepOn(t, can_write, {"wl_test"}) /\ Place(t) \in {"cond_swap", "cond_relock"}
             \/ Outside(t)
  BY <1>1, <1>2, <1>3, WhereAsleep, RWObjects, ZenonT(30) DEF AsleepOn
<1>5. ~somebody_in
  <2>1. Readers = {} /\ Writers = {}
    BY <1>4, ZenonT(30) DEF Readers, Writers, AsleepOn, Outside
  <2> QED
    BY <2>1, CountedSize, SMTT(30) DEF RWIndInv, RWInv, CountInv, somebody_in
<1>6. waiters[can_write] = <<>>
  <2>1. ASSUME NEW t \in Tids PROVE ~Signals(t) /\ ~Testing(t)
    <3>1. ~Signals(t)
      BY <1>4, ZenonT(30) DEF Signals, AsleepOn, Outside
    <3>2. t \in Asking => AsleepOn(t, can_write, {"wl_test"})
      BY <1>4, ZenonT(30) DEF Asking, AsleepOn, Outside
    <3> QED
      BY <3>1, <3>2, ZenonT(30) DEF Testing, AsleepOn
  <2> QED
    BY <1>5, <2>1, ZenonT(30) DEF RWIndInv, RWInv, WakeInv
<1>7. ASSUME NEW t \in Tids PROVE AsleepOn(t, can_read, {"rl_test"}) \/ Outside(t)
  BY <1>2, <1>4, <1>6, RWObjects, ZenonT(30) DEF AsleepOn
<1>8. ~must_wait
  <2>1. Asking = {}
    BY <1>7, ZenonT(30) DEF Asking, AsleepOn, Outside
  <2> QED
    BY <1>5, <2>1, CountedSize, ZenonT(30) DEF RWIndInv, RWInv, CountInv, somebody_in, must_wait
<1>9. waiters[can_read] = <<>>
  <2>1. ASSUME NEW t \in Tids PROVE ~Broadcasts(t)
    BY <1>4, ZenonT(30) DEF Broadcasts, AsleepOn, Outside
  <2> QED
    BY <1>8, <2>1, ZenonT(30) DEF RWIndInv, RWInv, WakeInv
<1>10. \A t \in Tids : Outside(t)
  BY <1>2, <1>7, <1>9, RWObjects, ZenonT(30) DEF AsleepOn
<1>11. \A t \in Tids : t \in Live => t = Driver
  BY <1>10, ZenonT(30) DEF Outside
<1>12. Driver \in Tids /\ Driver \in Live /\ state[Driver] = "BLOCKED"
  <2>1. Live \subseteq Tids
    BY ZenonT(30) DEF Live
  <2>2. Driver \in Tids /\ Driver \in Live
    BY <1>11, <2>1, ZenonT(30)
  <2> QED
    BY <1>1, <2>2, ZenonT(30) DEF Live, RWIndInv, ThreadIndInv, SchedInv, SchedTypeOK, TCBStates
<1>13. obj[Driver] = "none"
  <2>1. LockOf(Driver) /\ line[Driver] \notin {"rl_test", "wl_test", "ru_leave", "wl_ask", "wu_leave"}
    BY <1>12, ZenonT(30) DEF RWIndInv, RWInv, ProgramInv
  <2>2. obj[Driver] \notin Mutexes
    BY <1>12, <2>1, ZenonT(30) DEF RWIndInv, CondIndInv, MutexIndInv, MutexInv, LockOf, Locking
  <2>3. obj[Driver] \notin Conds
    BY <1>12, <2>1, ZenonT(30) DEF RWIndInv, CondIndInv, CondInv, WaiterInv, CondLabels, LockOf
  <2> QED
    BY <2>1, <2>2, <2>3, ZenonT(30) DEF LockOf
<1>14. AsleepInJoin(Driver) /\ target[Driver] \in Tids \ {Driver}
  BY <1>12, <1>13, ZenonT(30) DEF AsleepInJoin, RWIndInv, ThreadIndInv, ThreadInv, ProgramInv,
     FoundLabels, JoinLabels
<1>15. target[Driver] \in Live
  BY <1>12, <1>14, ZenonT(30) DEF RWIndInv, ThreadIndInv, JoinerIsRegistered, Live
<1> QED
  BY <1>11, <1>14, <1>15, ZenonT(30)

\* No wake-up is lost between the mutex, the two condition variables and
\* uth_join: scheduler_loop never finds all threads asleep.
THEOREM RWNeverAllAsleep == RWSpec => []NeverAllAsleep
BY SomeoneIsAwake, RWCorrect, PTL
=============================================================================
