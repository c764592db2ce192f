-------------------------- MODULE ProducerConsumer --------------------------
(***************************************************************************)
(* examples/producer_consumer.c: producers and consumers on a ring buffer  *)
(* with two semaphores that count its slots and a mutex.                   *)
(***************************************************************************)
EXTENDS Program, Mutex, Semaphore

CONSTANTS
  g_np,          \* producers; the other threads of driver() are consumers
  g_ni,          \* items of each producer
  BUFFER_SIZE,
  empty, full, buf_lock

ASSUME ProducerConsumerAssumption ==
  /\ g_np \in 1 .. NThreads - 1
  /\ g_ni \in Nat
  /\ BUFFER_SIZE \in 1 .. MaxValue
  /\ {empty, full} \subseteq Sems /\ buf_lock \in Mutexes
  /\ InitValue[empty] = BUFFER_SIZE /\ InitValue[full] = 0

VARIABLES
  buf, buf_in, buf_out,
  items_produced, items_consumed,
  item,      \* item[t]: the local variable of consumer t
  consumed   \* the items consumed so far, in order

bufVars == <<buf, buf_in, buf_out, items_produced, items_consumed, item, consumed>>
pcSysVars == <<schedVars, threadVars, programVars, mutexVars, value, bufVars>>

\* An item is the id of its producer and the number of the round.
Items == (0 .. g_np - 1) \X (1 .. g_ni)
NoItem == <<>>
Slots == 0 .. BUFFER_SIZE - 1

\* driver() creates the producers first.
Producer(t) == t # Driver /\ arg[t] < g_np

\* What driver() gives thread t to do: the items are divided among the
\* consumers, and the first ones take the rest.  (Mutant: nobody does.)
g_nc == NThreads - g_np
share_floor(i) == (g_np * g_ni) \div g_nc
share(i) == (g_np * g_ni) \div g_nc + (IF i < (g_np * g_ni) % g_nc THEN 1 ELSE 0)
items(t) == IF Producer(t) THEN g_ni ELSE share(arg[t] - g_np)

-----------------------------------------------------------------------------
(* Calls of the library.                                                   *)

on_mutex(l, next, call) ==
  Line(l, next) /\ call /\ UNCHANGED <<threadVars, count, arg, tids, value, bufVars>>
on_sem(l, next, call) ==
  Line(l, next) /\ call /\ UNCHANGED <<threadVars, count, arg, tids, mutexVars, bufVars>>

\* A line that works on the buffer.
Compute(l, next) == Local(l, next) /\ UNCHANGED <<count, mutexVars, value>>

\* The loop of both functions, and the yield at its end.
iterate ==
  /\ \/ for("start", items(Me), IF Producer(Me) THEN "p_wait" ELSE "c_wait")
     \/ yield("yield", "start")
  /\ UNCHANGED <<mutexVars, value, bufVars>>

-----------------------------------------------------------------------------
\* The index of the next slot.
next_slot(i) == (i + 1) % BUFFER_SIZE

put_item ==
  /\ Compute("put", "p_advance")
  /\ buf' = [buf EXCEPT ![buf_in] = <<arg[Me], count[Me]>>]
  /\ UNCHANGED <<buf_in, buf_out, items_produced, items_consumed, item, consumed>>

advance_in ==
  /\ Compute("p_advance", "p_unlock")
  /\ buf_in' = next_slot(buf_in)
  /\ items_produced' = items_produced + 1
  /\ UNCHANGED <<buf, buf_out, items_consumed, item, consumed>>

\* (Mutant: the semaphores are waited for with the mutex held.)
producer_locks_first ==
  \/ on_mutex("p_wait", "p_lock", uth_mutex_lock(buf_lock, "user", "user"))
  \/ on_sem("p_lock", "put", uth_sem_wait(empty))
  \/ put_item
  \/ advance_in
  \/ on_mutex("p_unlock", "p_post", uth_mutex_unlock(buf_lock, "user", "user"))
  \/ on_sem("p_post", "yield", uth_sem_post(full))
producer ==
  \/ on_sem("p_wait", "p_lock", uth_sem_wait(empty))
  \/ on_mutex("p_lock", "put", uth_mutex_lock(buf_lock, "user", "user"))
  \/ put_item
  \/ advance_in
  \/ on_mutex("p_unlock", "p_post", uth_mutex_unlock(buf_lock, "user", "user"))
  \/ on_sem("p_post", "yield", uth_sem_post(full))

get_item ==
  /\ Compute("get", "c_advance")
  /\ item' = [item EXCEPT ![Me] = buf[buf_out]]
  /\ UNCHANGED <<buf, buf_in, buf_out, items_produced, items_consumed, consumed>>

advance_out ==
  /\ Compute("c_advance", "c_unlock")
  /\ buf_out' = next_slot(buf_out)
  /\ items_consumed' = items_consumed + 1
  /\ consumed' = Append(consumed, item[Me])
  /\ item' = [item EXCEPT ![Me] = NoItem]
  /\ UNCHANGED <<buf, buf_in, items_produced>>

consumer ==
  \/ on_sem("c_wait", "c_lock", uth_sem_wait(full))
  \/ on_mutex("c_lock", "get", uth_mutex_lock(buf_lock, "user", "user"))
  \/ get_item
  \/ advance_out
  \/ on_mutex("c_unlock", "c_post", uth_mutex_unlock(buf_lock, "user", "user"))
  \/ on_sem("c_post", "yield", uth_sem_post(empty))

-----------------------------------------------------------------------------
PCInit ==
  /\ ProgramInit
  /\ uth_mutex_init
  /\ held = [t \in Tids |-> {}]
  /\ uth_sem_init
  /\ buf = [i \in Slots |-> NoItem]
  /\ buf_in = 0
  /\ buf_out = 0
  /\ items_produced = 0
  /\ items_consumed = 0
  /\ item = [t \in Tids |-> NoItem]
  /\ consumed = <<>>

PCCpuStep ==
  \/ ProgramStep /\ UNCHANGED <<mutexVars, value, bufVars>>
  \/ MutexStep /\ UNCHANGED <<threadVars, programVars, value, bufVars>>
  \/ SemStep /\ UNCHANGED <<threadVars, programVars, mutexVars, bufVars>>
  \/ iterate
  \/ producer
  \/ consumer

PCNext ==
  \/ PCCpuStep
  \/ Preempt /\ UNCHANGED <<threadVars, programVars, mutexVars, value, bufVars>>

PCSpec == PCInit /\ [][PCNext]_pcSysVars

-----------------------------------------------------------------------------
(* Properties.                                                             *)

\* The part of the ring between buf_out and buf_in.
Contents == [k \in 1 .. items_produced - items_consumed |-> buf[(buf_out + k - 1) % BUFFER_SIZE]]

\* The ring buffer is a bounded buffer (module BoundedBuffer): no item is
\* overwritten before it is read, none is read twice or before it was put, and
\* the items come out in order, although the producer and the consumers share
\* the indices and can be preempted anywhere.
Buffer == INSTANCE BoundedBuffer WITH Size <- BUFFER_SIZE, queue <- Contents, taken <- consumed
ImplementsBuffer == Buffer!Spec

\* If every thread could be created, scheduler_loop never finds all threads
\* asleep: the division of the items among the consumers leaves no producer
\* without a slot and no consumer without an item.
NobodyStarved == AllCreated => NeverAllAsleep

\* When uth_run has returned, everything that was produced has been consumed
\* (what main returns), and no thread is on a wait queue: the asserts of
\* uth_sem_destroy and uth_mutex_destroy hold.
AllConsumed ==
  Ended /\ AllCreated =>
    /\ items_produced = g_np * g_ni /\ items_consumed = items_produced
    /\ \A o \in Objs : waiters[o] = <<>>
=============================================================================
