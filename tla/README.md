# A TLA+ model of uthreads

uthreads is a user-space thread library for one processor: threads are
`ucontext_t`s, a scheduler loop picks the next one from a FIFO run queue, and an
interval timer (SIGALRM) may preempt a thread. On top of that it has mutexes,
spinlocks, ticket locks, condition variables and semaphores. What makes the code
hard is that its only protection is the signal mask: every API call blocks
SIGALRM, does its work, and restores the mask it found. The mask also travels
with the saved contexts. So the model is about *where* SIGALRM can arrive, and
what is on which queue when it does.

## The parts of the system

| part | code | operations | module | proofs |
|---|---|---|---|---|
| scheduler | `thread.c` | `scheduler_loop`, `uth_yield`, `uth_block`, `uth_wake_one`, `uth_preempt_off`, `uth_preempt_restore` | `Scheduler` | `SchedulerProofs` |
| thread lifecycle | `thread.c` | `uth_create`, `uth_exit`, `uth_join`, `uth_run` | `Threads` | `ThreadsProofs` |
| preemption | `src/preempt.c` | handler (in `Scheduler`), `uth_preempt_enable`, `uth_preempt_disable` | `Preemption` | `ExamplesProofs`, for calls by `main` |
| mutex | `src/mutex.c` | init, lock, unlock | `Mutex` | `MutexCondProofs` |
| ticket lock | `src/mutex.c` | init, lock, unlock | `TicketLock` | `TicketLockProofs` |
| spinlock | `src/mutex.c` | init, lock, unlock | `SpinLock` | `SpinSemaphoreProofs` |
| semaphore | `src/sync.c` | init, wait, post | `Semaphore` | `SpinSemaphoreProofs` |
| condition variable | `src/sync.c` | init, wait, signal, broadcast | `CondVar` | `MutexCondProofs` |
| dining philosophers | `examples/philosophers.c` | whole program | `Philosophers` | `ExamplesProofs` |
| readers and writers | `examples/readers_writers.c` | whole program | `ReadersWriters` | `ReadersWritersLemmas`, `ReadersWritersProofs` |
| producer and consumer | `examples/producer_consumer.c` | whole program | `ProducerConsumer` | |
| preemption demo | `examples/preempt_demo.c` | whole program | `PreemptDemo` | `ExamplesProofs` |
| benchmark | `bench/bench.c` | | not modelled | |

How the modules build on each other:

    Scheduler --- Threads --- Program --- Philosophers      (+ Mutex)
      |                          |------- ReadersWriters    (+ CondVar)
      |                          |------- ProducerConsumer  (+ Mutex, Semaphore)
      |                          `------- PreemptDemo       (+ Preemption)
      |--- Mutex --- CondVar
      |--- SpinLock, Semaphore --- SpinSemaphore
      |--- TicketLock, Preemption

`Program` is what the four examples share: `main` creates a driver thread and
calls `uth_run`, the driver creates the other threads, joins them and returns.
`SpinSemaphore` lets the same threads use spinlocks and semaphores.
Three modules are abstract specifications, and know nothing of schedulers:

| abstract | promise | implemented by |
|---|---|---|
| `Lock` | a free lock is given to one thread; only its holder frees it | `Mutex` (`owner` is the holder), also under `CondVar`; `SpinLock` |
| `FifoLock` | the same, in the order in which threads asked | `TicketLock` (order of the tickets, modulo 2^32) |
| `BoundedBuffer` | a bounded FIFO queue of items, each taken once | `ProducerConsumer` (the ring between `buf_out` and `buf_in`) |

The MC modules give the constants their values.

## How the model works

**One processor.** `pc` is where the processor is: in `main`, in `scheduler_loop`
(`"loop"`), inside the scheduler's `swapcontext` call (`"swapcontext"`), or at a
label of the code of the thread `uth_current`. All other threads are saved
contexts `ctx[t] = [pc, mask]`. The context of the running thread is stale, as it
is in the program.

**API calls are several steps.** A call first takes the step `uth_preempt_off`,
which pushes a frame (the mask it saved, the label it returns to) and sets
`masked`; then the steps of its body; at last
`uth_preempt_restore`, which pops the frame and restores the mask. The body is cut
wherever it tests or changes a field that its properties are about; neighbouring
operations that nothing comes between in the code as it is (the fields of a TCB and
its push onto a queue in `create_alloc`, for one) share a step. Code that
runs unmasked is cut at every shared operation. The handler
is an action that is enabled in *every* state in which SIGALRM is unmasked. That
critical sections are not interrupted is thus a result (`MaskDiscipline`), not
an assumption, and removing a mask operation breaks the properties. Frames nest
because `uth_cond_wait` calls `uth_mutex_unlock` and `uth_mutex_lock`.

**`swapcontext` in the scheduler is two steps.** glibc's `swapcontext` installs
the signal mask of the new context (a system call) and then loads the registers.
`Dispatch` ends after the first, `LoadRegisters` is the second. SIGALRM can
arrive in between; see the findings. `swapcontext` out of a thread is one step,
because SIGALRM is masked before it and after it.

**Waiting in a loop.** `SwapTo` gives for each `swapcontext` of a thread the label
it resumes at; for the `while` loops of lock, wait and ticket lock that is the
test.

**The timer.** In most modules the constant `Preemptive` says that it runs. In
`Preemption` it is state: `uth_preempt_enable` and `uth_preempt_disable` are one
step per system call or assignment and do not mask SIGALRM. `malloc` (made once,
`alt_stack_mem`), `sigaltstack` and `sigaction` may fail, and `setitimer` fails for a second or more; the process
then exits. The disposition of SIGALRM decides whether a signal
preempts or ends the process.

**Clients.** In the library modules threads call the API in any order, except for
what the API forbids: they unlock only what they hold, do not lock again what
they hold, wait on a condition variable with a mutex they hold, and only one
thread at a time is registered as the joiner of a thread. `held[t]` is the
client's view of what it has locked; it is updated where the call has succeeded,
and the properties compare it with the fields of the lock.

**Programs.** In the examples `line[t]` is where thread `t` is in its function.
Each line is a step at label `"user"`, so threads are preempted between any two
lines; `shared_data++` is a load and a store, and the `while` tests of `read_lock`
and `write_lock` (`rl_test`, `wl_test`) are steps apart from the increments that
follow them (`rl_enter`, `wl_enter`). Two places under the mutex are coarser, which
nobody can see: `read_unlock` decrements and tests `active_readers` in one step, and
`write_lock` leaves the waiting and enters in one. `uth_create` may fail for any of
the driver's threads.

**Abstractions.** Queues are sequences (the code links TCBs through `next`);
TCBs are TIDs, since slots of `tcb_table` are never used again; return values,
stack sizes and the contents of memory are left out. When `realloc` or `calloc` fails
in `tcb_alloc` the process exits; the model leaves that out, as a behaviour
that stops there breaks no safety property. `main` calls `uth_join` only on
zombies: it has no TCB with which it could sleep. `uth_*_destroy` only
asserts that the wait queue is empty (`AllConsumed` states it for the producer
and consumer). `uth_self` and `uth_active_count` read state; the latter counts
what the definition `Live` contains. Registers are not modelled: a context is a
place in the code and a mask. `main` is not a thread and has no TCB (the head
comment of `thread.c` says it is TID 1; the first thread made by `uth_create`
is). In `ProducerConsumer` the variable `consumed` records what came out of the
buffer; the program only prints it.

## Runs

All runs have preemption (behaviours without any are among those checked).
Deadlock is checked except for the whole programs, which end, and for
`preempt_race` and `interval`, where `exit` ends the process. A state in which all threads are
blocked is not a TLC deadlock: `scheduler_loop` spins in it, as the code does.

| run | instance | what it shows |
|---|---|---|
| `threads` | up to 3 threads, made by main and by threads, any thread joins any | Queue and mask discipline, the joiner handshake, only zombies that have left their stack are freed, the state machine of the TCB; the inductive invariant; round robin, joins return. |
| `ticket` | 3 threads, counters modulo 4 | Implements `FifoLock` across the wraparound; the thread whose ticket is served is never asleep; nobody starves; the inductive invariant. |
| `condvar` | 3 threads, 1 mutex, 1 condition variable | Between the unlock in `uth_cond_wait` and the enqueueing no other thread runs. The mutex implements `Lock`, no wakeup of it is lost, and every thread asleep on it is woken. Not: that it gets the mutex. A thread may lock between the wakeup and the woken thread's turn, and the woken thread goes to the tail of the queue. The clients include all those of a mutex alone. |
| `spin_semaphore` | 3 threads, 1 spinlock, 1 semaphore, at most 2 permits | The spinlock implements `Lock`, although its code runs unmasked, and a spinning thread lets the holder run. The value of the semaphore is never negative, no permit is stranded while a thread sleeps, permits that are there get taken; the inductive invariant. All this with threads that spin, sleep and are woken in turn, and may post with the spinlock in their hands. |
| `philosophers` | 2 philosophers, 2 meals each | The fork order excludes that `scheduler_loop` finds everybody blocked, neighbours do not eat together, all meals are eaten and `uth_run` returns, wherever threads are preempted and if `mmap` fails for a philosopher. |
| `readers_writers` | 2 writers, 1 reader, 1 iteration each | A writer is alone, `shared_data` is at any time the number of increments made (`Counts(shared_data, Made)`), a reader enters only if no writer is waiting, be it before its test or between its test and its entry, and signal and broadcast never leave all threads asleep. |
| `producer_consumer` | 1 producer, 2 consumers, 3 items, 2 slots | The ring implements `BoundedBuffer`; nobody is left asleep; at the end all items are consumed and all wait queues empty. |
| `preempt_demo` | 2 threads, 2 iterations; intervals below and at a second | SIGALRM always finds its handler and stack; a thread that never ends its `cpu_burn` does not keep the others from running; if it ends, so does the program, with preemption off, unless the process gave up in `uth_preempt_enable`. |
| `context`, `create_tcb` | as `threads` | Findings 1 and 2 below. |
| `preempt_race` | 2 threads that enable and disable | Finding 3. |
| `interval` | 1 thread that enables and disables; intervals below and at a second, and one whose product wraps around | Finding 4. |

In `threads` no thread sleeps on a wait queue (`Objs` is empty); the part of
`QueueDiscipline` that is about wait queues is exercised by the lock runs, whose
inductive invariants contain it.

**Bounds.** Three threads are the least with which a lock has a holder, a sleeper
and a third thread that barges in, a zombie has a joiner and somebody who
collects it first, and a FIFO queue has an order. `TicketMod = 4` is one more
than the number of threads (the code has 2^32), so the counters wrap around
again and again; the assumption `TicketMod > MaxTid` is what the properties need.
With two philosophers both forks are shared and one of the two is the last, the
smallest circle. Two writers and a reader let a writer wait for a reader, for a
writer, and bar a reader. Three items do not divide among two consumers and
wrap around a ring of two (8 in the program). `MaxValue` bounds the permits; in
`ProducerConsumer` it is larger than the buffer, so that it stops no post.
`MaxTid` also bounds the calls of `uth_create`. In the modules with a timer units are
scaled down: 4 microseconds to a millisecond (`UsecPerMs`), 32 to a second (`UsecPerSec`), an
unsigned int of 6 bits (`UIntMod`). 2 and 7 ms are valid intervals, 8 ms are exactly a
second, and 17 ms, 68 microseconds, wrap around to 4.

In `readers_writers` and `producer_consumer` states after the loss of a context
(first finding) are not explored further (`CONSTRAINT ContextIsThreads`): their
properties are model-checked for behaviours up to that point. They have no liveness
properties. (The proofs about `ReadersWriters` have no such constraint.)

**Fairness.** The processor keeps executing: `WF` on the steps of the processor
without the handler. In `Threads` and `CondVar` also `SF` on `Preempt`, and in
`PreemptDemo` on `Alarm`: the timer is periodic and a SIGALRM that arrives while
masked stays pending. In the lock modules a thread that holds a lock and gets to
run again and again unlocks at some time (`SF` on its unlock); this is an
assumption on clients. In `Philosophers` and `PreemptDemo`, `SF` on the steps of
each thread's own code says that the timer is slower than one such step. Of
`cpu_burn` nothing is assumed: `NobodyHogs` holds even if it never ends, and
`DemoFinishes` has its end as a hypothesis. In `TicketLock` and `SpinSemaphore`
the handler has no fairness: the liveness of these locks does not
depend on preemption. Instead `SpinSemaphore` assumes cooperative clients, for which
the `uth_yield` in `uth_spin_lock` is made: a thread that runs on and on between its
calls yields at some time (`SF` on the clients' yield). Without that, one thread could
keep the processor by posting and waiting, which never sleeps while there is a permit.
The liveness properties, except for `RoundRobin`, `NobodyHogs` and `JoinReturns`, are about executions in which no context is lost in
the window of the first finding: their right-hand sides have the disjunct
`~ContextIsThreads`. A lost context stays lost, and the thread it belonged to keeps
whatever locks it had.

**Mutants.** For each property there is a changed definition (next to the
original, named after it) that is a plausible slip in the code and that the
property catches: a mask operation left out, `if` for `while`, a wakeup forgotten,
a queue served from the wrong end, a remainder not handed out.

## Findings

1. **A context can be lost in the scheduler's `swapcontext`** (`thread.c:262-263`;
   run `context`). `uth_current` is set, the thread's mask unblocks SIGALRM, and
   only then are its registers loaded. A SIGALRM in this window makes the handler
   save the *scheduler's* code as the thread's context, over the context that
   was about to be loaded. The test `uth_current == NULL` of the handler does not
   cover this "in-between state" (`preempt.c:84`).
2. **`uth_create` reads a TCB that may be freed** (`thread.c:367-368`; run
   `create_tcb`): `return t->tid` comes after `uth_preempt_restore`. If the caller is
   preempted there, the new thread can exit and be joined by another thread.
3. **Concurrent enable and disable leave preemption neither on nor off**
   (`preempt.c:158-163`; run `preempt_race`). The flag `preempt_enabled` is tested first
   and set last, with SIGALRM unmasked in between. In the trace a thread is preempted
   between `setitimer` and `preempt_enabled = 1`; another one enables and then disables
   preemption; the first one then sets the flag. From then on `uth_preempt_enable`
   returns at once. The same race can end the process, which `StartedOrStopped` forbids
   too: a thread preempted just before its `setitimer` starts the timer after another
   one has restored the default disposition of SIGALRM. So `AlarmIsHandled` holds only
   if one thread, or `main`, makes all these calls, as in the preemption demo.
4. **An interval of a second or more is refused** (`preempt.c:155`; run `interval`).
   `uthreads.h:155` asks for `interval_ms > 0` and `preempt.c:6` promises a SIGALRM every
   `interval_ms` ms. The code puts `interval_ms * 1000` into `tv_usec` and 0 into `tv_sec`;
   `setitimer` refuses a `tv_usec` of a second or more, and `uth_preempt_enable` exits
   the process. From 2^32 / 1000 ms (71 minutes) on the product wraps around, and a
   timer with another period may be started.

## Proofs

TLAPS proves, for every number of threads and objects, for counters of every
size, and with or without preemption:

| module | theorems |
|---|---|
| `MutexCondProofs` | `MutexCorrect` (`[]MutexIndInv`), `MutexTypes`, `MutexExcludes`, `MutexWakes`, `MutexQueues`, `MutexMasks`, and `MutexRefines`: the mutex implements `Lock` |
| `MutexCondProofs` | `CondCorrect` (`[]CondIndInv`), `CondWaitAtomic`, `CondKeepsMutex`, `CondMasks`, `CondRefines` |
| `SpinSemaphoreProofs` | `SpinCorrect` (`[]SpinIndInv`), `SpinExcludes`, and `SpinRefines`: the spinlock implements `Lock` |
| `SpinSemaphoreProofs` | `SemCorrect` (`[]SemIndInv`), `SemNeverNegative`, `SemStrandsNothing` |
| `SpinSemaphoreProofs` | `SpinSemCorrect` and `SpinSemRefines`: the same for threads that use both |
| `ThreadsProofs` | `ThreadCorrect` (`[]ThreadIndInv`), `ThreadJoins`, `ThreadFrees`, `ThreadQueues`, `ThreadMasks`, and the action property `ThreadLifecycle` |
| `TicketLockProofs` | `TicketCorrect` (`[]TicketIndInv`), `TicketExcludes`, `TicketTurn`, and `TicketRefines`: the ticket lock implements `FifoLock` |
| `ExamplesProofs` | `PhilCorrect` (`[]PhilIndInv`), `PhilNeighbours`, and `PhilNoDeadlock`: not all threads are ever asleep at once |
| `ReadersWritersLemmas`, `ReadersWritersProofs` | `RWCorrect` (`[]RWIndInv`), `RWExcludes`, `RWNoWriteLost`, `RWNeverAllAsleep`, and the action property `RWPrefers`: a reader enters only if no writer is waiting |
| `ExamplesProofs` | `DemoCorrect` (`[]DemoIndInv`), `DemoAlarmIsHandled` |

The assumptions are those named in the modules: at least one thread, `Preemptive`
is a Boolean, `"none"` is not an object (`SchedulerAssumption`); locks, condition
variables and semaphores are objects, and condition variables are not mutexes;
initial values within `MaxValue`; `TicketMod > MaxTid`; `Joins` is a set of pairs of
threads. The programs add `MaxTid = NThreads + 1` (the driver and its threads) and,
for the philosophers, `NThreads >= 2` and that the forks are different mutexes; for
the readers and writers, `g_nw <= NThreads` and `can_read # can_write`. The preemption
demo is proved for all intervals.

*The machine.* `SchedInv` is the invariant of the scheduler. `QueueDiscipline`
alone is not inductive: that a thread is not pushed twice needs to know that only
the thread on the processor is RUNNING, and that it is not RUNNING exactly at the
labels just before a `swapcontext` (`CpuInv`). `MaskDiscipline` needs to know that
the frame a call restores from was saved unmasked exactly if it is the outermost
frame (`FrameInv`). `SchedulerProofs` proves one lemma per kind of step
(`EnterStep`, `SectionStep`, `RestoreStep`, `BlockStep`, `WakeStep`, `SwapOutStep`,
`DispatchStep`, `PreemptStep`, ...), stated so that each step of any lock is an
instance of one of them. Every proof module has one lemma per action on top of
these.

*Mutex.* `MutexInv` adds that a locked flag has a holder or somebody at
`lock_own`, where threads that are asleep or in a call are, and what the step in
progress has established (`CallInv`).

*Condition variable.* `CondInv` says where a thread with arguments of
`uth_cond_wait` can be; in the inner unlock it has the processor, because the
frame that returns to `cond_block` is never the outermost one, so its restore
leaves SIGALRM masked.

*Semaphore.* `NoStrandedPermit` counts: a post adds a permit and then a thread on
its way, a take removes one of each (lemma `Counting`). What `sem_check` found is
still so at `sem_take` (`SemInv`).

*Spinlock and semaphore together.* The two invariants are inductive side by side: a
spinlock step is a step between unmasked labels and takes nobody off the way to a
permit (`SpinKeepsSem`), a semaphore step touches no argument or frame of
`uth_spin_lock` (`SemKeepsSpin`).

*Threads.* `ThreadInv` says that a registered joiner sleeps, on no wait queue, and
its target is the thread it is registered with, that a thread woken in `uth_join` has a dead
target, and that zombies are in `uth_exit`. Then `uth_exit` wakes a thread that is
BLOCKED, and `tcb_free` gets only a thread that has left its stack.

*Ticket lock.* The numbers of the tickets wrap around, so the invariant measures
them from `now_serving` (`Ahead`). `Tickets(k)` says that the tickets between
`now_serving` and `next_ticket` belong to the owners of the lock (holder and waiting
threads), one each, and that there are as many owners as tickets. A new ticket is
then different from all others because there are fewer threads than numbers, and
when the lock is free the ticket that is served is the oldest one. The
refinement maps the order of asking to the order of the distances.

*Programs.* In a program a thread calls the API only where its function says so.
`ProgramInv` ties the lines to the rest: only the driver creates and joins, and
never itself; a thread that is not made yet is at its first line, and one that
exits is at its last. `ThreadsProofs` has the steps that all programs
share (`SyncStep`, `UserCall`, `UserLine`, ...): what a step of a mutex does not do
to the threads, and what a step of the threads does not do to a mutex.

*Philosophers.* `ForksOf(t)` says that a philosopher holds exactly the forks its line
says: none, the first, or both, in the order of `fork_order`, and which fork it is
picking up or putting down inside a call. A mutex has one owner, so neighbours
are not both at the line where they eat. For `NoCircularWait` suppose everybody
sleeps. The driver sleeps in a join, so some philosopher sleeps on a fork; its
owner is alive, hence also asleep, and since it owns a fork it sleeps on its
second one, which has a greater number. The numbers ascend for ever, and there
are only `N` (lemma `Ascending`).

*Readers and writers.* The theorems hold for any number of readers, writers and
iterations. `RWIndInv` adds to `CondIndInv`: `LockOf(t)`, a thread holds `lock`
exactly on the lines between its lock and its unlock, except while it is asleep in
or on its way out of `uth_cond_wait`; `CountInv`, the three counters are the numbers
of threads on the lines after the increment and before the decrement, and at most
one writer or only readers are in; `TestInv`, what the test of a `while` found is
still so when the thread enters or goes to sleep, because all changes of the
counters are made under `lock`; `WakeInv`, while a writer sleeps on `can_write`
somebody is in, a signal is coming, or another writer is about to test, and while a
reader sleeps on `can_read` a writer is in or waits, or a broadcast is coming.
For `RWNeverAllAsleep` suppose everybody sleeps: then nobody holds `lock`, so nobody
sleeps on it; nobody is in, so by `WakeInv` no writer sleeps on `can_write`, hence
none waits, and no reader sleeps on `can_read`; then all threads have returned and
the driver's join returns. `RWNoWriteLost` needs `WriteInv` besides: a writer between
its load and its store is alone, so what it loaded is still in `shared_data`; each
store adds one pair (writer, iteration) to `Made`. Sizes of sets are stated by
`Counts` (an enumeration without repetitions), which needs no induction.

*Preemption demo.* Here the timer is state, so the handler comes as
`uth_preempt_handler` without the guard `Preemptive`; the lemmas about the machine
and the threads are stated for it. `TimerInv` says what each step of
`uth_preempt_enable` and `uth_preempt_disable` has established for the next one: the
stack before `sigaction`, the handler before `setitimer`, and no timer when the
handler is removed. That only `main` makes these calls is part of it
(`\A t \in Tids : call[t] = "none"`).

Only model-checked:

- all liveness properties (`RoundRobin`, `JoinReturns`, `EveryoneServed`,
  `PermitTaken`, `SleeperWoken`, `SpinningLetsHolderRun`, `AllMealsEaten`, `NobodyHogs`,
  `DemoFinishes`): TLAPS does no fairness or `ENABLED`;
- `ProducerConsumer` (`NobodyStarved`, `AllConsumed`, `ImplementsBuffer`): its proof
  would need the invariants of the mutex and of two semaphores together with a count
  of permits, items and threads between the two. The correctness of the mutex and
  of the semaphore that it uses is proved for any client;
- the calls of `uth_preempt_enable` and `uth_preempt_disable` by several threads,
  which go wrong (third finding).

## Not modelled

- `bench/bench.c` measures time. Its threads lock a mutex or wait for and post
  semaphores in loops, which the arbitrary clients of `CondVar`, `Semaphore` and
  `Threads` include.
- The links of the queues (`next`, `rq_tail`) and the growth of `tcb_table` by
  `realloc`: queues and table are abstract data here.
- The registers and the floating-point state in the handler's copy of the
  context, which decide nothing in the control of the library.
- Preemption inside library functions that are not reentrant (`malloc`,
  `printf`), and stack overflow: there is no code here that handles them.
- The int overflow of a semaphore after 2^31 - 1 posts: the API states no limit.
- `uth_*_destroy`, which change no state, and `uth_yield` from `main`, a no-op.
