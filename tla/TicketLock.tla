----------------------------- MODULE TicketLock -----------------------------
(***************************************************************************)
(* The ticket lock of mutex.c on top of the scheduler: uth_ticket_init,    *)
(* uth_ticket_lock, uth_ticket_unlock, used by threads that lock, unlock   *)
(* and yield in any order, with or without preemption.                     *)
(*                                                                         *)
(* next_ticket and now_serving are C unsigned counters; they wrap around   *)
(* at TicketMod (2^32 in the program, a small number when model-checking). *)
(* As with the mutex, clients unlock only what they hold and do not lock   *)
(* again what they hold.                                                   *)
(***************************************************************************)
EXTENDS Scheduler, FiniteSets

CONSTANTS
  TicketLocks,
  TicketMod     \* the number of values of an unsigned int

ASSUME TicketAssumption ==
  /\ TicketLocks \subseteq Objs
  /\ TicketMod \in Nat /\ TicketMod > MaxTid

VARIABLES
  next_ticket,   \* next_ticket[k]
  now_serving,   \* now_serving[k]
  my_ticket,     \* my_ticket[t]: the local variable of uth_ticket_lock
  ticket,        \* ticket[t]: the field of TCB t
  held           \* held[t]: what t locked and has not begun to unlock (client)

ticketVars == <<next_ticket, now_serving, my_ticket, ticket, held>>
vars == <<schedVars, ticketVars>>

Unsigned == 0 .. TicketMod - 1

\* Increment of an unsigned counter.
Succ(n) == (n + 1) % TicketMod

uth_ticket_init ==
  /\ next_ticket = [k \in TicketLocks |-> 0]
  /\ now_serving = [k \in TicketLocks |-> 0]

-----------------------------------------------------------------------------
(* uth_ticket_lock.                                                        *)

uth_ticket_lock(k) == Enter("user", k, "user", "ticket_take") /\ UNCHANGED ticketVars

\* The atomic fetch-and-add.  (Mutant: the counter is read, not advanced.)
ticket_take_load ==
  /\ pc = "ticket_take"
  /\ Goto("ticket_check")
  /\ my_ticket' = [my_ticket EXCEPT ![uth_current] = next_ticket[Obj]]
  /\ UNCHANGED <<next_ticket, now_serving, ticket, held>>
ticket_take ==
  /\ pc = "ticket_take"
  /\ Goto("ticket_check")
  /\ my_ticket' = [my_ticket EXCEPT ![uth_current] = next_ticket[Obj]]
  /\ next_ticket' = [next_ticket EXCEPT ![Obj] = Succ(@)]
  /\ UNCHANGED <<now_serving, ticket, held>>

\* The condition of the while loop.  When the call returns, nothing reads its
\* tickets any more; the model forgets them.  (Mutant: the loop goes on
\* while the ticket served is below the thread's, which is the same until the
\* counters wrap around.)
Check(served) ==
  /\ pc = "ticket_check"
  /\ \/ /\ served
        /\ Goto("leave")
        /\ held' = [held EXCEPT ![uth_current] = @ \cup {Obj}]
        /\ my_ticket' = [my_ticket EXCEPT ![uth_current] = 0]
        /\ ticket' = [ticket EXCEPT ![uth_current] = 0]
     \/ /\ ~served
        /\ Goto("ticket_block")
        /\ UNCHANGED <<my_ticket, ticket, held>>
  /\ UNCHANGED <<next_ticket, now_serving>>
ticket_check_below == Check(~(now_serving[Obj] < my_ticket[uth_current]))
ticket_check == Check(now_serving[Obj] = my_ticket[uth_current])

ticket_block ==
  /\ pc = "ticket_block"
  /\ uth_block(Obj, "ticket_swap")
  /\ ticket' = [ticket EXCEPT ![uth_current] = my_ticket[uth_current]]
  /\ UNCHANGED <<next_ticket, now_serving, my_ticket, held>>

-----------------------------------------------------------------------------
(* uth_ticket_unlock.                                                      *)

uth_ticket_unlock(k) == Enter("user", k, "user", "serve") /\ UNCHANGED ticketVars

serve ==
  /\ pc = "serve"
  /\ Goto("serve_wake")
  /\ now_serving' = [now_serving EXCEPT ![Obj] = Succ(@)]
  /\ held' = [held EXCEPT ![uth_current] = @ \ {Obj}]
  /\ UNCHANGED <<next_ticket, my_ticket, ticket>>

\* The places of the wait queue with ticket n.
Places(n) == {i \in DOMAIN waiters[Obj] : ticket[waiters[Obj][i]] = n}

\* *pp = w->next: queue q without the waiter at place i.
Without(q, i) == SubSeq(q, 1, i - 1) \o SubSeq(q, i + 1, Len(q))

\* The waiter at place i of the queue of k is unlinked and enqueued; the
\* others stay in order.
Unlink(k, i) ==
  /\ waiters' = [waiters EXCEPT ![k] = Without(@, i)]
  /\ uth_enqueue(waiters[k][i])
  /\ pc' = "leave"
  /\ UNCHANGED <<uth_current, ctx, obj, frames, masked>>

\* The walk along the wait queue, to the first waiter with ticket n.
WakeTicket(n) ==
  /\ pc = "serve_wake"
  /\ \/ Places(n) = {} /\ Goto("leave")
     \/ \E i \in Places(n) : (\A j \in Places(n) : i <= j) /\ Unlink(Obj, i)
  /\ UNCHANGED ticketVars

\* The waiter with the ticket that is served now (`next').  (Mutant: with the
\* ticket after it.)
serve_wake_after == WakeTicket(Succ(now_serving[Obj]))
serve_wake == WakeTicket(now_serving[Obj])

-----------------------------------------------------------------------------
TicketStep ==
  \/ ticket_take
  \/ ticket_check
  \/ ticket_block
  \/ serve
  \/ serve_wake

\* What a thread does between its calls.
Client ==
  /\ pc = "user"
  /\ \/ \E k \in TicketLocks \ held[uth_current] : uth_ticket_lock(k)
     \/ \E k \in held[uth_current] : uth_ticket_unlock(k)
     \/ uth_yield("user", "user") /\ UNCHANGED ticketVars

Init ==
  /\ SchedInit
  /\ uth_ticket_init
  /\ my_ticket = [t \in Tids |-> 0]
  /\ ticket = [t \in Tids |-> 0]
  /\ held = [t \in Tids |-> {}]

CpuStep ==
  \/ SchedNext /\ UNCHANGED ticketVars
  \/ TicketStep
  \/ Client

Next ==
  \/ CpuStep
  \/ Preempt /\ UNCHANGED ticketVars

Spec == Init /\ [][Next]_vars

\* The processor keeps executing, and a thread that holds a lock and gets to
\* run again and again unlocks it at some time.
FairSpec ==
  /\ Spec
  /\ WF_vars(CpuStep)
  /\ \A t \in Tids : \A k \in TicketLocks :
       SF_vars(uth_current = t /\ k \in held[t] /\ uth_ticket_unlock(k))

-----------------------------------------------------------------------------
(* Properties.                                                             *)

TypeOK ==
  /\ SchedTypeOK
  /\ next_ticket \in [TicketLocks -> Unsigned]
  /\ now_serving \in [TicketLocks -> Unsigned]
  /\ my_ticket \in [Tids -> Unsigned]
  /\ ticket \in [Tids -> Unsigned]
  /\ held \in [Tids -> SUBSET TicketLocks]

\* Thread t has a ticket for k and has not got the lock yet.
Waiting(t, k) ==
  Place(t) \in {"ticket_check", "ticket_block", "ticket_swap"} /\ obj[t] = k

\* How far n is ahead of m, as unsigned numbers.
Dist(n, m) == (n - m) % TicketMod

\* How many unlocks of k there are before the ticket n is served.
Ahead(n, k) == Dist(n, now_serving[k])

\* A ticket lock has one holder at a time, across the wraparound of the
\* counters: the holder's ticket is the one that is served, no waiting thread
\* has that ticket, and no two waiting threads have the same ticket.
TicketExclusion ==
  \A k \in TicketLocks : \A t, u \in Tids : t # u =>
    /\ ~(k \in held[t] /\ k \in held[u])
    /\ k \in held[t] /\ Waiting(u, k) => my_ticket[u] # now_serving[k]
    /\ Waiting(t, k) /\ Waiting(u, k) => my_ticket[t] # my_ticket[u]

\* The thread whose turn it is does not sleep: it is awake in
\* uth_ticket_lock, or its waker is at work.
TurnIsAwake ==
  \A k \in TicketLocks : \A t \in Tids :
    t \in Range(waiters[k]) /\ ticket[t] = now_serving[k]
      => pc = "serve_wake" /\ obj[uth_current] = k

\* The thread that holds k.
Holder(k) == IF \E t \in Tids : k \in held[t] THEN CHOOSE t \in Tids : k \in held[t] ELSE NULL

\* Thread t is to get k before thread u.
Sooner(t, u, k) ==
  Waiting(t, k) /\ Waiting(u, k) /\ Ahead(my_ticket[t], k) < Ahead(my_ticket[u], k)

\* The threads that have a ticket for k, and the order of their tickets.
Asking(k) == {t \in Tids : Waiting(t, k)}
Order(k) == {p \in Tids \X Tids : Sooner(p[1], p[2], k)}

\* First come, first served: the ticket lock is a fair lock (module FifoLock),
\* in which the threads that have a ticket are served in the order of their
\* tickets, also across the wraparound of the counters.
Fair ==
  INSTANCE FifoLock WITH
    Locks <- TicketLocks,
    holder <- [k \in TicketLocks |-> Holder(k)],
    waiting <- [k \in TicketLocks |-> Asking(k)],
    before <- [k \in TicketLocks |-> Order(k)]
ImplementsFairLock == Fair!Spec

\* No starvation: every thread that calls uth_ticket_lock gets the lock.
EveryoneServed ==
  \A t \in Tids : \A k \in TicketLocks : 
    Waiting(t, k) ~> (k \in held[t] \/ ~ContextIsThreads)

-----------------------------------------------------------------------------
(* The facts that make TicketExclusion and TurnIsAwake inductive.          *)

\* Labels inside uth_ticket_lock and uth_ticket_unlock.
TicketLabels == {"ticket_take", "ticket_check", "ticket_block", "ticket_swap", "serve", "serve_wake"}

\* The threads that have a ticket for k and have not given the lock back.
Owners(k) == {t \in Tids : Waiting(t, k) \/ k \in held[t]}

\* How many unlocks of k there are before the turn of t.
Turn(t, k) == IF k \in held[t] THEN 0 ELSE Ahead(my_ticket[t], k)

\* The tickets between now_serving and next_ticket are those of the owners of
\* k, one each.
Tickets(k) ==
  /\ \A t \in Owners(k) : Turn(t, k) < Ahead(next_ticket[k], k)
  /\ \A t, u \in Owners(k) : Turn(t, k) = Turn(u, k) => t = u
  /\ Cardinality(Owners(k)) = Ahead(next_ticket[k], k)

\* A call in progress is on a ticket lock, and what it found is still so.
TicketInv ==
  /\ \A t \in Tids : Place(t) \in TicketLabels => obj[t] \in TicketLocks
  /\ \A t \in Tids : state[t] = "BLOCKED" /\ obj[t] \in TicketLocks =>
       Place(t) \in {"ticket_swap", "ticket_check"} /\ ticket[t] = my_ticket[t]
  /\ \A k \in TicketLocks : \A t \in Tids : k \in held[t] => ~Waiting(t, k)
  /\ \A k \in TicketLocks : Tickets(k)
  /\ pc = "ticket_take" => Obj \notin held[uth_current]
  /\ pc = "ticket_block" => my_ticket[uth_current] # now_serving[Obj]
  /\ pc = "serve" => Obj \in held[uth_current]

TicketIndInv == SchedInv /\ TypeOK /\ TurnIsAwake /\ TicketInv
=============================================================================
