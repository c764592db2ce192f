-------------------------- MODULE TicketLockProofs --------------------------
(***************************************************************************)
(* The ticket lock is correct for any number of threads and locks and any  *)
(* counter width with more values than there are threads, with and without *)
(* preemption: it has one holder at a time, the thread whose turn it is    *)
(* does not sleep, and it implements the fair lock.                        *)
(***************************************************************************)
EXTENDS TicketLock, SchedulerProofs, FiniteSetTheorems

-----------------------------------------------------------------------------
(* Unsigned arithmetic.                                                    *)

\* The increment wraps around at TicketMod.
LEMMA SuccLemma ==
  ASSUME NEW n \in Unsigned
  PROVE  Succ(n) \in Unsigned /\ Succ(n) = IF n + 1 = TicketMod THEN 0 ELSE n + 1
<1>1. TicketMod \in Nat /\ TicketMod > 0 /\ n \in 0 .. TicketMod - 1
  BY SchedulerAssumption, TicketAssumption DEF Unsigned
<1>2. (n + 1) % TicketMod = IF n + 1 = TicketMod THEN 0 ELSE n + 1
  BY <1>1, Z3
<1> QED
  BY <1>1, <1>2 DEF Succ, Unsigned

\* Distances of counters, when one of them is incremented.
LEMMA DistLemma ==
  ASSUME NEW n \in Unsigned, NEW m \in Unsigned
  PROVE  /\ Dist(n, m) \in Unsigned
         /\ Dist(n, m) = 0 <=> n = m
         /\ \A l \in Unsigned : Dist(n, m) = Dist(l, m) => n = l
         /\ Dist(n, m) # 0 => Dist(n, Succ(m)) = Dist(n, m) - 1
         /\ Dist(n, m) + 1 < TicketMod => Dist(Succ(n), m) = Dist(n, m) + 1
<1>1. TicketMod \in Nat /\ TicketMod > 0 /\ Unsigned = 0 .. TicketMod - 1
  BY SchedulerAssumption, TicketAssumption DEF Unsigned
<1>2. ASSUME NEW a \in Unsigned, NEW b \in Unsigned
      PROVE  Dist(a, b) = IF a >= b THEN a - b ELSE a - b + TicketMod
  <2>1. (a - b) % TicketMod = IF a >= b THEN a - b ELSE a - b + TicketMod
    BY <1>1, <1>2, Z3
  <2> QED
    BY <2>1, ZenonT(30) DEF Dist
<1>3. /\ Succ(n) \in Unsigned /\ Succ(n) = IF n + 1 = TicketMod THEN 0 ELSE n + 1
      /\ Succ(m) \in Unsigned /\ Succ(m) = IF m + 1 = TicketMod THEN 0 ELSE m + 1
  BY SuccLemma, ZenonT(30)
<1>4. /\ Dist(n, m) = IF n >= m THEN n - m ELSE n - m + TicketMod
      /\ Dist(n, Succ(m)) = IF n >= Succ(m) THEN n - Succ(m) ELSE n - Succ(m) + TicketMod
      /\ Dist(Succ(n), m) = IF Succ(n) >= m THEN Succ(n) - m ELSE Succ(n) - m + TicketMod
  BY <1>2, <1>3, ZenonT(30)
<1>5. Dist(n, m) \in Unsigned /\ (Dist(n, m) = 0 <=> n = m)
  BY <1>1, <1>4
<1>6. ASSUME NEW l \in Unsigned, Dist(n, m) = Dist(l, m)
      PROVE  n = l
  <2>1. Dist(l, m) = IF l >= m THEN l - m ELSE l - m + TicketMod
    BY <1>2, ZenonT(30)
  <2> QED
    BY <1>1, <1>4, <1>6, <2>1
<1>7. ASSUME Dist(n, m) # 0
      PROVE  Dist(n, Succ(m)) = Dist(n, m) - 1
  BY <1>1, <1>3, <1>4, <1>7
<1>8. ASSUME Dist(n, m) + 1 < TicketMod
      PROVE  Dist(Succ(n), m) = Dist(n, m) + 1
  BY <1>1, <1>3, <1>4, <1>8, SMTT(30)
<1> QED
  BY <1>5, <1>6, <1>7, <1>8, ZenonT(30)

-----------------------------------------------------------------------------
(* The tickets that are out.                                               *)

\* Sets of threads can be counted.
LEMMA Counting ==
  ASSUME NEW S \in SUBSET Tids
  PROVE  /\ Cardinality(S) \in Nat
         /\ \A T \in SUBSET S : Cardinality(T) <= Cardinality(S)
         /\ \A x \in Tids \ S : Cardinality(S \cup {x}) = Cardinality(S) + 1
         /\ \A x \in S : Cardinality(S \ {x}) = Cardinality(S) - 1
<1>1. IsFiniteSet(Tids)
  BY SchedulerAssumption, FS_Interval DEF Tids
<1>2. IsFiniteSet(S)
  BY <1>1, FS_Subset, ZenonT(30)
<1> QED
  BY <1>2, FS_CardinalityType, FS_Subset, FS_AddElement, FS_RemoveElement, ZenonT(30)

-----------------------------------------------------------------------------
(* The walk along the wait queue.                                          *)

\* Unlinking a thread keeps the queue free of repetitions and removes just
\* that thread.
LEMMA UnlinkLemma ==
  ASSUME NEW S, NEW q \in Seq(S), IsInjective(q), NEW i \in DOMAIN q
  PROVE  /\ q[i] \in S /\ q[i] \in Range(q)
         /\ Without(q, i) \in Seq(S)
         /\ IsInjective(Without(q, i))
         /\ Range(Without(q, i)) = Range(q) \ {q[i]}
<1> DEFINE a == SubSeq(q, 1, i - 1)
           b == SubSeq(q, i + 1, Len(q))
           r == Without(q, i)
<1>1. Len(q) \in Nat /\ DOMAIN q = 1 .. Len(q) /\ i \in 1 .. Len(q) /\ q[i] \in S
  OBVIOUS
<1>2. a \in Seq(S) /\ Len(a) = i - 1 /\ \A j \in 1 .. i - 1 : a[j] = q[j]
  BY <1>1
<1>3. b \in Seq(S) /\ Len(b) = Len(q) - i /\ \A j \in 1 .. Len(q) - i : b[j] = q[i + j]
  BY <1>1, SMTT(30)
<1> HIDE DEF a, b, r
<1>4. /\ r = a \o b /\ r \in Seq(S) /\ Len(r) = Len(q) - 1 /\ DOMAIN r = 1 .. Len(q) - 1
      /\ \A j \in 1 .. Len(q) - 1 : r[j] = IF j < i THEN a[j] ELSE b[j - (i - 1)]
  <2>1. r = a \o b
    BY ZenonT(30) DEF Without, a, b, r
  <2>2. /\ a \o b \in Seq(S) /\ Len(a \o b) = Len(a) + Len(b)
        /\ \A j \in 1 .. Len(a) + Len(b) :
             (a \o b)[j] = IF j <= Len(a) THEN a[j] ELSE b[j - Len(a)]
    <3>1. a \in Seq(S) /\ b \in Seq(S)
      BY <1>2, <1>3, ZenonT(30)
    <3> QED
      BY <3>1
  <2>3. Len(a) + Len(b) = Len(q) - 1
    BY <1>1, <1>2, <1>3
  <2>4. r \in Seq(S) /\ Len(r) = Len(q) - 1
    BY <2>1, <2>2, <2>3, ZenonT(30)
  <2>5. DOMAIN r = 1 .. Len(q) - 1
    BY <2>4
  <2>6. \A j \in 1 .. Len(q) - 1 : r[j] = IF j < i THEN a[j] ELSE b[j - (i - 1)]
    <3> SUFFICES ASSUME NEW j \in 1 .. Len(q) - 1
                 PROVE  r[j] = IF j < i THEN a[j] ELSE b[j - (i - 1)]
      OBVIOUS
    <3>1. r[j] = IF j <= Len(a) THEN a[j] ELSE b[j - Len(a)]
      BY <2>1, <2>2, <2>3, ZenonT(30)
    <3>2. Len(a) = i - 1 /\ (j <= i - 1 <=> j < i)
      BY <1>1, <1>2
    <3> QED
      BY <3>1, <3>2, ZenonT(30)
  <2> QED
    BY <2>1, <2>4, <2>5, <2>6, ZenonT(30)
<1>5. \A j \in 1 .. Len(q) - 1 : r[j] = IF j < i THEN q[j] ELSE q[j + 1]
  <2> SUFFICES ASSUME NEW j \in 1 .. Len(q) - 1
               PROVE  r[j] = IF j < i THEN q[j] ELSE q[j + 1]
    OBVIOUS
  <2>1. CASE j < i
    <3>1. j \in 1 .. i - 1
      BY <1>1, <2>1
    <3>2. r[j] = a[j]
      BY <1>4, <2>1, ZenonT(30)
    <3> QED
      BY <1>2, <2>1, <3>1, <3>2, ZenonT(30)
  <2>2. CASE ~(j < i)
    <3>1. j - (i - 1) \in 1 .. Len(q) - i /\ i + (j - (i - 1)) = j + 1
      BY <1>1, <2>2
    <3> QED
      BY <1>3, <1>4, <2>2, <3>1, ZenonT(30)
  <2> QED
    BY <2>1, <2>2, ZenonT(30)
<1>6. IsInjective(r)
  <2> SUFFICES ASSUME NEW x \in 1 .. Len(q) - 1, NEW y \in 1 .. Len(q) - 1, r[x] = r[y]
               PROVE  x = y
    BY <1>4, ZenonT(30) DEF IsInjective
  <2>1. PICK v \in DOMAIN q : v = (IF x < i THEN x ELSE x + 1) /\ r[x] = q[v]
    BY <1>1, <1>5
  <2>2. PICK w \in DOMAIN q : w = (IF y < i THEN y ELSE y + 1) /\ r[y] = q[w]
    BY <1>1, <1>5
  <2>3. v = w
    BY <2>1, <2>2, ZenonT(30) DEF IsInjective
  <2> QED
    BY <1>1, <2>1, <2>2, <2>3
<1>7. Range(r) \subseteq Range(q) \ {q[i]}
  <2> SUFFICES ASSUME NEW j \in 1 .. Len(q) - 1
               PROVE  r[j] \in Range(q) /\ r[j] # q[i]
    BY <1>4, ZenonT(30) DEF Range
  <2>1. PICK v \in DOMAIN q : v # i /\ r[j] = q[v]
    BY <1>1, <1>5, SMTT(30)
  <2> QED
    BY <1>1, <2>1, ZenonT(30) DEF Range, IsInjective
<1>8. Range(q) \ {q[i]} \subseteq Range(r)
  <2> SUFFICES ASSUME NEW j \in 1 .. Len(q), q[j] # q[i]
               PROVE  q[j] \in Range(r)
    BY <1>1, ZenonT(30) DEF Range
  <2>1. PICK v \in 1 .. Len(q) - 1 : r[v] = q[j]
    <3>1. CASE j < i
      BY <1>1, <1>5, <3>1
    <3>2. CASE j > i
      <4>1. j - 1 \in 1 .. Len(q) - 1 /\ ~(j - 1 < i) /\ (j - 1) + 1 = j
        BY <1>1, <3>2
      <4> QED
        BY <1>5, <4>1, ZenonT(30)
    <3> QED
      BY <1>1, <3>1, <3>2
  <2> QED
    BY <1>4, <2>1, ZenonT(30) DEF Range
<1>9. q[i] \in Range(q)
  BY <1>1, ZenonT(30) DEF Range
<1> QED
  BY <1>1, <1>4, <1>6, <1>7, <1>8, <1>9, ZenonT(30) DEF r

\* uth_ticket_unlock unlinks a waiter and puts it on the run queue.
LEMMA UnlinkStep ==
  ASSUME SchedInv, pc = "serve_wake",
         NEW o \in Objs, NEW i, i \in DOMAIN waiters[o],
         Unlink(o, i)
  PROVE  /\ SchedInv'
         /\ waiters[o][i] \in Tids /\ waiters[o][i] \in Range(waiters[o])
         /\ Range(waiters'[o]) = Range(waiters[o]) \ {waiters[o][i]}
         /\ \A t \in Tids : state'[t] = IF t = waiters[o][i] THEN "READY" ELSE state[t]
<1> USE SchedulerAssumption DEF SchedInv
<1> DEFINE h == waiters[o][i]
           q == Without(waiters[o], i)
<1>1. /\ waiters' = [waiters EXCEPT ![o] = q] /\ pc' = "leave"
      /\ state' = [state EXCEPT ![h] = "READY"] /\ rq' = Append(rq, h)
      /\ UNCHANGED <<uth_current, ctx, obj, frames, masked>>
  BY ZenonT(30) DEF Unlink, uth_enqueue, queue_push
<1>2. /\ h \in Tids /\ h \in Range(waiters[o]) /\ q \in Seq(Tids) /\ IsInjective(q)
      /\ Range(q) = Range(waiters[o]) \ {h}
  BY UnlinkLemma DEF SchedTypeOK, QueueDiscipline
<1>3. state[h] = "BLOCKED" /\ obj[h] = o
  BY <1>2, ZenonT(30) DEF QueueDiscipline
<1>4. h \notin Range(rq)
  BY <1>2, <1>3, ZenonT(30) DEF QueueDiscipline
<1>5. rq' \in Seq(Tids) /\ IsInjective(rq') /\ Range(rq') = Range(rq) \cup {h}
  BY <1>1, <1>2, <1>4, PushLemma, SMTT(30) DEF SchedTypeOK, QueueDiscipline
<1> HIDE DEF h, q
<1>6. /\ OnCpu /\ OnCpu'
      /\ {pc, pc'} \cap (DOMAIN SwapTo \cup Preemptible \cup SchedLabels \cup Unmasked) = {}
      /\ pc' \in Labels
  BY <1>1, SwapLemma, ZenonT(30) DEF OnCpu, SchedLabels, Unmasked, Sections, Preemptible, Labels
<1>7. uth_current \in Tids /\ state[uth_current] = "RUNNING" /\ h # uth_current
  BY <1>3, <1>6, ZenonT(30) DEF CpuInv, SchedLabels
<1>8. SchedTypeOK'
  <2>1. state' \in [Tids -> TCBStates]
    BY <1>1, ZenonT(30) DEF SchedTypeOK, TCBStates
  <2> QED
    BY <1>1, <1>2, <1>5, <1>6, <2>1, ZenonT(30) DEF SchedTypeOK
<1>9. QueueDiscipline'
  BY <1>1, <1>2, <1>3, <1>5, SMTT(30) DEF QueueDiscipline, SchedTypeOK
<1>10. MaskDiscipline'
  BY <1>1, <1>6, ZenonT(30) DEF MaskDiscipline, SchedLabels
<1>11. CpuInv'
  BY <1>1, <1>2, <1>6, <1>7, ZenonT(30) DEF CpuInv, SchedTypeOK, SchedLabels
<1>12. FrameInv'
  BY <1>1, <1>6, ZenonT(30) DEF FrameInv, Place
<1>13. /\ Range(waiters'[o]) = Range(waiters[o]) \ {h}
       /\ \A t \in Tids : state'[t] = IF t = h THEN "READY" ELSE state[t]
  BY <1>1, <1>2, ZenonT(30) DEF SchedTypeOK
<1> QED
  BY <1>2, <1>8, <1>9, <1>10, <1>11, <1>12, <1>13, ZenonT(30) DEF h

-----------------------------------------------------------------------------
(* The inductive invariant.                                                *)

\* The initial state satisfies the inductive invariant.
LEMMA TicketInitInv == Init => TicketIndInv
<1> SUFFICES ASSUME Init PROVE TicketIndInv
  OBVIOUS
<1> USE SchedulerAssumption, TicketAssumption
<1>1. SchedInv
  BY SchedInitInv, ZenonT(30) DEF Init
<1>2. /\ next_ticket = [k \in TicketLocks |-> 0] /\ now_serving = [k \in TicketLocks |-> 0]
      /\ my_ticket = [t \in Tids |-> 0] /\ ticket = [t \in Tids |-> 0]
      /\ held = [t \in Tids |-> {}]
      /\ pc = "loop" /\ waiters = [o \in Objs |-> <<>>]
      /\ \A t \in Tids : state[t] = "READY" /\ ctx[t] = NewContext
  BY ZenonT(30) DEF Init, uth_ticket_init, SchedInit
<1>3. \A t \in Tids : Place(t) = "user"
  BY <1>2 DEF Place, OnCpu, SchedLabels, NewContext
<1>4. TypeOK
  <2>1. 0 \in Unsigned
    BY DEF Unsigned
  <2> QED
    BY <1>1, <1>2, <2>1, ZenonT(30) DEF TypeOK, SchedInv
<1>5. TurnIsAwake
  <2>1. \A k \in TicketLocks : Range(waiters[k]) = {}
    BY <1>2 DEF Range
  <2> QED
    BY <2>1, ZenonT(30) DEF TurnIsAwake
<1>6. ASSUME NEW k \in TicketLocks
      PROVE  Tickets(k)
  <2>1. Owners(k) = {}
    BY <1>2, <1>3, ZenonT(30) DEF Owners, Waiting
  <2>2. Ahead(next_ticket[k], k) = 0
    <3>1. 0 \in Unsigned
      BY DEF Unsigned
    <3> QED
      BY <1>2, <3>1, DistLemma, ZenonT(30) DEF Ahead
  <2>3. Cardinality(Owners(k)) = 0
    BY <2>1, FS_EmptySet, ZenonT(30)
  <2> QED
    BY <2>1, <2>2, <2>3, ZenonT(30) DEF Tickets
<1>7. TicketInv
  BY <1>2, <1>3, <1>6, ZenonT(30) DEF TicketInv, TicketLabels, Waiting
<1> QED
  BY <1>1, <1>4, <1>5, <1>7, ZenonT(30) DEF TicketIndInv

\* The tickets of k stay in order as long as its owners, their turns and the
\* number of tickets out are the same.
LEMMA SameTickets ==
  ASSUME NEW k \in TicketLocks, Tickets(k),
         Owners(k)' = Owners(k),
         \A t \in Owners(k) : Turn(t, k)' = Turn(t, k),
         Ahead(next_ticket[k], k)' = Ahead(next_ticket[k], k)
  PROVE  Tickets(k)'
<1>1. \A t \in Owners(k)' : Turn(t, k)' < Ahead(next_ticket[k], k)'
  BY ZenonT(30) DEF Tickets
<1>2. \A t, u \in Owners(k)' : Turn(t, k)' = Turn(u, k)' => t = u
  BY ZenonT(30) DEF Tickets
<1>3. Cardinality(Owners(k)') = Ahead(next_ticket[k], k)'
  BY ZenonT(30) DEF Tickets
<1> QED
  BY <1>1, <1>2, <1>3, ZenonT(30) DEF Tickets

\* A step that changes no ticket and puts nobody to sleep keeps the ticket
\* locks correct, if the same threads are waiting.
LEMMA OtherTicketStep ==
  ASSUME TicketIndInv, SchedInv', UNCHANGED ticketVars, UNCHANGED waiters,
         pc # "serve_wake", pc' # "ticket_block",
         pc' = "ticket_take" => Obj' \notin held'[uth_current'],
         pc' = "serve" => Obj' \in held'[uth_current'],
         \A t \in Tids : Place(t)' \in TicketLabels => obj'[t] \in TicketLocks,
         \A t \in Tids : state'[t] = "BLOCKED" /\ obj'[t] \in TicketLocks =>
           Place(t)' \in {"ticket_swap", "ticket_check"} /\ ticket[t] = my_ticket[t],
         \A k \in TicketLocks : \A t \in Tids : Waiting(t, k)' <=> Waiting(t, k)
  PROVE  TicketIndInv'
<1> USE DEF TicketIndInv, ticketVars
<1>1. TypeOK'
  BY ZenonT(30) DEF TypeOK, SchedInv
<1>2. TurnIsAwake'
  BY ZenonT(30) DEF TurnIsAwake
<1>3. ASSUME NEW k \in TicketLocks
      PROVE  Tickets(k)'
  <2>1. Owners(k)' = Owners(k)
    BY ZenonT(30) DEF Owners
  <2>2. \A t \in Owners(k) : Turn(t, k)' = Turn(t, k)
    BY ZenonT(30) DEF Turn, Ahead
  <2>3. Ahead(next_ticket[k], k)' = Ahead(next_ticket[k], k)
    BY ZenonT(30) DEF Ahead
  <2> QED
    BY <2>1, <2>2, <2>3, SameTickets, ZenonT(30) DEF TicketInv
<1>4. \A k \in TicketLocks : \A t \in Tids : k \in held'[t] => ~Waiting(t, k)'
  BY ZenonT(30) DEF TicketInv
<1>5. TicketInv'
  BY <1>3, <1>4, ZenonT(30) DEF TicketInv
<1> QED
  BY <1>1, <1>2, <1>5, ZenonT(30)

\* Nobody starts or stops waiting by a step the processor takes by itself.
LEMMA QuietWaiting ==
  ASSUME SchedInv, SchedNext \/ Preempt, NEW t \in Tids
  PROVE  /\ \/ obj'[t] = obj[t] /\ Place(t)' = Place(t)
            \/ obj'[t] = obj[t] /\ Place(t) = "ticket_swap" /\ Place(t)' = "ticket_check"
            \/ Place(t) \notin TicketLabels /\ Place(t)' \notin TicketLabels
                 /\ (obj'[t] = obj[t] \/ obj'[t] = "none")
         /\ state'[t] = "BLOCKED" => state[t] = "BLOCKED"
         /\ \A k \in TicketLocks : Waiting(t, k)' <=> Waiting(t, k)
<1>1. Quiet(t)
  BY QuietSteps, ZenonT(30)
<1>2. /\ \/ obj'[t] = obj[t] /\ Place(t)' = Place(t)
         \/ obj'[t] = obj[t] /\ Place(t) = "ticket_swap" /\ Place(t)' = "ticket_check"
         \/ Place(t) \notin TicketLabels /\ Place(t)' \notin TicketLabels
              /\ (obj'[t] = obj[t] \/ obj'[t] = "none")
      /\ state'[t] = "BLOCKED" => state[t] = "BLOCKED"
  BY <1>1, SwapLemma, ZenonT(30) DEF Quiet, TicketLabels, Preemptible, Unmasked, ReturnLabels
<1>3. \A k \in TicketLocks : Waiting(t, k)' <=> Waiting(t, k)
  BY <1>2, ZenonT(30) DEF Waiting, TicketLabels
<1> QED
  BY <1>2, <1>3, ZenonT(30)

\* The steps the processor takes by itself, and preemption.
LEMMA TicketQuiet ==
  ASSUME TicketIndInv, SchedNext \/ Preempt, UNCHANGED ticketVars
  PROVE  TicketIndInv'
<1> USE SchedulerAssumption, TicketAssumption
<1>1. /\ SchedInv' /\ UNCHANGED waiters /\ pc \in QuietFrom /\ pc' \in QuietTo
      /\ \A t \in Tids : Quiet(t)
  BY QuietSteps, ZenonT(30) DEF TicketIndInv
<1>2. pc # "serve_wake" /\ pc' \notin {"ticket_take", "ticket_block", "serve"}
  BY <1>1, SwapLemma, ZenonT(30) DEF QuietFrom, QuietTo, SchedLabels, Unmasked, ReturnLabels
<1>3. ASSUME NEW t \in Tids
      PROVE  /\ \/ obj'[t] = obj[t] /\ Place(t)' = Place(t)
                \/ obj'[t] = obj[t] /\ Place(t) = "ticket_swap" /\ Place(t)' = "ticket_check"
                \/ Place(t) \notin TicketLabels /\ Place(t)' \notin TicketLabels
                     /\ (obj'[t] = obj[t] \/ obj'[t] = "none")
             /\ state'[t] = "BLOCKED" => state[t] = "BLOCKED"
             /\ \A k \in TicketLocks : Waiting(t, k)' <=> Waiting(t, k)
  BY QuietWaiting, ZenonT(30) DEF TicketIndInv
<1>4. \A t \in Tids : Place(t)' \in TicketLabels => obj'[t] \in TicketLocks
  BY <1>3, ZenonT(30) DEF TicketIndInv, TicketInv, TicketLabels
<1>5. \A t \in Tids : state'[t] = "BLOCKED" /\ obj'[t] \in TicketLocks =>
        Place(t)' \in {"ticket_swap", "ticket_check"} /\ ticket[t] = my_ticket[t]
  BY <1>3, ZenonT(30) DEF TicketIndInv, TicketInv, TicketLabels
<1>6. \A k \in TicketLocks : \A t \in Tids : Waiting(t, k)' <=> Waiting(t, k)
  BY <1>3, ZenonT(30)
<1> QED
  BY <1>1, <1>2, <1>4, <1>5, <1>6, OtherTicketStep, ZenonT(30)

\* Nor by the first step of a call.
LEMMA EntryWaiting ==
  ASSUME SchedInv,
         NEW o \in Objs \cup {"none"},
         NEW l \in {"yield_push", "ticket_take", "serve"},
         Enter("user", o, "user", l)
  PROVE  /\ uth_current \in Tids /\ state[uth_current] = "RUNNING"
         /\ \A t \in Tids : Place(t)' = IF t = uth_current THEN l ELSE Place(t)
         /\ \A t \in Tids : obj'[t] = IF t = uth_current THEN o ELSE obj[t]
         /\ \A k \in TicketLocks : \A t \in Tids : Waiting(t, k)' <=> Waiting(t, k)
<1> DEFINE c == uth_current
<1>1. "user" \in Unmasked /\ l \notin SchedLabels
  BY ZenonT(30) DEF Unmasked, SchedLabels
<1>2. /\ pc = "user" /\ pc' = l /\ obj' = [obj EXCEPT ![c] = o]
      /\ UNCHANGED <<uth_current, ctx>>
  BY ZenonT(30) DEF Enter, uth_preempt_off
<1>3. /\ c \in Tids /\ state[c] = "RUNNING" /\ Place(c) = "user"
      /\ \A t \in Tids : Place(t)' = IF t = c THEN l ELSE Place(t)
  BY <1>1, <1>2, ThreadCode, ZenonT(30)
<1>4. \A t \in Tids : obj'[t] = IF t = c THEN o ELSE obj[t]
  BY <1>2, ZenonT(30) DEF SchedInv, SchedTypeOK
<1>5. \A k \in TicketLocks : \A t \in Tids : Waiting(t, k)' <=> Waiting(t, k)
  BY <1>3, <1>4, ZenonT(30) DEF Waiting
<1> QED
  BY <1>3, <1>4, <1>5, ZenonT(30)

\* A step of a client.
LEMMA TicketEntry ==
  ASSUME TicketIndInv,
         NEW o \in Objs \cup {"none"},
         NEW l \in {"yield_push", "ticket_take", "serve"},
         Enter("user", o, "user", l),
         l # "yield_push" => o \in TicketLocks,
         l = "ticket_take" => o \notin held[uth_current],
         l = "serve" => o \in held[uth_current],
         UNCHANGED ticketVars
  PROVE  TicketIndInv'
<1> USE SchedulerAssumption, TicketAssumption
<1> DEFINE c == uth_current
<1>1. SchedInv /\ "user" \in Unmasked /\ "user" \in ReturnLabels /\ l \in Sections
  BY ZenonT(30) DEF TicketIndInv, Unmasked, ReturnLabels, Sections
<1>2. SchedInv'
  BY <1>1, EnterStep, ZenonT(30)
<1>3. /\ pc = "user" /\ pc' = l /\ obj' = [obj EXCEPT ![c] = o]
      /\ UNCHANGED <<uth_current, rq, state, ctx, waiters>> /\ UNCHANGED held
  BY ZenonT(30) DEF Enter, uth_preempt_off, ticketVars
<1>4. /\ c \in Tids /\ state[c] = "RUNNING"
      /\ \A t \in Tids : Place(t)' = IF t = c THEN l ELSE Place(t)
      /\ \A t \in Tids : obj'[t] = IF t = c THEN o ELSE obj[t]
      /\ \A k \in TicketLocks : \A t \in Tids : Waiting(t, k)' <=> Waiting(t, k)
  BY <1>1, EntryWaiting, ZenonT(30)
<1>5. \A t \in Tids : Place(t)' \in TicketLabels => obj'[t] \in TicketLocks
  BY <1>4, ZenonT(30) DEF TicketIndInv, TicketInv, TicketLabels
<1>6. \A t \in Tids : state'[t] = "BLOCKED" /\ obj'[t] \in TicketLocks =>
        Place(t)' \in {"ticket_swap", "ticket_check"} /\ ticket[t] = my_ticket[t]
  BY <1>3, <1>4, ZenonT(30) DEF TicketIndInv, TicketInv
<1>7. /\ pc' = "ticket_take" => Obj' \notin held'[uth_current']
      /\ pc' = "serve" => Obj' \in held'[uth_current']
  BY <1>3, <1>4, ZenonT(30) DEF Obj
<1> QED
  BY <1>2, <1>3, <1>4, <1>5, <1>6, <1>7, OtherTicketStep, ZenonT(30)

\* Where the threads are while the processor goes from one label of a call
\* to the next.
LEMMA TicketPlaces ==
  ASSUME TicketIndInv, pc \in TicketLabels \ {"ticket_swap"}, pc' \notin SchedLabels,
         UNCHANGED <<uth_current, ctx>>
  PROVE  /\ SchedInv /\ pc \in Sections
         /\ uth_current \in Tids /\ state[uth_current] = "RUNNING"
         /\ Place(uth_current) = pc /\ obj[uth_current] \in TicketLocks
         /\ \A t \in Tids : Place(t)' = IF t = uth_current THEN pc' ELSE Place(t)
<1>1. SchedInv /\ pc \in Sections
  BY ZenonT(30) DEF TicketIndInv, TicketLabels, Sections
<1>2. /\ uth_current \in Tids /\ state[uth_current] = "RUNNING"
      /\ Place(uth_current) = pc
      /\ \A t \in Tids : Place(t)' = IF t = uth_current THEN pc' ELSE Place(t)
  BY <1>1, ThreadCode, ZenonT(30)
<1>3. obj[uth_current] \in TicketLocks
  BY <1>2, ZenonT(30) DEF TicketIndInv, TicketInv
<1> QED
  BY <1>1, <1>2, <1>3, ZenonT(30)

\* Turns are numbers.
LEMMA TurnLemma ==
  ASSUME TypeOK, NEW k \in TicketLocks, NEW t \in Tids
  PROVE  /\ Turn(t, k) \in Nat
         /\ Ahead(next_ticket[k], k) \in Nat
         /\ Ahead(my_ticket[t], k) \in Nat
<1>1. next_ticket[k] \in Unsigned /\ now_serving[k] \in Unsigned /\ my_ticket[t] \in Unsigned
  BY ZenonT(30) DEF TypeOK
<1>2. /\ Dist(next_ticket[k], now_serving[k]) \in Unsigned
      /\ Dist(my_ticket[t], now_serving[k]) \in Unsigned
  BY <1>1, DistLemma, ZenonT(30)
<1>3. Unsigned \subseteq Nat
  BY SchedulerAssumption, TicketAssumption DEF Unsigned
<1> QED
  BY <1>2, <1>3, ZenonT(30) DEF Turn, Ahead

\* There are more tickets than threads, so that a new ticket differs from all
\* those that are out.
LEMMA TakeTickets ==
  ASSUME TypeOK, NEW k \in TicketLocks, NEW c \in Tids, Tickets(k),
         c \notin Owners(k), k \notin held[c], Owners(k)' = Owners(k) \cup {c},
         next_ticket'[k] = Succ(next_ticket[k]),
         \A t \in Tids : my_ticket'[t] = IF t = c THEN next_ticket[k] ELSE my_ticket[t],
         UNCHANGED <<now_serving, held>>
  PROVE  Tickets(k)'
<1> DEFINE d == Ahead(next_ticket[k], k)
<1>1. next_ticket[k] \in Unsigned /\ now_serving[k] \in Unsigned
  BY ZenonT(30) DEF TypeOK
<1>2. Owners(k) \in SUBSET Tids /\ Cardinality(Owners(k)) = d
  BY ZenonT(30) DEF Owners, Tickets
<1>3. Cardinality(Owners(k) \cup {c}) = d + 1 /\ d \in Nat
  BY <1>2, Counting, ZenonT(30)
<1>4. d + 1 < TicketMod
  <2>1. Cardinality(Tids) = MaxTid
    BY SchedulerAssumption, FS_Interval DEF Tids
  <2>2. Tids \in SUBSET Tids /\ Owners(k) \cup {c} \in SUBSET Tids
    BY <1>2, ZenonT(30)
  <2>3. Cardinality(Owners(k) \cup {c}) <= MaxTid
    BY <2>1, <2>2, Counting, ZenonT(30)
  <2> QED
    BY <1>3, <2>3, SchedulerAssumption, TicketAssumption
<1>5. Ahead(next_ticket[k], k)' = d + 1
  <2>1. Dist(Succ(next_ticket[k]), now_serving[k]) = Dist(next_ticket[k], now_serving[k]) + 1
    BY <1>1, <1>4, DistLemma, ZenonT(30) DEF Ahead
  <2> QED
    BY <2>1, ZenonT(30) DEF Ahead
<1>6. Turn(c, k)' = d
  BY ZenonT(30) DEF Turn, Ahead
<1>7. \A t \in Owners(k) : Turn(t, k)' = Turn(t, k) /\ Turn(t, k) < d /\ Turn(t, k) \in Nat
  <2>1. \A t \in Owners(k) : Turn(t, k)' = Turn(t, k)
    BY <1>2, ZenonT(30) DEF Turn, Ahead
  <2>2. \A t \in Owners(k) : Turn(t, k) \in Nat
    BY <1>2, TurnLemma, ZenonT(30)
  <2> QED
    BY <2>1, <2>2, ZenonT(30) DEF Tickets
<1> HIDE DEF d
<1>8. \A t \in Owners(k)' : Turn(t, k)' < d + 1
  BY <1>3, <1>6, <1>7
<1>9. \A t, u \in Owners(k)' : Turn(t, k)' = Turn(u, k)' => t = u
  <2>1. \A t, u \in Owners(k) : Turn(t, k) = Turn(u, k) => t = u
    BY ZenonT(30) DEF Tickets
  <2>2. \A t \in Owners(k) : Turn(t, k)' # d
    BY <1>3, <1>7
  <2> QED
    BY <1>6, <1>7, <2>1, <2>2, ZenonT(30)
<1>10. Cardinality(Owners(k)') = d + 1
  BY <1>3, ZenonT(30)
<1> QED
  BY <1>5, <1>8, <1>9, <1>10, ZenonT(30) DEF Tickets

\* A thread draws a ticket.
LEMMA TakeInv ==
  ASSUME TicketIndInv, ticket_take
  PROVE  TicketIndInv'
<1> USE SchedulerAssumption, TicketAssumption
<1> DEFINE c == uth_current
           s == obj[c]
<1>1. /\ pc = "ticket_take" /\ pc' = "ticket_check"
      /\ my_ticket' = [my_ticket EXCEPT ![c] = next_ticket[s]]
      /\ next_ticket' = [next_ticket EXCEPT ![s] = Succ(@)]
      /\ UNCHANGED <<uth_current, rq, state, ctx, waiters, obj, frames, masked>>
      /\ UNCHANGED <<now_serving, ticket, held>>
  BY ZenonT(30) DEF ticket_take, Goto, Obj
<1>2. /\ SchedInv /\ pc \in Sections /\ c \in Tids /\ state[c] = "RUNNING"
      /\ Place(c) = pc /\ s \in TicketLocks
      /\ \A t \in Tids : Place(t)' = IF t = c THEN pc' ELSE Place(t)
  BY <1>1, TicketPlaces, ZenonT(30) DEF TicketLabels, SchedLabels
<1>3. SchedInv'
  <2>1. pc' \in Sections /\ Goto(pc')
    BY <1>1, ZenonT(30) DEF Sections, Goto
  <2> QED
    BY <1>2, <2>1, SectionStep, ZenonT(30)
<1> USE DEF TicketIndInv
<1>4. s \notin held[c]
  BY <1>1, ZenonT(30) DEF TicketInv, Obj
<1>5. next_ticket[s] \in Unsigned /\ now_serving[s] \in Unsigned /\ Succ(next_ticket[s]) \in Unsigned
  BY <1>2, SuccLemma, ZenonT(30) DEF TypeOK
<1>6. TypeOK'
  BY <1>1, <1>2, <1>3, <1>5, ZenonT(30) DEF TypeOK, SchedInv
<1>7. TurnIsAwake'
  BY <1>1, ZenonT(30) DEF TurnIsAwake
<1>8. \A k \in TicketLocks : \A t \in Tids :
        Waiting(t, k)' <=> (Waiting(t, k) \/ (t = c /\ k = s))
  BY <1>1, <1>2, ZenonT(30) DEF Waiting
<1>9. /\ \A t \in Tids : my_ticket'[t] = IF t = c THEN next_ticket[s] ELSE my_ticket[t]
      /\ \A k \in TicketLocks :
           next_ticket'[k] = IF k = s THEN Succ(next_ticket[s]) ELSE next_ticket[k]
  BY <1>1, <1>2, ZenonT(30) DEF TypeOK
<1>10. \A k \in TicketLocks : ~Waiting(c, k)
  BY <1>1, <1>2, ZenonT(30) DEF Waiting
<1>11. ASSUME NEW k \in TicketLocks, k = s
       PROVE  Tickets(k)'
  <2>1. c \notin Owners(k) /\ Owners(k)' = Owners(k) \cup {c}
    BY <1>1, <1>2, <1>4, <1>8, <1>10, <1>11, ZenonT(30) DEF Owners
  <2>2. Tickets(k) /\ k \notin held[c]
    BY <1>4, <1>11, ZenonT(30) DEF TicketInv
  <2>3. /\ next_ticket'[k] = Succ(next_ticket[k])
        /\ \A t \in Tids : my_ticket'[t] = IF t = c THEN next_ticket[k] ELSE my_ticket[t]
    BY <1>9, <1>11, ZenonT(30)
  <2> HIDE DEF c, s
  <2> QED
    BY <1>1, <1>2, <2>1, <2>2, <2>3, TakeTickets, ZenonT(30)
<1>12. ASSUME NEW k \in TicketLocks, k # s
       PROVE  Tickets(k)'
  <2>1. Owners(k)' = Owners(k)
    BY <1>1, <1>8, <1>12, ZenonT(30) DEF Owners
  <2>2. \A t \in Owners(k) : Turn(t, k)' = Turn(t, k)
    BY <1>1, <1>9, <1>10 DEF Owners, Turn, Ahead
  <2>3. Ahead(next_ticket[k], k)' = Ahead(next_ticket[k], k)
    BY <1>1, <1>9, <1>12, ZenonT(30) DEF Ahead
  <2> QED
    BY <2>1, <2>2, <2>3, SameTickets, ZenonT(30) DEF TicketInv
<1>13. \A k \in TicketLocks : Tickets(k)'
  BY <1>11, <1>12, ZenonT(30)
<1>14. \A k \in TicketLocks : \A t \in Tids : k \in held'[t] => ~Waiting(t, k)'
  BY <1>1, <1>4, <1>8, ZenonT(30) DEF TicketInv
<1>15. \A t \in Tids : Place(t)' \in TicketLabels => obj'[t] \in TicketLocks
  BY <1>1, <1>2, ZenonT(30) DEF TicketInv
<1>16. \A t \in Tids : state'[t] = "BLOCKED" /\ obj'[t] \in TicketLocks =>
         Place(t)' \in {"ticket_swap", "ticket_check"} /\ ticket'[t] = my_ticket'[t]
  BY <1>1, <1>2, <1>9, ZenonT(30) DEF TicketInv
<1>17. TicketInv'
  BY <1>1, <1>13, <1>14, <1>15, <1>16, ZenonT(30) DEF TicketInv
<1> QED
  BY <1>3, <1>6, <1>7, <1>17, ZenonT(30)

\* A thread gets the lock when its ticket is served, or is about to sleep.
LEMMA CheckInv ==
  ASSUME TicketIndInv, ticket_check
  PROVE  TicketIndInv'
<1> USE SchedulerAssumption, TicketAssumption
<1> DEFINE c == uth_current
           s == obj[c]
<1>1. /\ pc = "ticket_check" /\ pc' \in {"leave", "ticket_block"} /\ Goto(pc')
      /\ UNCHANGED <<uth_current, rq, state, ctx, waiters, obj, frames, masked>>
      /\ UNCHANGED <<next_ticket, now_serving>>
  BY ZenonT(30) DEF ticket_check, Check, Goto
<1>2. /\ SchedInv /\ pc \in Sections /\ c \in Tids /\ state[c] = "RUNNING"
      /\ Place(c) = pc /\ s \in TicketLocks
      /\ \A t \in Tids : Place(t)' = IF t = c THEN pc' ELSE Place(t)
  BY <1>1, TicketPlaces, ZenonT(30) DEF TicketLabels, SchedLabels
<1>3. SchedInv'
  <2>1. pc' \in Sections
    BY <1>1, ZenonT(30) DEF Sections
  <2> QED
    BY <1>1, <1>2, <2>1, SectionStep, ZenonT(30)
<1> USE DEF TicketIndInv
<1>4. /\ now_serving[s] \in Unsigned /\ my_ticket[c] \in Unsigned
      /\ \A t \in Tids : held[t] \in SUBSET TicketLocks
  BY <1>2, ZenonT(30) DEF TypeOK
<1>5. \A t \in Tids : Place(t)' \in TicketLabels => obj'[t] \in TicketLocks
  BY <1>1, <1>2, ZenonT(30) DEF TicketInv
<1>6. CASE now_serving[s] = my_ticket[c]
  <2>1. /\ pc' = "leave" /\ held' = [held EXCEPT ![c] = @ \cup {s}]
        /\ my_ticket' = [my_ticket EXCEPT ![c] = 0] /\ ticket' = [ticket EXCEPT ![c] = 0]
    BY <1>6, ZenonT(30) DEF ticket_check, Check, Goto, Obj
  <2>2. /\ \A t \in Tids : held'[t] = IF t = c THEN held[c] \cup {s} ELSE held[t]
        /\ \A t \in Tids : my_ticket'[t] = IF t = c THEN 0 ELSE my_ticket[t]
        /\ \A t \in Tids : ticket'[t] = IF t = c THEN 0 ELSE ticket[t]
    BY <1>2, <2>1, ZenonT(30) DEF TypeOK
  <2>3. TypeOK'
    <3>1. 0 \in Unsigned
      BY DEF Unsigned
    <3>2. my_ticket' \in [Tids -> Unsigned] /\ ticket' \in [Tids -> Unsigned]
      BY <2>1, <3>1, ZenonT(30) DEF TypeOK
    <3>3. held' \in [Tids -> SUBSET TicketLocks]
      BY <1>2, <2>1, ZenonT(30) DEF TypeOK
    <3> QED
      BY <1>1, <1>3, <3>2, <3>3, ZenonT(30) DEF TypeOK, SchedInv
  <2>4. \A k \in TicketLocks : c \notin Range(waiters[k])
    BY <1>2, ZenonT(30) DEF SchedInv, QueueDiscipline
  <2>5. TurnIsAwake'
    BY <1>1, <2>2, <2>4, ZenonT(30) DEF TurnIsAwake
  <2>6. \A k \in TicketLocks : \A t \in Tids : Waiting(t, k)' <=> Waiting(t, k) /\ t # c
    BY <1>1, <1>2, <2>1, ZenonT(30) DEF Waiting
  <2>7. Waiting(c, s) /\ \A k \in TicketLocks : Waiting(c, k) => k = s
    BY <1>1, <1>2, ZenonT(30) DEF Waiting
  <2>8. ASSUME NEW k \in TicketLocks
        PROVE  Tickets(k)'
    <3>1. Owners(k)' = Owners(k)
      BY <1>2, <2>2, <2>6, <2>7, ZenonT(30) DEF Owners
    <3>2. ASSUME NEW t \in Owners(k)
          PROVE  Turn(t, k)' = Turn(t, k)
      <4>1. CASE t # c
        BY <1>1, <2>2, <3>2, <4>1, ZenonT(30) DEF Turn, Ahead, Owners
      <4>2. CASE t = c /\ k \in held[c]
        BY <1>2, <2>2, <4>2, ZenonT(30) DEF Turn
      <4>3. CASE t = c /\ k \notin held[c]
        <5>1. k = s
          BY <2>7, <3>2, <4>3, ZenonT(30) DEF Owners
        <5>2. Dist(my_ticket[c], now_serving[s]) = 0
          BY <1>4, <1>6, DistLemma, ZenonT(30)
        <5> QED
          BY <1>2, <2>2, <4>3, <5>1, <5>2, ZenonT(30) DEF Turn, Ahead
      <4> QED
        BY <4>1, <4>2, <4>3, ZenonT(30)
    <3>3. Ahead(next_ticket[k], k)' = Ahead(next_ticket[k], k)
      BY <1>1, ZenonT(30) DEF Ahead
    <3> QED
      BY <3>1, <3>2, <3>3, SameTickets, ZenonT(30) DEF TicketInv
  <2>9. \A k \in TicketLocks : \A t \in Tids : k \in held'[t] => ~Waiting(t, k)'
    BY <2>2, <2>6, ZenonT(30) DEF TicketInv
  <2>10. \A t \in Tids : state'[t] = "BLOCKED" /\ obj'[t] \in TicketLocks =>
           Place(t)' \in {"ticket_swap", "ticket_check"} /\ ticket'[t] = my_ticket'[t]
    BY <1>1, <1>2, <2>2, ZenonT(30) DEF TicketInv
  <2>11. TicketInv'
    BY <1>5, <2>1, <2>8, <2>9, <2>10, ZenonT(30) DEF TicketInv
  <2> QED
    BY <1>3, <2>3, <2>5, <2>11, ZenonT(30)
<1>7. CASE now_serving[s] # my_ticket[c]
  <2>1. pc' = "ticket_block" /\ UNCHANGED <<my_ticket, ticket, held>>
    BY <1>7, ZenonT(30) DEF ticket_check, Check, Goto, Obj
  <2>2. TypeOK' /\ TurnIsAwake'
    BY <1>1, <1>3, <2>1, ZenonT(30) DEF TypeOK, SchedInv, TurnIsAwake
  <2>3. \A k \in TicketLocks : \A t \in Tids : Waiting(t, k)' <=> Waiting(t, k)
    BY <1>1, <1>2, <2>1, ZenonT(30) DEF Waiting
  <2>4. ASSUME NEW k \in TicketLocks
        PROVE  Tickets(k)'
    <3>1. Owners(k)' = Owners(k)
      BY <2>1, <2>3, ZenonT(30) DEF Owners
    <3>2. \A t \in Owners(k) : Turn(t, k)' = Turn(t, k)
      BY <1>1, <2>1, ZenonT(30) DEF Turn, Ahead
    <3>3. Ahead(next_ticket[k], k)' = Ahead(next_ticket[k], k)
      BY <1>1, ZenonT(30) DEF Ahead
    <3> QED
      BY <3>1, <3>2, <3>3, SameTickets, ZenonT(30) DEF TicketInv
  <2>5. \A k \in TicketLocks : \A t \in Tids : k \in held'[t] => ~Waiting(t, k)'
    BY <2>1, <2>3, ZenonT(30) DEF TicketInv
  <2>6. \A t \in Tids : state'[t] = "BLOCKED" /\ obj'[t] \in TicketLocks =>
          Place(t)' \in {"ticket_swap", "ticket_check"} /\ ticket'[t] = my_ticket'[t]
    BY <1>1, <1>2, <2>1, ZenonT(30) DEF TicketInv
  <2>7. my_ticket'[uth_current'] # now_serving'[Obj']
    BY <1>1, <1>7, <2>1, ZenonT(30) DEF Obj
  <2>8. TicketInv'
    BY <1>5, <2>1, <2>4, <2>5, <2>6, <2>7, ZenonT(30) DEF TicketInv
  <2> QED
    BY <1>3, <2>2, <2>8, ZenonT(30)
<1> QED
  BY <1>6, <1>7, ZenonT(30)

\* A thread whose turn it is not goes to sleep.
LEMMA TicketBlockInv ==
  ASSUME TicketIndInv, ticket_block
  PROVE  TicketIndInv'
<1> USE SchedulerAssumption, TicketAssumption
<1> DEFINE c == uth_current
           s == obj[c]
<1>1. /\ pc = "ticket_block" /\ pc' = "ticket_swap" /\ uth_block(s, "ticket_swap")
      /\ state' = [state EXCEPT ![c] = "BLOCKED"]
      /\ waiters' = [waiters EXCEPT ![s] = Append(@, c)]
      /\ obj' = [obj EXCEPT ![c] = s]
      /\ ticket' = [ticket EXCEPT ![c] = my_ticket[c]]
      /\ UNCHANGED <<uth_current, rq, ctx, frames, masked>>
      /\ UNCHANGED <<next_ticket, now_serving, my_ticket, held>>
  BY ZenonT(30) DEF ticket_block, uth_block, Obj
<1>2. /\ SchedInv /\ pc \in Sections /\ c \in Tids /\ state[c] = "RUNNING"
      /\ Place(c) = pc /\ s \in TicketLocks
      /\ \A t \in Tids : Place(t)' = IF t = c THEN pc' ELSE Place(t)
  BY <1>1, TicketPlaces, ZenonT(30) DEF TicketLabels, SchedLabels
<1>3. SchedInv'
  BY <1>1, <1>2, SwapLemma, BlockStep, ZenonT(30)
<1>4. /\ UNCHANGED obj /\ \A t \in Tids : state'[t] = IF t = c THEN "BLOCKED" ELSE state[t]
  BY <1>1, <1>2, ZenonT(30) DEF SchedInv, SchedTypeOK
<1> USE DEF TicketIndInv
<1>5. /\ ticket' \in [Tids -> Unsigned]
      /\ \A t \in Tids : ticket'[t] = IF t = c THEN my_ticket[c] ELSE ticket[t]
  BY <1>1, <1>2, ZenonT(30) DEF TypeOK
<1>6. TypeOK'
  BY <1>1, <1>3, <1>5, ZenonT(30) DEF TypeOK, SchedInv
<1>7. TurnIsAwake'
  <2> SUFFICES ASSUME NEW k \in TicketLocks, NEW t \in Tids,
                      t \in Range(waiters'[k]), ticket'[t] = now_serving[k]
               PROVE  FALSE
    BY <1>1, ZenonT(30) DEF TurnIsAwake
  <2>1. state'[t] = "BLOCKED" /\ obj[t] = k
    BY <1>3, <1>4, ZenonT(30) DEF SchedInv, QueueDiscipline
  <2>2. CASE t = c
    BY <1>1, <1>5, <2>1, <2>2, ZenonT(30) DEF TicketInv, Obj
  <2>3. CASE t # c
    <3>1. t \in Range(waiters[k])
      BY <1>2, <1>4, <2>1, <2>3, ZenonT(30) DEF SchedInv, QueueDiscipline
    <3> QED
      BY <1>1, <1>5, <2>3, <3>1, ZenonT(30) DEF TurnIsAwake
  <2> QED
    BY <2>2, <2>3, ZenonT(30)
<1>8. \A k \in TicketLocks : \A t \in Tids : Waiting(t, k)' <=> Waiting(t, k)
  BY <1>1, <1>2, <1>4, ZenonT(30) DEF Waiting
<1>9. ASSUME NEW k \in TicketLocks
      PROVE  Tickets(k)'
  <2>1. Owners(k)' = Owners(k)
    BY <1>1, <1>8, ZenonT(30) DEF Owners
  <2>2. \A t \in Owners(k) : Turn(t, k)' = Turn(t, k)
    BY <1>1, ZenonT(30) DEF Turn, Ahead
  <2>3. Ahead(next_ticket[k], k)' = Ahead(next_ticket[k], k)
    BY <1>1, ZenonT(30) DEF Ahead
  <2> QED
    BY <2>1, <2>2, <2>3, SameTickets, ZenonT(30) DEF TicketInv
<1>10. \A k \in TicketLocks : \A t \in Tids : k \in held'[t] => ~Waiting(t, k)'
  BY <1>1, <1>8, ZenonT(30) DEF TicketInv
<1>11. \A t \in Tids : Place(t)' \in TicketLabels => obj'[t] \in TicketLocks
  BY <1>1, <1>2, <1>4, ZenonT(30) DEF TicketInv
<1>12. \A t \in Tids : state'[t] = "BLOCKED" /\ obj'[t] \in TicketLocks =>
         Place(t)' \in {"ticket_swap", "ticket_check"} /\ ticket'[t] = my_ticket'[t]
  BY <1>1, <1>2, <1>4, <1>5, SMTT(30) DEF TicketInv
<1>13. TicketInv'
  BY <1>1, <1>9, <1>10, <1>11, <1>12, ZenonT(30) DEF TicketInv
<1> QED
  BY <1>3, <1>6, <1>7, <1>13, ZenonT(30)

-----------------------------------------------------------------------------
(* The steps of uth_ticket_unlock.                                         *)

\* When the next ticket is served, everybody's turn comes one nearer.
LEMMA ServeTurns ==
  ASSUME TypeOK, NEW k \in TicketLocks, NEW c \in Tids, Tickets(k), k \in held[c],
         now_serving'[k] = Succ(now_serving[k]),
         \A t \in Tids : held'[t] = IF t = c THEN held[c] \ {k} ELSE held[t],
         UNCHANGED <<next_ticket, my_ticket>>
  PROVE  /\ c \in Owners(k) /\ Turn(c, k) = 0
         /\ Ahead(next_ticket[k], k)' = Ahead(next_ticket[k], k) - 1
         /\ \A t \in Owners(k) \ {c} :
              /\ k \notin held[t] /\ Turn(t, k) # 0 /\ Turn(t, k) = Ahead(my_ticket[t], k)
              /\ Turn(t, k)' = Turn(t, k) - 1 /\ Turn(t, k)' = Ahead(my_ticket[t], k)'
<1>1. c \in Owners(k) /\ Turn(c, k) = 0
  BY ZenonT(30) DEF Owners, Turn
<1>2. next_ticket[k] \in Unsigned /\ now_serving[k] \in Unsigned
  BY ZenonT(30) DEF TypeOK
<1>3. Ahead(next_ticket[k], k)' = Ahead(next_ticket[k], k) - 1
  <2>1. Ahead(next_ticket[k], k) # 0
    BY <1>1, TurnLemma, SMTT(30) DEF Tickets
  <2> QED
    BY <1>2, <2>1, DistLemma, SMTT(30) DEF Ahead
<1>4. ASSUME NEW t \in Owners(k) \ {c}
      PROVE  /\ k \notin held[t] /\ Turn(t, k) # 0 /\ Turn(t, k) = Ahead(my_ticket[t], k)
             /\ Turn(t, k)' = Turn(t, k) - 1 /\ Turn(t, k)' = Ahead(my_ticket[t], k)'
  <2>1. Turn(t, k) # 0 /\ t \in Tids
    BY <1>1, <1>4, ZenonT(30) DEF Tickets, Owners
  <2>2. k \notin held[t] /\ Turn(t, k) = Ahead(my_ticket[t], k)
    BY <2>1, ZenonT(30) DEF Turn
  <2>3. my_ticket[t] \in Unsigned
    BY <2>1, ZenonT(30) DEF TypeOK
  <2>4. Ahead(my_ticket[t], k)' = Ahead(my_ticket[t], k) - 1
    BY <1>2, <2>1, <2>2, <2>3, DistLemma, SMTT(30) DEF Ahead
  <2>5. Turn(t, k)' = Ahead(my_ticket[t], k)'
    BY <1>4, <2>1, <2>2, ZenonT(30) DEF Turn
  <2> QED
    BY <2>1, <2>2, <2>4, <2>5, ZenonT(30)
<1> QED
  BY <1>1, <1>3, <1>4, ZenonT(30)

\* So the tickets stay in order when the holder gives the lock back.
LEMMA ServeTickets ==
  ASSUME TypeOK, NEW k \in TicketLocks, NEW c \in Tids, Tickets(k), k \in held[c],
         now_serving'[k] = Succ(now_serving[k]),
         \A t \in Tids : held'[t] = IF t = c THEN held[c] \ {k} ELSE held[t],
         UNCHANGED <<next_ticket, my_ticket>>,
         Owners(k)' = Owners(k) \ {c}
  PROVE  Tickets(k)'
<1> DEFINE d == Ahead(next_ticket[k], k)
<1>1. /\ c \in Owners(k) /\ Ahead(next_ticket[k], k)' = d - 1
      /\ \A t \in Owners(k) \ {c} : Turn(t, k) # 0 /\ Turn(t, k)' = Turn(t, k) - 1
  BY ServeTurns, ZenonT(30)
<1>2. Owners(k) \in SUBSET Tids /\ Cardinality(Owners(k)) = d
  BY ZenonT(30) DEF Owners, Tickets
<1>3. Cardinality(Owners(k)') = d - 1
  BY <1>1, <1>2, Counting, ZenonT(30)
<1>4. d \in Nat /\ \A t \in Owners(k) : Turn(t, k) \in Nat /\ Turn(t, k) < d
  BY <1>2, TurnLemma, ZenonT(30) DEF Tickets
<1> HIDE DEF d
<1>5. \A t \in Owners(k)' : Turn(t, k)' < d - 1
  BY <1>1, <1>4, SMTT(30)
<1>6. \A t, u \in Owners(k)' : Turn(t, k)' = Turn(u, k)' => t = u
  <2> SUFFICES ASSUME NEW t \in Owners(k) \ {c}, NEW u \in Owners(k) \ {c},
                      Turn(t, k)' = Turn(u, k)'
               PROVE  t = u
    BY ZenonT(30)
  <2>1. Turn(t, k) = Turn(u, k)
    BY <1>1, <1>4, SMTT(30)
  <2> QED
    BY <2>1, ZenonT(30) DEF Tickets
<1> QED
  BY <1>1, <1>3, <1>5, <1>6, SMTT(30) DEF Tickets

\* The holder advances now_serving.
LEMMA ServeInv ==
  ASSUME TicketIndInv, serve
  PROVE  TicketIndInv'
<1> USE SchedulerAssumption, TicketAssumption
<1> DEFINE c == uth_current
           s == obj[c]
<1>1. /\ pc = "serve" /\ pc' = "serve_wake"
      /\ now_serving' = [now_serving EXCEPT ![s] = Succ(@)]
      /\ held' = [held EXCEPT ![c] = @ \ {s}]
      /\ UNCHANGED <<uth_current, rq, state, ctx, waiters, obj, frames, masked>>
      /\ UNCHANGED <<next_ticket, my_ticket, ticket>>
  BY ZenonT(30) DEF serve, Goto, Obj
<1>2. /\ SchedInv /\ pc \in Sections /\ c \in Tids /\ state[c] = "RUNNING"
      /\ Place(c) = pc /\ s \in TicketLocks
      /\ \A t \in Tids : Place(t)' = IF t = c THEN pc' ELSE Place(t)
  BY <1>1, TicketPlaces, ZenonT(30) DEF TicketLabels, SchedLabels
<1>3. SchedInv'
  <2>1. pc' \in Sections /\ Goto(pc')
    BY <1>1, ZenonT(30) DEF Sections, Goto
  <2> QED
    BY <1>2, <2>1, SectionStep, ZenonT(30)
<1> USE DEF TicketIndInv
<1>4. s \in held[c]
  BY <1>1, ZenonT(30) DEF TicketInv, Obj
<1>5. /\ \A t \in Tids : held'[t] = IF t = c THEN held[c] \ {s} ELSE held[t]
      /\ \A k \in TicketLocks :
           now_serving'[k] = IF k = s THEN Succ(now_serving[s]) ELSE now_serving[k]
  BY <1>1, <1>2, ZenonT(30) DEF TypeOK
<1>6. TypeOK'
  <2>1. Succ(now_serving[s]) \in Unsigned
    BY <1>2, SuccLemma, ZenonT(30) DEF TypeOK
  <2>2. now_serving' \in [TicketLocks -> Unsigned] /\ held' \in [Tids -> SUBSET TicketLocks]
    BY <1>1, <1>2, <2>1, ZenonT(30) DEF TypeOK
  <2> QED
    BY <1>1, <1>3, <2>2, ZenonT(30) DEF TypeOK, SchedInv
<1>7. TurnIsAwake'
  BY <1>1, <1>5, ZenonT(30) DEF TurnIsAwake
<1>8. /\ \A k \in TicketLocks : \A t \in Tids : Waiting(t, k)' <=> Waiting(t, k)
      /\ \A k \in TicketLocks : ~Waiting(c, k)
  BY <1>1, <1>2, ZenonT(30) DEF Waiting
<1>9. ASSUME NEW k \in TicketLocks, k = s
      PROVE  Tickets(k)'
  <2>1. Owners(k)' = Owners(k) \ {c}
    BY <1>5, <1>8, <1>9, ZenonT(30) DEF Owners
  <2>2. /\ Tickets(k) /\ k \in held[c] /\ now_serving'[k] = Succ(now_serving[k])
        /\ \A t \in Tids : held'[t] = IF t = c THEN held[c] \ {k} ELSE held[t]
    BY <1>4, <1>5, <1>9, ZenonT(30) DEF TicketInv
  <2> HIDE DEF c, s
  <2> QED
    BY <1>1, <1>2, <2>1, <2>2, ServeTickets, ZenonT(30)
<1>10. ASSUME NEW k \in TicketLocks, k # s
       PROVE  Tickets(k)'
  <2>1. Owners(k)' = Owners(k)
    BY <1>5, <1>8, <1>10, ZenonT(30) DEF Owners
  <2>2. \A t \in Owners(k) : Turn(t, k)' = Turn(t, k)
    BY <1>1, <1>5, <1>10, SMTT(30) DEF Owners, Turn, Ahead
  <2>3. Ahead(next_ticket[k], k)' = Ahead(next_ticket[k], k)
    BY <1>1, <1>5, <1>10, ZenonT(30) DEF Ahead
  <2> QED
    BY <2>1, <2>2, <2>3, SameTickets, ZenonT(30) DEF TicketInv
<1>11. \A k \in TicketLocks : \A t \in Tids : k \in held'[t] => ~Waiting(t, k)'
  BY <1>5, <1>8, ZenonT(30) DEF TicketInv
<1>12. \A t \in Tids : Place(t)' \in TicketLabels => obj'[t] \in TicketLocks
  BY <1>1, <1>2, ZenonT(30) DEF TicketInv
<1>13. \A t \in Tids : state'[t] = "BLOCKED" /\ obj'[t] \in TicketLocks =>
         Place(t)' \in {"ticket_swap", "ticket_check"} /\ ticket'[t] = my_ticket'[t]
  BY <1>1, <1>2, ZenonT(30) DEF TicketInv
<1>14. TicketInv'
  BY <1>1, <1>9, <1>10, <1>11, <1>12, <1>13, ZenonT(30) DEF TicketInv
<1> QED
  BY <1>3, <1>6, <1>7, <1>14, ZenonT(30)

\* A thread that sleeps in uth_ticket_lock waits for its ticket, and two
\* threads that wait have different tickets.
LEMMA SleeperLemma ==
  ASSUME TicketIndInv, NEW k \in TicketLocks, NEW t \in Tids, t \in Range(waiters[k])
  PROVE  /\ Waiting(t, k) /\ ticket[t] = my_ticket[t] /\ state[t] = "BLOCKED" /\ obj[t] = k
         /\ \A u \in Tids : Waiting(u, k) /\ my_ticket[u] = my_ticket[t] => u = t
<1> USE TicketAssumption DEF TicketIndInv
<1>1. state[t] = "BLOCKED" /\ obj[t] = k
  BY ZenonT(30) DEF SchedInv, QueueDiscipline
<1>2. Waiting(t, k) /\ ticket[t] = my_ticket[t]
  BY <1>1, ZenonT(30) DEF TicketInv, Waiting
<1>3. ASSUME NEW u \in Tids, Waiting(u, k), my_ticket[u] = my_ticket[t]
      PROVE  u = t
  <2>1. k \notin held[u] /\ k \notin held[t] /\ u \in Owners(k) /\ t \in Owners(k)
    BY <1>2, <1>3, ZenonT(30) DEF TicketInv, Owners
  <2>2. Turn(u, k) = Turn(t, k)
    BY <1>3, <2>1, ZenonT(30) DEF Turn
  <2> QED
    BY <2>1, <2>2, ZenonT(30) DEF TicketInv, Tickets
<1> QED
  BY <1>1, <1>2, <1>3, ZenonT(30)

\* The waiter whose ticket is served now, if there is one, is woken; there is
\* no other.
LEMMA ServeWakeInv ==
  ASSUME TicketIndInv, serve_wake
  PROVE  TicketIndInv'
<1> USE SchedulerAssumption, TicketAssumption
<1> DEFINE c == uth_current
           s == obj[c]
<1>1. /\ pc = "serve_wake" /\ pc' = "leave"
      /\ UNCHANGED <<uth_current, ctx, obj, frames, masked>> /\ UNCHANGED ticketVars
  BY ZenonT(30) DEF serve_wake, WakeTicket, Unlink, Goto
<1>2. /\ SchedInv /\ pc \in Sections /\ c \in Tids /\ state[c] = "RUNNING"
      /\ Place(c) = pc /\ s \in TicketLocks
      /\ \A t \in Tids : Place(t)' = IF t = c THEN pc' ELSE Place(t)
  BY <1>1, TicketPlaces, ZenonT(30) DEF TicketLabels, SchedLabels
<1>3. /\ SchedInv'
      /\ \A t \in Tids : state'[t] = "BLOCKED" => state[t] = "BLOCKED"
      /\ \A k \in TicketLocks : \A t \in Tids :
           t \in Range(waiters'[k]) => t \in Range(waiters[k])
                                       /\ (k = s => ticket[t] # now_serving[s])
  <2>1. CASE Places(now_serving[s]) = {} /\ Goto("leave")
    <3>1. SchedInv'
      BY <1>1, <1>2, <2>1, SectionStep, ZenonT(30) DEF Sections
    <3>2. ASSUME NEW t \in Tids, t \in Range(waiters[s])
          PROVE  ticket[t] # now_serving[s]
      <4>1. PICK i \in DOMAIN waiters[s] : waiters[s][i] = t
        BY <3>2, ZenonT(30) DEF Range
      <4> QED
        BY <2>1, <4>1, ZenonT(30) DEF Places, Obj
    <3> QED
      BY <2>1, <3>1, <3>2, ZenonT(30) DEF Goto
  <2>2. ASSUME NEW i \in Places(now_serving[s]), Unlink(s, i)
        PROVE  /\ SchedInv'
               /\ \A t \in Tids : state'[t] = "BLOCKED" => state[t] = "BLOCKED"
               /\ \A k \in TicketLocks : \A t \in Tids :
                    t \in Range(waiters'[k]) => t \in Range(waiters[k])
                                                /\ (k = s => ticket[t] # now_serving[s])
    <3> DEFINE w == waiters[s][i]
    <3>1. i \in DOMAIN waiters[s] /\ ticket[w] = now_serving[s]
      BY <2>2, ZenonT(30) DEF Places, Obj
    <3>2. /\ SchedInv' /\ w \in Tids /\ w \in Range(waiters[s])
          /\ Range(waiters'[s]) = Range(waiters[s]) \ {w}
          /\ \A t \in Tids : state'[t] = IF t = w THEN "READY" ELSE state[t]
      BY <1>1, <1>2, <2>2, <3>1, UnlinkStep, SMTT(30)
    <3>3. \A k \in TicketLocks \ {s} : waiters'[k] = waiters[k]
      BY <1>2, <2>2, ZenonT(30) DEF Unlink, SchedInv, SchedTypeOK
    <3> HIDE DEF w
    <3>4. ASSUME NEW t \in Tids, t \in Range(waiters'[s])
          PROVE  t \in Range(waiters[s]) /\ ticket[t] # now_serving[s]
      <4>1. t \in Range(waiters[s]) /\ t # w
        BY <3>2, <3>4, ZenonT(30)
      <4>2. /\ Waiting(t, s) /\ ticket[t] = my_ticket[t] /\ ticket[w] = my_ticket[w]
            /\ \A u \in Tids : Waiting(u, s) /\ my_ticket[u] = my_ticket[w] => u = w
        BY <1>2, <3>2, <4>1, SleeperLemma, SMTT(30)
      <4> QED
        BY <3>1, <4>1, <4>2, ZenonT(30)
    <3> QED
      BY <3>2, <3>3, <3>4, ZenonT(30)
  <2> QED
    BY <2>1, <2>2, ZenonT(30) DEF serve_wake, WakeTicket, Obj
<1> USE DEF TicketIndInv
<1>4. UNCHANGED <<next_ticket, now_serving, my_ticket, ticket, held>>
  BY <1>1, ZenonT(30) DEF ticketVars
<1>5. TypeOK'
  BY <1>3, <1>4, ZenonT(30) DEF TypeOK, SchedInv
<1>6. TurnIsAwake'
  <2> SUFFICES ASSUME NEW k \in TicketLocks, NEW t \in Tids,
                      t \in Range(waiters'[k]), ticket[t] = now_serving[k]
               PROVE  FALSE
    BY <1>4, ZenonT(30) DEF TurnIsAwake
  <2>1. t \in Range(waiters[k]) /\ k # s
    BY <1>3, ZenonT(30)
  <2> QED
    BY <2>1, ZenonT(30) DEF TurnIsAwake
<1>7. \A k \in TicketLocks : \A t \in Tids : Waiting(t, k)' <=> Waiting(t, k)
  BY <1>1, <1>2, ZenonT(30) DEF Waiting
<1>8. ASSUME NEW k \in TicketLocks
      PROVE  Tickets(k)'
  <2>1. Owners(k)' = Owners(k)
    BY <1>4, <1>7, ZenonT(30) DEF Owners
  <2>2. \A t \in Owners(k) : Turn(t, k)' = Turn(t, k)
    BY <1>4, ZenonT(30) DEF Turn, Ahead
  <2>3. Ahead(next_ticket[k], k)' = Ahead(next_ticket[k], k)
    BY <1>4, ZenonT(30) DEF Ahead
  <2> QED
    BY <2>1, <2>2, <2>3, SameTickets, ZenonT(30) DEF TicketInv
<1>9. \A k \in TicketLocks : \A t \in Tids : k \in held'[t] => ~Waiting(t, k)'
  BY <1>4, <1>7, ZenonT(30) DEF TicketInv
<1>10. \A t \in Tids : Place(t)' \in TicketLabels => obj'[t] \in TicketLocks
  BY <1>1, <1>2, ZenonT(30) DEF TicketInv, TicketLabels
<1>11. \A t \in Tids : state'[t] = "BLOCKED" /\ obj'[t] \in TicketLocks =>
         Place(t)' \in {"ticket_swap", "ticket_check"} /\ ticket'[t] = my_ticket'[t]
  BY <1>1, <1>2, <1>3, <1>4, ZenonT(30) DEF TicketInv
<1>12. TicketInv'
  BY <1>1, <1>8, <1>9, <1>10, <1>11, ZenonT(30) DEF TicketInv
<1> QED
  BY <1>3, <1>5, <1>6, <1>12, ZenonT(30)

\* Every step of the program preserves the inductive invariant.
LEMMA TicketNextInv == TicketIndInv /\ [Next]_vars => TicketIndInv'
<1> SUFFICES ASSUME TicketIndInv, [Next]_vars PROVE TicketIndInv'
  OBVIOUS
<1>1. CASE (SchedNext \/ Preempt) /\ UNCHANGED ticketVars
  BY <1>1, TicketQuiet, ZenonT(30)
<1>2. CASE TicketStep
  BY <1>2, TakeInv, CheckInv, TicketBlockInv, ServeInv, ServeWakeInv, ZenonT(30) DEF TicketStep
<1>3. CASE Client
  <2>1. ASSUME NEW k \in TicketLocks \ held[uth_current], uth_ticket_lock(k)
        PROVE  TicketIndInv'
    BY <2>1, TicketEntry, TicketAssumption, ZenonT(30) DEF uth_ticket_lock
  <2>2. ASSUME NEW k \in held[uth_current], uth_ticket_unlock(k)
        PROVE  TicketIndInv'
    <3>1. pc = "user" /\ SchedInv
      BY <1>3, ZenonT(30) DEF Client, TicketIndInv
    <3>2. uth_current \in Tids
      BY <3>1, ThreadCode, ZenonT(30) DEF Unmasked
    <3>3. k \in TicketLocks
      BY <3>2, ZenonT(30) DEF TicketIndInv, TypeOK
    <3> QED
      BY <2>2, <3>3, TicketEntry, TicketAssumption, ZenonT(30) DEF uth_ticket_unlock
  <2>3. CASE uth_yield("user", "user") /\ UNCHANGED ticketVars
    BY <2>3, TicketEntry, ZenonT(30) DEF uth_yield
  <2> QED
    BY <1>3, <2>1, <2>2, <2>3, ZenonT(30) DEF Client
<1>4. CASE UNCHANGED vars
  <2>1. /\ UNCHANGED schedVars /\ UNCHANGED ticketVars
        /\ UNCHANGED <<uth_current, state, ctx, waiters, obj, pc>>
    BY <1>4, ZenonT(30) DEF vars, schedVars
  <2>2. SchedInv'
    BY <2>1, SchedStutter, ZenonT(30) DEF TicketIndInv
  <2>3. TypeOK' /\ TurnIsAwake'
    BY <2>1, <2>2, ZenonT(30) DEF TicketIndInv, TypeOK, TurnIsAwake, SchedInv, ticketVars
  <2>4. \A k \in TicketLocks : Tickets(k)' = Tickets(k)
    BY <2>1, SMTT(30) DEF Tickets, Owners, Turn, Ahead, Waiting, Place, OnCpu, ticketVars
  <2>5. TicketInv'
    BY <2>1, <2>4, ZenonT(30) DEF TicketIndInv, TicketInv, Waiting, Obj, Place, OnCpu, ticketVars
  <2> QED
    BY <2>2, <2>3, <2>5, ZenonT(30) DEF TicketIndInv
<1> QED
  BY <1>1, <1>2, <1>3, <1>4, ZenonT(30) DEF Next, CpuStep

-----------------------------------------------------------------------------
(* The results.                                                            *)

\* TicketIndInv holds in every reachable state: the tickets between
\* now_serving and next_ticket are those of the owners of the lock, one each,
\* and uth_ticket_unlock leaves no thread asleep whose turn it is.
THEOREM TicketCorrect == Spec => []TicketIndInv
BY TicketInitInv, TicketNextInv, PTL DEF Spec

\* The tickets exclude: one holder, and nobody else has the ticket that is
\* served.
LEMMA TicketsExclude == TicketIndInv => TicketExclusion
<1> SUFFICES ASSUME TicketIndInv, NEW k \in TicketLocks, NEW t \in Tids, NEW u \in Tids,
                    t # u
             PROVE  /\ ~(k \in held[t] /\ k \in held[u])
                    /\ k \in held[t] /\ Waiting(u, k) => my_ticket[u] # now_serving[k]
                    /\ Waiting(t, k) /\ Waiting(u, k) => my_ticket[t] # my_ticket[u]
  BY ZenonT(30) DEF TicketExclusion
<1> USE DEF TicketIndInv
<1>1. /\ \A v \in Tids : k \in held[v] => ~Waiting(v, k) /\ v \in Owners(k) /\ Turn(v, k) = 0
      /\ \A v \in Tids : Waiting(v, k) => k \notin held[v] /\ v \in Owners(k)
                                          /\ Turn(v, k) = Ahead(my_ticket[v], k)
  BY ZenonT(30) DEF TicketInv, Owners, Turn
<1>2. \A v, w \in Owners(k) : Turn(v, k) = Turn(w, k) => v = w
  BY ZenonT(30) DEF TicketInv, Tickets
<1>3. my_ticket[u] = now_serving[k] => Ahead(my_ticket[u], k) = 0
  <2>1. my_ticket[u] \in Unsigned /\ now_serving[k] \in Unsigned
    BY ZenonT(30) DEF TypeOK
  <2> QED
    BY <2>1, DistLemma, SMTT(30) DEF Ahead
<1> QED
  BY <1>1, <1>2, <1>3, ZenonT(30)

\* A ticket lock has one holder at a time, across the wraparound of the
\* counters (uth_ticket_lock, uth_ticket_unlock).
THEOREM TicketExcludes == Spec => []TicketExclusion
BY TicketsExclude, TicketCorrect, PTL

\* uth_ticket_unlock wakes the thread whose ticket is served.
THEOREM TicketTurn == Spec => []TurnIsAwake
<1>1. TicketIndInv => TurnIsAwake
  BY ZenonT(30) DEF TicketIndInv
<1> QED
  BY <1>1, TicketCorrect, PTL

-----------------------------------------------------------------------------
(* The fair lock.                                                          *)

\* A lock with a holder has that holder.
LEMMA TicketHolder ==
  ASSUME TicketIndInv, NEW k \in TicketLocks, NEW c \in Tids, k \in held[c]
  PROVE  Holder(k) = c /\ \A t \in Tids : k \in held[t] => t = c
<1>1. \A t \in Tids : k \in held[t] => t = c
  BY TicketsExclude, ZenonT(30) DEF TicketExclusion
<1> QED
  BY <1>1, ZenonT(30) DEF Holder

\* What does not change with the fair lock's view of k.
LEMMA SameView ==
  ASSUME NEW k \in TicketLocks,
         \A t \in Tids : k \in held'[t] <=> k \in held[t],
         \A t \in Tids : Waiting(t, k)' <=> Waiting(t, k),
         \A t \in Tids : Waiting(t, k) => my_ticket'[t] = my_ticket[t],
         now_serving'[k] = now_serving[k]
  PROVE  Holder(k)' = Holder(k) /\ Asking(k)' = Asking(k) /\ Order(k)' = Order(k)
<1>1. Holder(k)' = Holder(k) /\ Asking(k)' = Asking(k)
  BY ZenonT(30) DEF Holder, Asking
<1>2. \A t, u \in Tids : Sooner(t, u, k)' <=> Sooner(t, u, k)
  BY ZenonT(30) DEF Sooner, Ahead
<1>3. Order(k)' = Order(k)
  BY <1>2, ZenonT(30) DEF Order
<1> QED
  BY <1>1, <1>3, ZenonT(30)

\* Two sets of pairs of threads are equal if they have the same pairs.
LEMMA PairsLemma ==
  ASSUME NEW A \in SUBSET (Tids \X Tids), NEW B \in SUBSET (Tids \X Tids),
         \A t, u \in Tids : <<t, u>> \in A <=> <<t, u>> \in B
  PROVE  A = B
OBVIOUS

\* Being before another thread, in pairs.
LEMMA OrderLemma ==
  ASSUME NEW k \in TicketLocks
  PROVE  /\ Order(k) \in SUBSET (Tids \X Tids)
         /\ \A t, u \in Tids : <<t, u>> \in Order(k) <=> Sooner(t, u, k)
         /\ Order(k)' \in SUBSET (Tids \X Tids)
         /\ \A t, u \in Tids : <<t, u>> \in Order(k)' <=> Sooner(t, u, k)'
BY ZenonT(30) DEF Order

\* The turn of a thread that waits is that of its ticket.
LEMMA WaitingTurn ==
  ASSUME TicketIndInv, NEW k \in TicketLocks, NEW t \in Tids, Waiting(t, k)
  PROVE  /\ t \in Owners(k) /\ k \notin held[t] /\ Turn(t, k) = Ahead(my_ticket[t], k)
         /\ Ahead(my_ticket[t], k) \in Nat
         /\ Ahead(my_ticket[t], k) < Ahead(next_ticket[k], k)
         /\ Ahead(next_ticket[k], k) \in Nat
<1>1. t \in Owners(k) /\ k \notin held[t] /\ Turn(t, k) = Ahead(my_ticket[t], k)
  BY ZenonT(30) DEF TicketIndInv, TicketInv, Owners, Turn
<1>2. Ahead(my_ticket[t], k) \in Nat /\ Ahead(next_ticket[k], k) \in Nat
  BY TurnLemma, ZenonT(30) DEF TicketIndInv
<1> QED
  BY <1>1, <1>2, ZenonT(30) DEF TicketIndInv, TicketInv, Tickets

\* Drawing a ticket is asking for the lock: the new ticket is behind those of
\* all threads that wait.
LEMMA TakeAsks ==
  ASSUME TicketIndInv, NEW k \in TicketLocks, NEW c \in Tids, ~Waiting(c, k),
         \A t \in Tids : Waiting(t, k)' <=> Waiting(t, k) \/ t = c,
         \A t \in Tids : my_ticket'[t] = IF t = c THEN next_ticket[k] ELSE my_ticket[t],
         UNCHANGED <<now_serving, held>>
  PROVE  /\ c \notin Asking(k) /\ Asking(k)' = Asking(k) \cup {c}
         /\ Order(k)' = Order(k) \cup (Asking(k) \X {c})
         /\ Holder(k)' = Holder(k)
<1>1. c \notin Asking(k) /\ Asking(k)' = Asking(k) \cup {c} /\ Holder(k)' = Holder(k)
  BY ZenonT(30) DEF Asking, Holder
<1>2. /\ Ahead(my_ticket[c], k)' = Ahead(next_ticket[k], k)
      /\ \A t \in Tids \ {c} : Ahead(my_ticket[t], k)' = Ahead(my_ticket[t], k)
  BY ZenonT(30) DEF Ahead
<1>3. /\ \A t \in Tids : Waiting(t, k) =>
           /\ Ahead(my_ticket[t], k) \in Nat /\ Ahead(next_ticket[k], k) \in Nat
           /\ Ahead(my_ticket[t], k) < Ahead(next_ticket[k], k)
      /\ Ahead(next_ticket[k], k) \in Nat
  BY WaitingTurn, TurnLemma, ZenonT(30) DEF TicketIndInv
<1>4. ASSUME NEW t \in Tids, NEW u \in Tids
      PROVE  Sooner(t, u, k)' <=> Sooner(t, u, k) \/ (Waiting(t, k) /\ u = c)
  BY <1>2, <1>3 DEF Sooner
<1>5. Order(k)' = Order(k) \cup (Asking(k) \X {c})
  <2>1. Order(k) \cup (Asking(k) \X {c}) \in SUBSET (Tids \X Tids)
    BY OrderLemma, ZenonT(30) DEF Asking
  <2>2. \A t, u \in Tids : <<t, u>> \in Order(k) \cup (Asking(k) \X {c})
                             <=> Sooner(t, u, k) \/ (Waiting(t, k) /\ u = c)
    BY OrderLemma, ZenonT(30) DEF Asking
  <2> QED
    BY <1>4, <2>1, <2>2, OrderLemma, PairsLemma, SMTT(30)
<1> QED
  BY <1>1, <1>5, ZenonT(30)

\* The thread whose ticket is served asked before all others that wait, and
\* the lock is free.
LEMMA CheckAcquires ==
  ASSUME TicketIndInv, NEW k \in TicketLocks, NEW c \in Tids, Waiting(c, k),
         my_ticket[c] = now_serving[k],
         \A t \in Tids : Waiting(t, k)' <=> Waiting(t, k) /\ t # c,
         \A t \in Tids : held'[t] = IF t = c THEN held[c] \cup {k} ELSE held[t],
         \A t \in Tids \ {c} : my_ticket'[t] = my_ticket[t],
         UNCHANGED now_serving
  PROVE  /\ Holder(k) = NULL /\ Holder(k)' = c
         /\ c \in Asking(k) /\ Asking(k)' = Asking(k) \ {c}
         /\ \A u \in Asking(k) : <<u, c>> \notin Order(k)
         /\ Order(k)' = Order(k) \ ({c} \X Asking(k))
<1>1. c \in Asking(k) /\ Asking(k)' = Asking(k) \ {c}
  BY ZenonT(30) DEF Asking
<1>2. \A t \in Tids : k \notin held[t]
  <2>1. k \notin held[c]
    BY WaitingTurn, ZenonT(30)
  <2> QED
    BY <2>1, TicketsExclude, ZenonT(30) DEF TicketExclusion
<1>3. Holder(k) = NULL /\ Holder(k)' = c
  <2>1. \A t \in Tids : k \in held'[t] <=> t = c
    BY <1>2, ZenonT(30)
  <2> QED
    BY <1>2, <2>1, ZenonT(30) DEF Holder
<1>4. Ahead(my_ticket[c], k) = 0
  BY DistLemma, ZenonT(30) DEF TicketIndInv, TypeOK, Ahead
<1>5. \A u \in Tids : ~Sooner(u, c, k)
  BY <1>4, WaitingTurn DEF Sooner
<1>6. \A u \in Asking(k) : <<u, c>> \notin Order(k)
  BY <1>5, OrderLemma, ZenonT(30) DEF Asking
<1>7. ASSUME NEW t \in Tids, NEW u \in Tids
      PROVE  Sooner(t, u, k)' <=> Sooner(t, u, k) /\ t # c
  <2>1. \A v \in Tids \ {c} : Ahead(my_ticket[v], k)' = Ahead(my_ticket[v], k)
    BY ZenonT(30) DEF Ahead
  <2> QED
    BY <1>5, <2>1 DEF Sooner
<1>8. Order(k)' = Order(k) \ ({c} \X Asking(k))
  <2>1. Order(k) \ ({c} \X Asking(k)) \in SUBSET (Tids \X Tids)
    BY OrderLemma, ZenonT(30)
  <2>2. \A t, u \in Tids : <<t, u>> \in Order(k) \ ({c} \X Asking(k))
                             <=> Sooner(t, u, k) /\ t # c
    BY OrderLemma, ZenonT(30) DEF Asking, Sooner
  <2> QED
    BY <1>7, <2>1, <2>2, OrderLemma, PairsLemma, SMTT(30)
<1> QED
  BY <1>1, <1>3, <1>6, <1>8, ZenonT(30)

\* Serving the next ticket releases the lock, and changes no order.
LEMMA ServeReleases ==
  ASSUME TicketIndInv, NEW k \in TicketLocks, NEW c \in Tids, k \in held[c],
         \A t \in Tids : Waiting(t, k)' <=> Waiting(t, k),
         now_serving'[k] = Succ(now_serving[k]),
         \A t \in Tids : held'[t] = IF t = c THEN held[c] \ {k} ELSE held[t],
         UNCHANGED <<next_ticket, my_ticket>>
  PROVE  /\ Holder(k) = c /\ Holder(k)' = NULL
         /\ Asking(k)' = Asking(k) /\ Order(k)' = Order(k)
<1>1. Holder(k) = c /\ \A t \in Tids : k \in held[t] => t = c
  BY TicketHolder, ZenonT(30)
<1>2. Holder(k)' = NULL
  <2>1. \A t \in Tids : k \notin held'[t]
    BY <1>1, ZenonT(30)
  <2> QED
    BY <2>1, ZenonT(30) DEF Holder
<1>3. Asking(k)' = Asking(k)
  BY ZenonT(30) DEF Asking
<1>4. \A t \in Tids : Waiting(t, k) =>
        /\ Ahead(my_ticket[t], k)' = Ahead(my_ticket[t], k) - 1
        /\ Ahead(my_ticket[t], k) \in Nat
  <2> SUFFICES ASSUME NEW t \in Tids, Waiting(t, k)
               PROVE  /\ Ahead(my_ticket[t], k)' = Ahead(my_ticket[t], k) - 1
                      /\ Ahead(my_ticket[t], k) \in Nat
    OBVIOUS
  <2>1. t \in Owners(k) \ {c} /\ Ahead(my_ticket[t], k) \in Nat
    BY WaitingTurn, ZenonT(30)
  <2>2. Tickets(k) /\ TypeOK
    BY ZenonT(30) DEF TicketIndInv, TicketInv
  <2>3. /\ Turn(t, k) = Ahead(my_ticket[t], k) /\ Turn(t, k)' = Turn(t, k) - 1
        /\ Turn(t, k)' = Ahead(my_ticket[t], k)'
    BY <2>1, <2>2, ServeTurns, ZenonT(30)
  <2> QED
    BY <2>1, <2>3, ZenonT(30)
<1>5. \A t, u \in Tids : Sooner(t, u, k)' <=> Sooner(t, u, k)
  BY <1>4 DEF Sooner
<1>6. Order(k)' = Order(k)
  BY <1>5, ZenonT(30) DEF Order
<1> QED
  BY <1>1, <1>2, <1>3, <1>6, ZenonT(30)

\* The steps that are none of the fair lock's.
LEMMA HiddenStep ==
  ASSUME TicketIndInv,
         \/ (SchedNext \/ Preempt) /\ UNCHANGED ticketVars
         \/ ticket_check /\ now_serving[Obj] # my_ticket[uth_current]
         \/ ticket_block
         \/ serve_wake
         \/ Client
         \/ UNCHANGED vars
  PROVE  UNCHANGED <<[k \in TicketLocks |-> Holder(k)],
                     [k \in TicketLocks |-> Asking(k)],
                     [k \in TicketLocks |-> Order(k)]>>
<1> USE SchedulerAssumption, TicketAssumption
<1>1. UNCHANGED <<held, my_ticket, now_serving>>
  BY ZenonT(30) DEF ticket_check, Check, ticket_block, serve_wake, WakeTicket, Client,
     uth_ticket_lock, uth_ticket_unlock, ticketVars, vars
<1>2. \A k \in TicketLocks : \A t \in Tids : Waiting(t, k)' <=> Waiting(t, k)
  <2>1. CASE SchedNext \/ Preempt
    BY <2>1, QuietWaiting, ZenonT(30) DEF TicketIndInv
  <2>2. CASE \/ ticket_check /\ now_serving[Obj] # my_ticket[uth_current]
             \/ ticket_block
             \/ serve_wake
    <3>1. /\ \/ pc = "ticket_check" /\ pc' = "ticket_block"
             \/ pc = "ticket_block" /\ pc' = "ticket_swap"
             \/ pc = "serve_wake" /\ pc' = "leave"
          /\ UNCHANGED <<uth_current, ctx>>
      BY <2>2, ZenonT(30) DEF ticket_check, Check, ticket_block, uth_block, serve_wake, WakeTicket,
         Unlink, Goto
    <3>2. obj' = obj \/ obj' = [obj EXCEPT ![uth_current] = obj[uth_current]]
      BY <2>2, ZenonT(30) DEF ticket_check, Check, ticket_block, uth_block, serve_wake, WakeTicket,
         Unlink, Goto, Obj
    <3>3. /\ uth_current \in Tids /\ Place(uth_current) = pc
          /\ \A t \in Tids : Place(t)' = IF t = uth_current THEN pc' ELSE Place(t)
      BY <3>1, TicketPlaces, ZenonT(30) DEF TicketLabels, SchedLabels
    <3>4. \A t \in Tids : obj'[t] = obj[t]
      <4>1. DOMAIN obj = Tids
        BY ZenonT(30) DEF TicketIndInv, SchedInv, SchedTypeOK
      <4> QED
        BY <3>2, <3>3, <4>1, ZenonT(30)
    <3> QED
      BY <3>1, <3>3, <3>4, ZenonT(30) DEF Waiting
  <2>3. CASE Client
    <3>1. SchedInv /\ pc = "user"
      BY <2>3, ZenonT(30) DEF TicketIndInv, Client
    <3>2. uth_current \in Tids
      BY <3>1, ThreadCode, ZenonT(30) DEF Unmasked
    <3>3. held[uth_current] \subseteq Objs
      BY <3>2, ZenonT(30) DEF TicketIndInv, TypeOK
    <3>4. \E o \in Objs \cup {"none"} : \E l \in {"yield_push", "ticket_take", "serve"} :
            Enter("user", o, "user", l)
      BY <2>3, <3>3, ZenonT(30) DEF Client, uth_ticket_lock, uth_ticket_unlock, uth_yield
    <3> QED
      BY <3>1, <3>4, EntryWaiting, ZenonT(30)
  <2>4. CASE UNCHANGED vars
    BY <2>4, ZenonT(30) DEF vars, schedVars, Waiting, Place, OnCpu
  <2> QED
    BY <2>1, <2>2, <2>3, <2>4, ZenonT(30)
<1>3. \A k \in TicketLocks :
        Holder(k)' = Holder(k) /\ Asking(k)' = Asking(k) /\ Order(k)' = Order(k)
  BY <1>1, <1>2, SameView, ZenonT(30)
<1> QED
  BY <1>3, ZenonT(30)

\* Every step of the program is a step of the fair lock, or none.
LEMMA FairStep ==
  ASSUME TicketIndInv, [Next]_vars
  PROVE  [Fair!Next]_<<[k \in TicketLocks |-> Holder(k)],
                       [k \in TicketLocks |-> Asking(k)],
                       [k \in TicketLocks |-> Order(k)]>>
<1> USE SchedulerAssumption, TicketAssumption
<1>1. PICK c, s : c = uth_current /\ s = obj[uth_current]
  OBVIOUS
<1>2. ASSUME pc \in {"ticket_take", "ticket_check", "serve"},
             pc' \in {"ticket_check", "leave", "serve_wake"}, Goto(pc')
      PROVE  /\ c \in Tids /\ s \in TicketLocks /\ Place(c) = pc
             /\ \A t \in Tids : Place(t)' = IF t = c THEN pc' ELSE Place(t)
             /\ UNCHANGED obj
  <2>1. pc \in TicketLabels \ {"ticket_swap"} /\ pc' \notin SchedLabels
    BY <1>2, ZenonT(30) DEF TicketLabels, SchedLabels
  <2> QED
    BY <1>1, <1>2, <2>1, TicketPlaces, ZenonT(30) DEF Goto
<1>3. CASE ticket_take
  <2>1. /\ pc = "ticket_take" /\ pc' = "ticket_check" /\ Goto(pc')
        /\ my_ticket' = [my_ticket EXCEPT ![c] = next_ticket[s]]
        /\ UNCHANGED <<now_serving, held>>
    BY <1>1, <1>3, ZenonT(30) DEF ticket_take, Goto, Obj
  <2>2. /\ c \in Tids /\ s \in TicketLocks /\ Place(c) = pc /\ UNCHANGED obj
        /\ \A t \in Tids : Place(t)' = IF t = c THEN pc' ELSE Place(t)
    BY <1>2, <2>1, ZenonT(30)
  <2>3. /\ \A t \in Tids : my_ticket'[t] = IF t = c THEN next_ticket[s] ELSE my_ticket[t]
        /\ \A k \in TicketLocks : ~Waiting(c, k)
        /\ \A k \in TicketLocks : \A t \in Tids :
             Waiting(t, k)' <=> Waiting(t, k) \/ (t = c /\ k = s)
    BY <1>1, <2>1, <2>2, ZenonT(30) DEF TicketIndInv, TypeOK, Waiting
  <2>4. /\ c \notin Asking(s) /\ Asking(s)' = Asking(s) \cup {c}
        /\ Order(s)' = Order(s) \cup (Asking(s) \X {c})
        /\ Holder(s)' = Holder(s)
    BY <2>1, <2>2, <2>3, TakeAsks, ZenonT(30)
  <2>5. \A k \in TicketLocks \ {s} :
          Holder(k)' = Holder(k) /\ Asking(k)' = Asking(k) /\ Order(k)' = Order(k)
    BY <2>1, <2>3, SameView, ZenonT(30)
  <2>6. Fair!Ask(c, s)
    BY <2>2, <2>4, <2>5, ZenonT(30) DEF Fair!Ask
  <2> QED
    BY <2>2, <2>6, ZenonT(30) DEF Fair!Next
<1>4. CASE ticket_check /\ now_serving[Obj] = my_ticket[uth_current]
  <2>1. /\ pc = "ticket_check" /\ pc' = "leave" /\ Goto(pc')
        /\ held' = [held EXCEPT ![c] = @ \cup {s}]
        /\ my_ticket' = [my_ticket EXCEPT ![c] = 0]
        /\ UNCHANGED now_serving /\ my_ticket[c] = now_serving[s]
    BY <1>1, <1>4, ZenonT(30) DEF ticket_check, Check, Goto, Obj
  <2>2. /\ c \in Tids /\ s \in TicketLocks /\ Place(c) = pc /\ UNCHANGED obj
        /\ \A t \in Tids : Place(t)' = IF t = c THEN pc' ELSE Place(t)
    BY <1>2, <2>1, ZenonT(30)
  <2>3. /\ \A t \in Tids : held'[t] = IF t = c THEN held[c] \cup {s} ELSE held[t]
        /\ \A t \in Tids \ {c} : my_ticket'[t] = my_ticket[t]
        /\ Waiting(c, s) /\ \A k \in TicketLocks : Waiting(c, k) => k = s
        /\ \A k \in TicketLocks : \A t \in Tids : Waiting(t, k)' <=> Waiting(t, k) /\ t # c
    BY <1>1, <2>1, <2>2, ZenonT(30) DEF TicketIndInv, TypeOK, Waiting
  <2>4. /\ Holder(s) = NULL /\ Holder(s)' = c
        /\ c \in Asking(s) /\ Asking(s)' = Asking(s) \ {c}
        /\ \A u \in Asking(s) : <<u, c>> \notin Order(s)
        /\ Order(s)' = Order(s) \ ({c} \X Asking(s))
    BY <2>1, <2>2, <2>3, CheckAcquires, ZenonT(30)
  <2>5. \A k \in TicketLocks \ {s} :
          Holder(k)' = Holder(k) /\ Asking(k)' = Asking(k) /\ Order(k)' = Order(k)
    BY <2>1, <2>2, <2>3, SameView, SMTT(30)
  <2>6. Fair!Acquire(c, s)
    BY <2>2, <2>4, <2>5, ZenonT(30) DEF Fair!Acquire
  <2> QED
    BY <2>2, <2>6, ZenonT(30) DEF Fair!Next
<1>5. CASE serve
  <2>1. /\ pc = "serve" /\ pc' = "serve_wake" /\ Goto(pc')
        /\ now_serving' = [now_serving EXCEPT ![s] = Succ(@)]
        /\ held' = [held EXCEPT ![c] = @ \ {s}]
        /\ UNCHANGED <<next_ticket, my_ticket>> /\ s \in held[c]
    BY <1>1, <1>5, ZenonT(30) DEF serve, Goto, Obj, TicketIndInv, TicketInv
  <2>2. /\ c \in Tids /\ s \in TicketLocks /\ Place(c) = pc /\ UNCHANGED obj
        /\ \A t \in Tids : Place(t)' = IF t = c THEN pc' ELSE Place(t)
    BY <1>2, <2>1, ZenonT(30)
  <2>3. /\ \A t \in Tids : held'[t] = IF t = c THEN held[c] \ {s} ELSE held[t]
        /\ \A k \in TicketLocks :
             now_serving'[k] = IF k = s THEN Succ(now_serving[s]) ELSE now_serving[k]
        /\ \A k \in TicketLocks : \A t \in Tids : Waiting(t, k)' <=> Waiting(t, k)
    BY <1>1, <2>1, <2>2, ZenonT(30) DEF TicketIndInv, TypeOK, Waiting
  <2>4. /\ Holder(s) = c /\ Holder(s)' = NULL
        /\ Asking(s)' = Asking(s) /\ Order(s)' = Order(s)
    BY <2>1, <2>2, <2>3, ServeReleases, ZenonT(30)
  <2>5. \A k \in TicketLocks \ {s} :
          Holder(k)' = Holder(k) /\ Asking(k)' = Asking(k) /\ Order(k)' = Order(k)
    BY <2>1, <2>2, <2>3, SameView, SMTT(30)
  <2>6. Fair!Release(c, s)
    BY <2>2, <2>4, <2>5, ZenonT(30) DEF Fair!Release
  <2> QED
    BY <2>2, <2>6, ZenonT(30) DEF Fair!Next
<1>6. CASE \/ (SchedNext \/ Preempt) /\ UNCHANGED ticketVars
           \/ ticket_check /\ now_serving[Obj] # my_ticket[uth_current]
           \/ ticket_block
           \/ serve_wake
           \/ Client
           \/ UNCHANGED vars
  BY <1>6, HiddenStep, ZenonT(30)
<1> QED
  BY <1>3, <1>4, <1>5, <1>6, ZenonT(30) DEF Next, CpuStep, TicketStep

\* uth_ticket_lock and uth_ticket_unlock implement the fair lock: whatever the
\* interleaving, the lock is given in the order in which tickets were drawn,
\* also across the wraparound of the counters.
THEOREM TicketRefines == Spec => ImplementsFairLock
<1>1. Init => Fair!Init
  <2> SUFFICES ASSUME Init PROVE Fair!Init
    OBVIOUS
  <2>1. /\ held = [t \in Tids |-> {}] /\ pc = "loop"
        /\ \A t \in Tids : ctx[t] = NewContext
    BY ZenonT(30) DEF Init, SchedInit
  <2>2. \A t \in Tids : Place(t) = "user"
    BY <2>1 DEF Place, OnCpu, SchedLabels, NewContext
  <2>3. \A k \in TicketLocks : \A t \in Tids : ~Waiting(t, k) /\ k \notin held[t]
    BY <2>1, <2>2, ZenonT(30) DEF Waiting
  <2>4. \A k \in TicketLocks : Holder(k) = NULL /\ Asking(k) = {} /\ Order(k) = {}
    BY <2>3, ZenonT(30) DEF Holder, Asking, Order, Sooner
  <2> QED
    BY <2>4, ZenonT(30) DEF Fair!Init
<1>2. TicketIndInv /\ [Next]_vars
        => [Fair!Next]_<<[k \in TicketLocks |-> Holder(k)],
                         [k \in TicketLocks |-> Asking(k)],
                         [k \in TicketLocks |-> Order(k)]>>
  BY FairStep, ZenonT(30)
<1> QED
  BY <1>1, <1>2, TicketCorrect, PTL DEF Spec, ImplementsFairLock, Fair!Spec
=============================================================================
