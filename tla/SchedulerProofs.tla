--------------------------- MODULE SchedulerProofs ---------------------------
(***************************************************************************)
(* Every step of the machine of module Scheduler preserves SchedInv, for   *)
(* any number of threads and any set of objects, with and without          *)
(* preemption.  The lemmas about single steps are what the proofs of the   *)
(* modules that add API calls are put together from.                       *)
(***************************************************************************)
EXTENDS Scheduler, TLAPS

-----------------------------------------------------------------------------
(* Queues without repetition.                                              *)

\* queue_push of a thread that is not on the queue keeps the queue free of
\* repetitions and adds just that thread.
LEMMA PushLemma ==
  ASSUME NEW S, NEW q \in Seq(S), NEW t \in S, IsInjective(q), t \notin Range(q)
  PROVE  /\ Append(q, t) \in Seq(S)
         /\ IsInjective(Append(q, t))
         /\ Range(Append(q, t)) = Range(q) \cup {t}
<1> DEFINE r == Append(q, t)
<1>1. r \in Seq(S) /\ Len(r) = Len(q) + 1 /\ DOMAIN r = 1 .. Len(q) + 1
  OBVIOUS
<1>2. r[Len(q) + 1] = t /\ \A i \in 1 .. Len(q) : r[i] = q[i]
  OBVIOUS
<1>3. DOMAIN q = 1 .. Len(q) /\ Len(q) \in Nat
  OBVIOUS
<1> HIDE DEF r
<1>4. IsInjective(r)
  BY <1>1, <1>2, <1>3 DEF IsInjective, Range
<1>5. Range(r) = Range(q) \cup {t}
  BY <1>1, <1>2, <1>3 DEF Range
<1> QED
  BY <1>1, <1>4, <1>5, ZenonT(30) DEF r

\* queue_pop keeps the queue free of repetitions and removes just its head.
LEMMA PopLemma ==
  ASSUME NEW S, NEW q \in Seq(S), q # <<>>, IsInjective(q)
  PROVE  /\ Head(q) \in S
         /\ Head(q) \in Range(q)
         /\ Tail(q) \in Seq(S)
         /\ IsInjective(Tail(q))
         /\ Range(Tail(q)) = Range(q) \ {Head(q)}
<1> DEFINE r == Tail(q)
<1>1. r \in Seq(S) /\ Len(r) = Len(q) - 1 /\ DOMAIN r = 1 .. Len(q) - 1
  OBVIOUS
<1>2. \A i \in 1 .. Len(q) - 1 : r[i] = q[i + 1]
  OBVIOUS
<1>3. DOMAIN q = 1 .. Len(q) /\ Len(q) \in Nat /\ Len(q) > 0 /\ Head(q) = q[1]
  OBVIOUS
<1> HIDE DEF r
<1>4. IsInjective(r)
  <2> SUFFICES ASSUME NEW a \in 1 .. Len(q) - 1, NEW b \in 1 .. Len(q) - 1, r[a] = r[b]
               PROVE  a = b
    BY <1>1, ZenonT(30) DEF IsInjective
  <2>1. a + 1 \in DOMAIN q /\ b + 1 \in DOMAIN q /\ q[a + 1] = q[b + 1]
    BY <1>2, <1>3
  <2> QED
    BY <2>1, a + 1 = b + 1 => a = b, ZenonT(30) DEF IsInjective
<1>5. Head(q) \in S /\ Head(q) \in Range(q)
  BY <1>3 DEF Range
<1>6. Range(r) \subseteq Range(q) \ {Head(q)}
  BY <1>1, <1>2, <1>3, SMTT(30) DEF Range, IsInjective
<1>7. Range(q) \ {Head(q)} \subseteq Range(r)
  <2> SUFFICES ASSUME NEW i \in 1 .. Len(q), q[i] # Head(q)
               PROVE  q[i] \in Range(r)
    BY <1>3, ZenonT(30) DEF Range
  <2>1. i - 1 \in 1 .. Len(q) - 1 /\ r[i - 1] = q[i]
    BY <1>2, <1>3
  <2> QED
    BY <2>1, <1>1, ZenonT(30) DEF Range
<1> QED
  BY <1>1, <1>4, <1>5, <1>6, <1>7, ZenonT(30) DEF r

\* Only the empty queue holds nobody.
LEMMA EmptyLemma ==
  ASSUME NEW S, NEW q \in Seq(S)
  PROVE  q = <<>> <=> Range(q) = {}
<1>1. CASE q = <<>>
  BY <1>1 DEF Range
<1>2. CASE q # <<>>
  <2>1. 1 \in DOMAIN q
    BY <1>2
  <2> QED
    BY <1>2, <2>1, ZenonT(30) DEF Range
<1> QED
  BY <1>1, <1>2, ZenonT(30)

\* Head, tail and lengths of a stack of frames.
LEMMA TailLemma ==
  ASSUME NEW S, NEW q \in Seq(S), q # <<>>
  PROVE  /\ Head(q) = q[1] /\ Head(q) \in S /\ Tail(q) \in Seq(S) /\ Len(q) \in Nat
         /\ Len(q) >= 1 /\ Len(Tail(q)) = Len(q) - 1
         /\ \A i \in 1 .. Len(Tail(q)) : Tail(q)[i] = q[i + 1]
         /\ Tail(q) = <<>> <=> Len(q) = 1
<1>1. Len(q) \in Nat /\ Len(q) >= 1 /\ Head(q) = q[1]
  OBVIOUS
<1>2. /\ Head(q) \in S /\ Tail(q) \in Seq(S) /\ Len(Tail(q)) = Len(q) - 1
      /\ \A i \in 1 .. Len(Tail(q)) : Tail(q)[i] = q[i + 1]
  OBVIOUS
<1>3. Tail(q) = <<>> <=> Len(Tail(q)) = 0
  BY <1>2, SMTT(30)
<1> QED
  BY <1>1, <1>2, <1>3

\* A frame pushed on a stack of frames.
LEMMA FrameLemma ==
  ASSUME NEW S, NEW q \in Seq(S), NEW f \in S
  PROVE  /\ <<f>> \o q \in Seq(S) /\ <<f>> \o q # <<>> /\ Len(q) \in Nat
         /\ Len(<<f>> \o q) = Len(q) + 1
         /\ (<<f>> \o q)[1] = f
         /\ \A i \in 2 .. Len(q) + 1 : (<<f>> \o q)[i] = q[i - 1]
<1>1. <<f>> \in Seq(S) /\ Len(<<f>>) = 1 /\ <<f>>[1] = f /\ Len(q) \in Nat
  OBVIOUS
<1>2. <<f>> \o q \in Seq(S) /\ Len(<<f>> \o q) = Len(q) + 1
  BY <1>1
<1>3. (<<f>> \o q)[1] = f /\ \A i \in 2 .. Len(q) + 1 : (<<f>> \o q)[i] = q[i - 1]
  BY <1>1
<1>4. <<f>> \o q # <<>>
  BY <1>1, <1>2
<1> QED
  BY <1>1, <1>2, <1>3, <1>4, ZenonT(30)

-----------------------------------------------------------------------------
(* The steps.                                                              *)

\* The two label sets that are computed from SwapTo, spelled out.
LEMMA SwapLemma ==
  /\ DOMAIN SwapTo = {"yield_swap", "lock_swap", "sem_swap", "ticket_swap", "cond_swap",
                      "join_swap", "exit_swap"}
  /\ Resumable = {"user", "create_ret", "spin_tas", "spin_yield", "swapcontext",
                  "leave", "lock_xchg", "sem_check", "ticket_check", "cond_relock",
                  "join_refind", "dead"}
  /\ \A l \in DOMAIN SwapTo : SwapTo[l] \in Resumable \ Preemptible
  /\ SwapTo["yield_swap"] = "leave"
  /\ SwapTo["lock_swap"] = "lock_xchg"
  /\ SwapTo["sem_swap"] = "sem_check"
  /\ SwapTo["ticket_swap"] = "ticket_check"
  /\ SwapTo["cond_swap"] = "cond_relock"
  /\ SwapTo["join_swap"] = "join_refind"
  /\ SwapTo["exit_swap"] = "dead"
BY DEF SwapTo, Resumable, Preemptible, Unmasked

\* The initial state.
LEMMA SchedInitInv == SchedInit => SchedInv
<1> SUFFICES ASSUME SchedInit PROVE SchedInv
  OBVIOUS
<1> USE SchedulerAssumption DEF SchedInit, Tids, NULL
<1>1. rq \in Seq(Tids) /\ DOMAIN rq = Tids /\ \A i \in Tids : rq[i] = i
  OBVIOUS
<1>2. SchedTypeOK
  <2>1. /\ waiters \in [Objs -> Seq(Tids)]
        /\ frames \in [Tids -> Seq([old : BOOLEAN, ret : ReturnLabels])]
    OBVIOUS
  <2>2. NewContext \in [pc : Resumable, mask : BOOLEAN]
    BY SwapLemma, ZenonT(30) DEF NewContext
  <2>3. ctx \in [Tids -> [pc : Resumable, mask : BOOLEAN]]
    BY <2>2, ZenonT(30)
  <2>4. masked \in BOOLEAN
    OBVIOUS
  <2>5. /\ uth_current \in Tids \cup {NULL}
        /\ state \in [Tids -> TCBStates]
        /\ obj \in [Tids -> Objs \cup {"none"}]
        /\ pc \in Labels
    BY ZenonT(30) DEF TCBStates, Labels, SchedLabels
  <2> QED
    BY <1>1, <2>1, <2>3, <2>4, <2>5, ZenonT(30) DEF SchedTypeOK
<1>3. QueueDiscipline
  BY <1>1 DEF QueueDiscipline, IsInjective, Range
<1>4. MaskDiscipline
  BY ZenonT(30) DEF MaskDiscipline, OnCpu, SchedLabels, NewContext, Preemptible, Unmasked
<1>5. CpuInv
  BY ZenonT(30) DEF CpuInv, OnCpu, SchedLabels, NewContext, Resumable, Preemptible, Unmasked
<1>6. FrameInv
  BY DEF FrameInv, Place, OnCpu, SchedLabels, NewContext, Preemptible, Unmasked
<1> QED
  BY <1>2, <1>3, <1>4, <1>5, <1>6, ZenonT(30) DEF SchedInv

\* Code of a thread that is not about to give the processor away: where the
\* threads are before and after a step of it.
LEMMA ThreadCode ==
  ASSUME SchedInv, pc \in Unmasked \cup Sections
  PROVE  /\ OnCpu /\ pc \notin DOMAIN SwapTo /\ pc \notin SchedLabels
         /\ uth_current \in Tids /\ state[uth_current] = "RUNNING"
         /\ Place(uth_current) = pc
         /\ pc' \notin SchedLabels /\ UNCHANGED <<uth_current, ctx>> =>
              \A t \in Tids : Place(t)' = IF t = uth_current THEN pc' ELSE Place(t)
<1>1. OnCpu /\ pc \notin DOMAIN SwapTo /\ pc \notin SchedLabels
  BY SwapLemma, ZenonT(30) DEF OnCpu, SchedLabels, Unmasked, Sections
<1>2. uth_current \in Tids /\ state[uth_current] = "RUNNING"
  BY <1>1, ZenonT(30) DEF SchedInv, CpuInv, OnCpu, SchedLabels
<1> QED
  BY <1>1, <1>2, ZenonT(30) DEF Place, OnCpu

\* A thread enters the API: SIGALRM is masked, and a frame remembers whether
\* it was.  A call from code of the thread returns there; a call from inside
\* another call (uth_cond_wait) returns into that one.
LEMMA EnterStep ==
  ASSUME SchedInv,
         NEW from \in Unmasked \cup Sections,
         NEW o \in Objs \cup {"none"},
         NEW ret \in ReturnLabels, ret \in Unmasked <=> from \in Unmasked,
         NEW l \in Sections,
         Enter(from, o, ret, l)
  PROVE  SchedInv'
<1> USE SchedulerAssumption DEF SchedInv
<1> DEFINE c == uth_current
           q == frames[c]
           f == [old |-> masked, ret |-> ret]
           r == <<f>> \o q
           F == [old : BOOLEAN, ret : ReturnLabels]
<1>1. /\ pc = from /\ pc' = l /\ masked' = TRUE
      /\ frames' = [frames EXCEPT ![c] = r] /\ obj' = [obj EXCEPT ![c] = o]
      /\ UNCHANGED <<uth_current, rq, state, ctx, waiters>>
  BY ZenonT(30) DEF Enter, uth_preempt_off
<1>2. /\ OnCpu /\ pc \notin DOMAIN SwapTo /\ pc \notin SchedLabels
      /\ c \in Tids /\ state[c] = "RUNNING" /\ Place(c) = pc
  BY <1>1, ThreadCode, ZenonT(30)
<1>3. OnCpu' /\ l \notin DOMAIN SwapTo \cup Preemptible \cup Unmasked \cup SchedLabels
  BY <1>1, SwapLemma, ZenonT(30) DEF OnCpu, SchedLabels, Unmasked, Sections, Preemptible
<1>4. masked \in BOOLEAN /\ (masked <=> from \notin Unmasked)
  BY <1>1, <1>2, ZenonT(30) DEF MaskDiscipline, SchedTypeOK
<1>5. q \in Seq(F) /\ f \in F /\ f.ret = ret /\ f.old = masked
  BY <1>2, <1>4, ZenonT(30) DEF SchedTypeOK
<1>6. q = <<>> <=> from \in Unmasked
  BY <1>1, <1>2 DEF FrameInv, Preemptible, SchedLabels
<1>7. /\ r \in Seq(F) /\ r # <<>> /\ Len(q) \in Nat /\ Len(r) = Len(q) + 1 /\ r[1] = f
      /\ \A i \in 2 .. Len(q) + 1 : r[i] = q[i - 1]
  <2> HIDE DEF q, f, F
  <2> QED
    BY <1>5, FrameLemma
<1>8. Len(q) = 0 <=> from \in Unmasked
  BY <1>5, <1>6
<1>9. \A i \in 1 .. Len(q) : /\ q[i].ret \in Unmasked <=> i = Len(q)
                             /\ q[i].old <=> i # Len(q)
  BY <1>2, ZenonT(30) DEF FrameInv
<1>10. ASSUME NEW i \in 1 .. Len(r)
       PROVE  /\ r[i].ret \in Unmasked <=> i = Len(r)
              /\ r[i].old <=> i # Len(r)
  <2>1. CASE i = 1
    <3>1. r[i] = f /\ (i = Len(r) <=> from \in Unmasked)
      <4> HIDE DEF q, f, r
      <4> QED BY <2>1, <1>7, <1>8
    <3> QED
      BY <3>1, <1>4, <1>5, ZenonT(30)
  <2>2. CASE i # 1
    <3>1. i - 1 \in 1 .. Len(q) /\ r[i] = q[i - 1] /\ (i = Len(r) <=> i - 1 = Len(q))
      <4> HIDE DEF q, f, r
      <4> QED BY <2>2, <1>7
    <3> QED
      BY <3>1, <1>9, ZenonT(30)
  <2> QED
    BY <2>1, <2>2, ZenonT(30)
<1> HIDE DEF q, f, r
<1>11. SchedTypeOK'
  <2>1. frames' \in [Tids -> Seq(F)]
    <3> HIDE DEF F
    <3> QED
      BY <1>1, <1>2, <1>7, frames \in [Tids -> Seq(F)], ZenonT(30) DEF SchedTypeOK, F
  <2>2. masked' \in BOOLEAN /\ pc' \in Labels /\ obj' \in [Tids -> Objs \cup {"none"}]
    BY <1>1, ZenonT(30) DEF Labels, SchedTypeOK
  <2> QED
    BY <1>1, <2>1, <2>2, ZenonT(30) DEF SchedTypeOK
<1>12. QueueDiscipline'
  BY <1>1, <1>2 DEF QueueDiscipline, SchedTypeOK
<1>13. MaskDiscipline'
  BY <1>1, <1>3, ZenonT(30) DEF MaskDiscipline, SchedLabels
<1>14. CpuInv'
  BY <1>1, <1>2, <1>3, ZenonT(30) DEF CpuInv, SchedLabels
<1>15. FrameInv'
  <2> SUFFICES ASSUME NEW t \in Tids
               PROVE  /\ frames'[t] = <<>> <=> Place(t)' \in Preemptible
                      /\ \A i \in 1 .. Len(frames'[t]) :
                           /\ frames'[t][i].ret \in Unmasked <=> i = Len(frames'[t])
                           /\ frames'[t][i].old <=> i # Len(frames'[t])
    BY ZenonT(30) DEF FrameInv
  <2>1. CASE t = c
    <3>1. frames'[t] = r /\ Place(t)' = l
      BY <2>1, <1>1, <1>2, <1>3, ZenonT(30) DEF SchedTypeOK, Place
    <3> QED
      BY <3>1, <1>3, <1>7, <1>10, ZenonT(30)
  <2>2. CASE t # c
    <3>1. frames'[t] = frames[t] /\ Place(t)' = Place(t)
      BY <2>2, <1>1, ZenonT(30) DEF SchedTypeOK, Place
    <3> QED
      BY <3>1 DEF FrameInv
  <2> QED
    BY <2>1, <2>2, ZenonT(30)
<1> QED
  BY <1>11, <1>12, <1>13, <1>14, <1>15, ZenonT(30)

\* A step inside a section of the API that moves on to another section and
\* leaves the scheduler's data alone.
LEMMA SectionStep ==
  ASSUME SchedInv,
         pc \in Sections,
         NEW l \in Sections,
         Goto(l)
  PROVE  SchedInv'
<1> USE SchedulerAssumption DEF SchedInv, Goto
<1>1. /\ OnCpu /\ OnCpu'
      /\ {pc, pc'} \cap (DOMAIN SwapTo \cup Preemptible \cup SchedLabels \cup Unmasked) = {}
  BY SwapLemma DEF OnCpu, SchedLabels, Unmasked, Sections, Preemptible
<1>2. SchedTypeOK'
  BY ZenonT(30) DEF SchedTypeOK, Labels
<1>3. QueueDiscipline'
  BY ZenonT(30) DEF QueueDiscipline
<1>4. MaskDiscipline'
  BY <1>1, ZenonT(30) DEF MaskDiscipline, OnCpu, SchedLabels
<1>5. CpuInv'
  BY <1>1, ZenonT(30) DEF CpuInv, OnCpu, SchedLabels
<1>6. FrameInv'
  BY <1>1, ZenonT(30) DEF FrameInv, Place
<1> QED
  BY <1>2, <1>3, <1>4, <1>5, <1>6, ZenonT(30)

\* A step of a thread outside the sections that leaves the scheduler's data
\* alone.
LEMMA CodeStep ==
  ASSUME SchedInv,
         pc \in Unmasked,
         NEW l \in Unmasked,
         Goto(l)
  PROVE  SchedInv'
<1> USE SchedulerAssumption DEF SchedInv, Goto
<1>1. /\ OnCpu /\ OnCpu' /\ {pc, pc'} \subseteq Preemptible
      /\ {pc, pc'} \cap (DOMAIN SwapTo \cup SchedLabels) = {}
  BY SwapLemma, ZenonT(30) DEF OnCpu, SchedLabels, Unmasked, Preemptible
<1>2. SchedTypeOK'
  BY ZenonT(30) DEF SchedTypeOK, Labels
<1>3. QueueDiscipline'
  BY ZenonT(30) DEF QueueDiscipline
<1>4. MaskDiscipline'
  BY <1>1, ZenonT(30) DEF MaskDiscipline, OnCpu, SchedLabels
<1>5. CpuInv'
  BY <1>1, ZenonT(30) DEF CpuInv, OnCpu, SchedLabels
<1>6. FrameInv'
  BY <1>1, ZenonT(30) DEF FrameInv, Place
<1> QED
  BY <1>2, <1>3, <1>4, <1>5, <1>6, ZenonT(30)

\* uth_preempt_restore: the outermost call hands the mask back to the thread,
\* an inner one leaves it blocked.
LEMMA RestoreStep ==
  ASSUME SchedInv, uth_preempt_restore
  PROVE  SchedInv'
<1> USE SchedulerAssumption DEF SchedInv
<1> DEFINE c == uth_current
           q == frames[c]
           F == [old : BOOLEAN, ret : ReturnLabels]
<1>1. pc = "leave" /\ OnCpu /\ pc \notin DOMAIN SwapTo /\ pc \notin Preemptible
  BY SwapLemma, ZenonT(30) DEF uth_preempt_restore, Return, OnCpu, SchedLabels, Preemptible,
     Unmasked
<1>2. c \in Tids /\ state[c] = "RUNNING"
  BY <1>1, ZenonT(30) DEF CpuInv, OnCpu, SchedLabels
<1>3. q \in Seq(F) /\ q # <<>>
  BY <1>1, <1>2, ZenonT(30) DEF FrameInv, Place, SchedTypeOK
<1>4. /\ Head(q) = q[1] /\ Head(q) \in F /\ Tail(q) \in Seq(F) /\ Len(q) \in Nat
      /\ Len(q) >= 1 /\ Len(Tail(q)) = Len(q) - 1
      /\ \A i \in 1 .. Len(Tail(q)) : Tail(q)[i] = q[i + 1]
      /\ Tail(q) = <<>> <=> Len(q) = 1
  BY <1>3, TailLemma, ZenonT(30)
<1>5. \A i \in 1 .. Len(q) : /\ q[i].ret \in Unmasked <=> i = Len(q)
                             /\ q[i].old <=> i # Len(q)
  BY <1>2, ZenonT(30) DEF FrameInv
<1>6. /\ masked' = Head(q).old /\ pc' = Head(q).ret
      /\ frames' = [frames EXCEPT ![c] = Tail(q)]
      /\ obj' = [obj EXCEPT ![c] = "none"]
      /\ UNCHANGED <<uth_current, rq, state, ctx, waiters>>
  BY ZenonT(30) DEF uth_preempt_restore, Return
<1>7. pc' \in ReturnLabels /\ masked' \in BOOLEAN
  BY <1>4, <1>6, ZenonT(30)
<1>8. masked' <=> pc' \notin Unmasked
  <2>1. /\ Head(q).ret \in Unmasked <=> 1 = Len(q)
        /\ Head(q).old <=> 1 # Len(q)
    BY <1>4, <1>5
  <2> QED
    BY <1>6, <2>1, ZenonT(30)
<1>9. OnCpu' /\ pc' \notin DOMAIN SwapTo /\ pc' \notin SchedLabels /\ pc' \in Labels
  BY <1>7, SwapLemma, ZenonT(30) DEF OnCpu, SchedLabels, ReturnLabels, Labels, Unmasked, Sections
<1>10. SchedTypeOK'
  <2>1. frames' \in [Tids -> Seq(F)]
    <3> HIDE DEF F, q
    <3> QED
      BY <1>2, <1>4, <1>6, frames \in [Tids -> Seq(F)], ZenonT(30) DEF SchedTypeOK, F
  <2> QED
    BY <2>1, <1>6, <1>7, <1>9, ZenonT(30) DEF SchedTypeOK
<1>11. QueueDiscipline'
  BY <1>2, <1>6 DEF QueueDiscipline, SchedTypeOK
<1>12. MaskDiscipline'
  BY <1>6, <1>8, <1>9, ZenonT(30) DEF MaskDiscipline, OnCpu, SchedLabels
<1>13. CpuInv'
  BY <1>1, <1>2, <1>6, <1>9, ZenonT(30) DEF CpuInv, OnCpu, SchedLabels
<1>14. FrameInv'
  <2> SUFFICES ASSUME NEW t \in Tids
               PROVE  /\ frames'[t] = <<>> <=> Place(t)' \in Preemptible
                      /\ \A i \in 1 .. Len(frames'[t]) :
                           /\ frames'[t][i].ret \in Unmasked <=> i = Len(frames'[t])
                           /\ frames'[t][i].old <=> i # Len(frames'[t])
    BY ZenonT(30) DEF FrameInv
  <2>1. CASE t = c
    <3>1. frames'[t] = Tail(q) /\ Place(t)' = pc'
      BY <2>1, <1>2, <1>6, <1>9, ZenonT(30) DEF SchedTypeOK, Place
    <3>2. Tail(q) = <<>> <=> pc' \in Preemptible
      <4>1. pc' \in Preemptible <=> pc' \in Unmasked
        BY <1>9, ZenonT(30) DEF Preemptible, SchedLabels
      <4> QED
        BY <4>1, <1>4, <1>5, <1>6, SMTT(30)
    <3>3. ASSUME NEW i \in 1 .. Len(Tail(q))
          PROVE  /\ Tail(q)[i].ret \in Unmasked <=> i = Len(Tail(q))
                 /\ Tail(q)[i].old <=> i # Len(Tail(q))
      <4>1. i + 1 \in 1 .. Len(q) /\ Tail(q)[i] = q[i + 1] /\ (i + 1 = Len(q) <=> i = Len(Tail(q)))
        <5> HIDE DEF q
        <5> QED BY <1>4
      <4> QED
        BY <4>1, <1>5, ZenonT(30)
    <3> QED
      BY <3>1, <3>2, <3>3, ZenonT(30)
  <2>2. CASE t # c
    <3>1. frames'[t] = frames[t] /\ Place(t)' = Place(t)
      BY <2>2, <1>1, <1>6, <1>9, ZenonT(30) DEF SchedTypeOK, Place
    <3> QED
      BY <3>1 DEF FrameInv
  <2> QED
    BY <2>1, <2>2, ZenonT(30)
<1> QED
  BY <1>10, <1>11, <1>12, <1>13, <1>14, ZenonT(30)

\* scheduler_loop takes the head of the run queue: a READY thread, as its
\* assert demands.
LEMMA DispatchStep ==
  ASSUME SchedInv, Dispatch
  PROVE  SchedInv'
<1> USE SchedulerAssumption DEF SchedInv
<1> DEFINE h == Head(rq)
<1>1. /\ pc = "loop" /\ pc' = "swapcontext" /\ rq # <<>> /\ rq' = Tail(rq)
      /\ uth_current' = h /\ masked' = ctx[h].mask
      /\ state' = [state EXCEPT ![h] = "RUNNING"]
      /\ UNCHANGED <<ctx, waiters, obj, frames>>
  BY ZenonT(30) DEF Dispatch
<1>2. ~OnCpu /\ ~OnCpu'
  BY <1>1, ZenonT(30) DEF OnCpu, SchedLabels
<1>3. /\ h \in Tids /\ h \in Range(rq) /\ Tail(rq) \in Seq(Tids) /\ IsInjective(Tail(rq))
      /\ Range(Tail(rq)) = Range(rq) \ {h}
  BY <1>1, PopLemma, ZenonT(30) DEF SchedTypeOK, QueueDiscipline
<1>4. state[h] = "READY"
  BY <1>3, ZenonT(30) DEF QueueDiscipline
<1> HIDE DEF h
<1>5. SchedTypeOK'
  <2>1. masked' \in BOOLEAN
    BY <1>1, <1>3, ZenonT(30) DEF SchedTypeOK
  <2>2. state' \in [Tids -> TCBStates] /\ pc' \in Labels
    BY <1>1, <1>3, ZenonT(30) DEF SchedTypeOK, TCBStates, Labels, SchedLabels
  <2> QED
    BY <1>1, <1>3, <2>1, <2>2, ZenonT(30) DEF SchedTypeOK
<1>6. QueueDiscipline'
  BY <1>1, <1>3, <1>4 DEF QueueDiscipline, SchedTypeOK
<1>7. MaskDiscipline'
  BY <1>1, <1>2, ZenonT(30) DEF MaskDiscipline
<1>8. CpuInv'
  BY <1>1, <1>2, <1>3, ZenonT(30) DEF CpuInv, SchedTypeOK
<1>9. FrameInv'
  BY <1>1, <1>2, ZenonT(30) DEF FrameInv, Place
<1> QED
  BY <1>5, <1>6, <1>7, <1>8, <1>9, ZenonT(30)

\* The second half of swapcontext: the thread goes on where it was saved.
LEMMA LoadStep ==
  ASSUME SchedInv, LoadRegisters
  PROVE  SchedInv'
<1> USE SchedulerAssumption DEF SchedInv
<1> DEFINE c == uth_current
<1>1. /\ pc = "swapcontext" /\ pc' = ctx[c].pc /\ ~OnCpu
      /\ UNCHANGED <<uth_current, rq, state, ctx, waiters, obj, frames, masked>>
  BY ZenonT(30) DEF LoadRegisters, Goto, OnCpu, SchedLabels
<1>2. c \in Tids /\ state[c] = "RUNNING" /\ masked = ctx[c].mask
  BY <1>1, ZenonT(30) DEF CpuInv
<1>3. pc' \in Resumable
  BY <1>1, <1>2, ZenonT(30) DEF SchedTypeOK
<1>4. /\ pc' \notin DOMAIN SwapTo /\ pc' \notin {"main", "loop"}
      /\ OnCpu' <=> pc' # "swapcontext"
  BY <1>3, SwapLemma, ZenonT(30) DEF OnCpu, SchedLabels
<1>5. SchedTypeOK'
  BY <1>1, <1>3, SwapLemma, ZenonT(30) DEF SchedTypeOK, Labels, SchedLabels, Unmasked, Sections
<1>6. QueueDiscipline'
  BY <1>1, ZenonT(30) DEF QueueDiscipline
<1>7. MaskDiscipline'
  <2>1. OnCpu' => (masked' <=> pc' \notin Unmasked)
    BY <1>1, <1>2, <1>4, ZenonT(30) DEF MaskDiscipline, Preemptible
  <2> QED
    BY <1>1, <1>4, <2>1, ZenonT(30) DEF MaskDiscipline
<1>8. CpuInv'
  BY <1>1, <1>2, <1>4, ZenonT(30) DEF CpuInv
<1>9. FrameInv'
  BY <1>1, <1>4, ZenonT(30) DEF FrameInv, Place
<1> QED
  BY <1>5, <1>6, <1>7, <1>8, <1>9, ZenonT(30)

\* scheduler_loop finds the run queue empty.
LEMMA SpinStep ==
  ASSUME SchedInv, Spin
  PROVE  SchedInv'
<1> USE SchedulerAssumption DEF SchedInv
<1>1. /\ pc = "loop" /\ uth_current' = NULL /\ ~OnCpu /\ ~OnCpu'
      /\ UNCHANGED <<rq, state, ctx, waiters, obj, frames, pc, masked>>
  BY ZenonT(30) DEF Spin, OnCpu, SchedLabels
<1>2. SchedTypeOK'
  BY <1>1, ZenonT(30) DEF SchedTypeOK
<1>3. QueueDiscipline'
  BY <1>1, ZenonT(30) DEF QueueDiscipline
<1>4. MaskDiscipline'
  BY <1>1, ZenonT(30) DEF MaskDiscipline
<1>5. CpuInv'
  BY <1>1, ZenonT(30) DEF CpuInv
<1>6. FrameInv'
  BY <1>1, ZenonT(30) DEF FrameInv, Place
<1> QED
  BY <1>2, <1>3, <1>4, <1>5, <1>6, ZenonT(30)

\* A thread that is no longer RUNNING gives the processor away; its context
\* keeps the mask of the section it will resume in.
LEMMA SwapOutStep ==
  ASSUME SchedInv, SwapOut
  PROVE  SchedInv'
<1> USE SchedulerAssumption DEF SchedInv
<1> DEFINE c == uth_current
           r == [pc |-> SwapTo[pc], mask |-> masked]
<1>1. /\ pc \in DOMAIN SwapTo /\ pc' = "loop" /\ masked' = TRUE
      /\ ctx' = [ctx EXCEPT ![c] = r]
      /\ UNCHANGED <<uth_current, rq, state, waiters, obj, frames>>
  BY ZenonT(30) DEF SwapOut, SchedMask
<1>2. OnCpu /\ ~OnCpu' /\ pc \notin {"main", "loop"} /\ pc \notin Preemptible
  BY <1>1, SwapLemma, ZenonT(30) DEF OnCpu, SchedLabels, Preemptible, Unmasked
<1>3. c \in Tids /\ state[c] # "RUNNING"
  BY <1>1, <1>2, ZenonT(30) DEF CpuInv
<1>4. /\ r \in [pc : Resumable, mask : BOOLEAN] /\ r.pc = SwapTo[pc]
      /\ r.pc \notin Preemptible /\ r.mask = TRUE
  <2>1. masked = TRUE
    BY <1>2, ZenonT(30) DEF MaskDiscipline, Preemptible, SchedTypeOK
  <2> QED
    BY <1>1, <2>1, SwapLemma, ZenonT(30)
<1> HIDE DEF r
<1>5. \A t \in Tids : ctx'[t] = IF t = c THEN r ELSE ctx[t]
  BY <1>1, <1>3, ZenonT(30) DEF SchedTypeOK
<1>6. SchedTypeOK'
  <2>1. masked' \in BOOLEAN /\ pc' \in Labels
    BY <1>1, ZenonT(30) DEF Labels, SchedLabels
  <2> QED
    BY <1>1, <1>3, <1>4, <2>1, ZenonT(30) DEF SchedTypeOK
<1>7. QueueDiscipline'
  BY <1>1, ZenonT(30) DEF QueueDiscipline
<1>8. MaskDiscipline'
  BY <1>1, <1>2, <1>4, <1>5, ZenonT(30) DEF MaskDiscipline
<1>9. CpuInv'
  BY <1>1, <1>2, <1>3, ZenonT(30) DEF CpuInv
<1>10. FrameInv'
  <2> SUFFICES ASSUME NEW t \in Tids
               PROVE  Place(t)' \in Preemptible <=> Place(t) \in Preemptible
    BY <1>1, ZenonT(30) DEF FrameInv
  <2> QED
    BY <1>1, <1>2, <1>4, <1>5, ZenonT(30) DEF Place
<1> QED
  BY <1>6, <1>7, <1>8, <1>9, <1>10, ZenonT(30)

\* The SIGALRM handler: it only finds a current thread that is RUNNING, in
\* its own code or on its way there, so the thread is not queued twice.
LEMMA PreemptStep ==
  ASSUME SchedInv, uth_preempt_handler
  PROVE  SchedInv'
<1> USE SchedulerAssumption DEF SchedInv
<1> DEFINE c == uth_current
           r == [pc |-> pc, mask |-> masked]
<1>1. /\ ~masked /\ c # NULL /\ pc' = "loop" /\ masked' = TRUE /\ uth_current' = NULL
      /\ ctx' = [ctx EXCEPT ![c] = r]
      /\ state' = [state EXCEPT ![c] = "READY"] /\ rq' = Append(rq, c)
      /\ UNCHANGED <<waiters, obj, frames>>
  BY ZenonT(30) DEF uth_preempt_handler, SchedMask, uth_enqueue, queue_push
<1>2. /\ pc \in Preemptible /\ pc \notin {"main", "loop"} /\ pc \notin DOMAIN SwapTo
      /\ OnCpu <=> pc # "swapcontext"
      /\ ~OnCpu'
  BY <1>1, SwapLemma, ZenonT(30) DEF MaskDiscipline, CpuInv, OnCpu, SchedLabels, Preemptible,
     Unmasked
<1>3. c \in Tids /\ state[c] = "RUNNING"
  BY <1>2, ZenonT(30) DEF CpuInv
<1>4. /\ r \in [pc : Resumable, mask : BOOLEAN] /\ r.pc = pc /\ r.mask = FALSE
  <2>1. masked = FALSE
    BY <1>1, ZenonT(30) DEF SchedTypeOK
  <2> QED
    BY <1>2, <2>1, ZenonT(30) DEF Resumable
<1> HIDE DEF r
<1>5. \A t \in Tids : ctx'[t] = IF t = c THEN r ELSE ctx[t]
  BY <1>1, <1>3, ZenonT(30) DEF SchedTypeOK
<1>6. c \notin Range(rq)
  BY <1>3, ZenonT(30) DEF QueueDiscipline
<1>7. rq' \in Seq(Tids) /\ IsInjective(rq') /\ Range(rq') = Range(rq) \cup {c}
  BY <1>1, <1>3, <1>6, PushLemma DEF SchedTypeOK, QueueDiscipline
<1>8. SchedTypeOK'
  <2>1. masked' \in BOOLEAN /\ pc' \in Labels
    BY <1>1, ZenonT(30) DEF Labels, SchedLabels
  <2>2. state' \in [Tids -> TCBStates]
    BY <1>1, ZenonT(30) DEF SchedTypeOK, TCBStates
  <2> QED
    BY <1>1, <1>3, <1>4, <1>7, <2>1, <2>2, ZenonT(30) DEF SchedTypeOK
<1>9. QueueDiscipline'
  BY <1>1, <1>3, <1>7 DEF QueueDiscipline, SchedTypeOK
<1>10. MaskDiscipline'
  BY <1>1, <1>2, <1>4, <1>5, ZenonT(30) DEF MaskDiscipline
<1>11. CpuInv'
  BY <1>1, <1>2, <1>3, ZenonT(30) DEF CpuInv, SchedTypeOK
<1>12. FrameInv'
  <2> SUFFICES ASSUME NEW t \in Tids
               PROVE  Place(t)' \in Preemptible <=> Place(t) \in Preemptible
    BY <1>1, ZenonT(30) DEF FrameInv
  <2>1. pc = "swapcontext" => ctx[c].pc \in Preemptible
    BY <1>1, <1>3, ZenonT(30) DEF CpuInv, MaskDiscipline
  <2> QED
    BY <1>1, <1>2, <1>4, <1>5, <2>1, ZenonT(30) DEF Place
<1> QED
  BY <1>8, <1>9, <1>10, <1>11, <1>12, ZenonT(30)

\* The step of uth_yield that puts the caller at the tail of the run queue.
LEMMA YieldPushStep ==
  ASSUME SchedInv, uth_yield_push
  PROVE  SchedInv'
<1> USE SchedulerAssumption DEF SchedInv
<1> DEFINE c == uth_current
<1>1. /\ pc = "yield_push" /\ pc' = "yield_swap"
      /\ state' = [state EXCEPT ![c] = "READY"] /\ rq' = Append(rq, c)
      /\ UNCHANGED <<uth_current, ctx, waiters, obj, frames, masked>>
  BY ZenonT(30) DEF uth_yield_push, uth_enqueue, queue_push
<1>2. /\ OnCpu /\ OnCpu' /\ pc \notin DOMAIN SwapTo /\ pc' \in DOMAIN SwapTo
      /\ {pc, pc'} \cap (Preemptible \cup SchedLabels \cup Unmasked) = {}
  BY <1>1, SwapLemma, ZenonT(30) DEF OnCpu, SchedLabels, Unmasked, Preemptible
<1>3. c \in Tids /\ state[c] = "RUNNING"
  BY <1>2, ZenonT(30) DEF CpuInv, SchedLabels
<1>4. c \notin Range(rq)
  BY <1>3, ZenonT(30) DEF QueueDiscipline
<1>5. rq' \in Seq(Tids) /\ IsInjective(rq') /\ Range(rq') = Range(rq) \cup {c}
  BY <1>1, <1>3, <1>4, PushLemma, SMTT(30) DEF SchedTypeOK, QueueDiscipline
<1>6. SchedTypeOK'
  <2>1. state' \in [Tids -> TCBStates]
    BY <1>1, ZenonT(30) DEF SchedTypeOK, TCBStates
  <2> QED
    BY <1>1, <1>2, <1>5, <2>1, ZenonT(30) DEF SchedTypeOK, Labels
<1>7. QueueDiscipline'
  BY <1>1, <1>3, <1>5, SMTT(30) DEF QueueDiscipline, SchedTypeOK
<1>8. MaskDiscipline'
  BY <1>1, <1>2, ZenonT(30) DEF MaskDiscipline
<1>9. CpuInv'
  BY <1>1, <1>2, <1>3, ZenonT(30) DEF CpuInv, SchedTypeOK, SchedLabels
<1>10. FrameInv'
  BY <1>1, <1>2, ZenonT(30) DEF FrameInv, Place
<1> QED
  BY <1>6, <1>7, <1>8, <1>9, <1>10, ZenonT(30)

\* uth_block puts the caller at the tail of the wait queue of its object.
LEMMA BlockStep ==
  ASSUME SchedInv,
         NEW o \in Objs,
         NEW l \in DOMAIN SwapTo,
         pc \in Sections,
         uth_block(o, l)
  PROVE  SchedInv'
<1> USE SchedulerAssumption DEF SchedInv
<1> DEFINE c == uth_current
           q == Append(waiters[o], c)
<1>1. /\ pc' = l /\ state' = [state EXCEPT ![c] = "BLOCKED"]
      /\ waiters' = [waiters EXCEPT ![o] = q] /\ obj' = [obj EXCEPT ![c] = o]
      /\ UNCHANGED <<uth_current, rq, ctx, frames, masked>>
  BY ZenonT(30) DEF uth_block
<1>2. /\ OnCpu /\ OnCpu' /\ pc \notin DOMAIN SwapTo /\ pc' \in DOMAIN SwapTo
      /\ {pc, pc'} \cap (Preemptible \cup SchedLabels \cup Unmasked) = {}
  BY <1>1, SwapLemma DEF OnCpu, SchedLabels, Unmasked, Preemptible, Sections
<1>3. c \in Tids /\ state[c] = "RUNNING"
  BY <1>2, ZenonT(30) DEF CpuInv, SchedLabels
<1>4. c \notin Range(waiters[o])
  BY <1>3, ZenonT(30) DEF QueueDiscipline
<1>5. q \in Seq(Tids) /\ IsInjective(q) /\ Range(q) = Range(waiters[o]) \cup {c}
  BY <1>3, <1>4, PushLemma, SMTT(30) DEF SchedTypeOK, QueueDiscipline
<1> HIDE DEF q
<1>6. SchedTypeOK'
  <2>1. state' \in [Tids -> TCBStates]
    BY <1>1, ZenonT(30) DEF SchedTypeOK, TCBStates
  <2> QED
    BY <1>1, <1>2, <1>5, <2>1, ZenonT(30) DEF SchedTypeOK, Labels
<1>7. QueueDiscipline'
  BY <1>1, <1>3, <1>5 DEF QueueDiscipline, SchedTypeOK
<1>8. MaskDiscipline'
  BY <1>1, <1>2, ZenonT(30) DEF MaskDiscipline
<1>9. CpuInv'
  BY <1>1, <1>2, <1>3, ZenonT(30) DEF CpuInv, SchedTypeOK, SchedLabels
<1>10. FrameInv'
  BY <1>1, <1>2, ZenonT(30) DEF FrameInv, Place
<1> QED
  BY <1>6, <1>7, <1>8, <1>9, <1>10, ZenonT(30)

\* uth_wake_one moves the head of a wait queue to the tail of the run queue.
LEMMA WakeStep ==
  ASSUME SchedInv,
         NEW o \in Objs,
         pc \in Sections,
         NEW l \in Sections,
         uth_wake_one(o, l)
  PROVE  SchedInv'
<1>1. CASE waiters[o] = <<>>
  BY <1>1, SectionStep, ZenonT(30) DEF uth_wake_one
<1>2. CASE waiters[o] # <<>>
  <2> USE SchedulerAssumption DEF SchedInv
  <2> DEFINE h == Head(waiters[o])
             q == Tail(waiters[o])
  <2>1. /\ waiters' = [waiters EXCEPT ![o] = q] /\ pc' = l
        /\ state' = [state EXCEPT ![h] = "READY"] /\ rq' = Append(rq, h)
        /\ UNCHANGED <<uth_current, ctx, obj, frames, masked>>
    BY <1>2, ZenonT(30) DEF uth_wake_one, uth_enqueue, queue_push
  <2>2. /\ h \in Tids /\ h \in Range(waiters[o]) /\ q \in Seq(Tids) /\ IsInjective(q)
        /\ Range(q) = Range(waiters[o]) \ {h}
    BY <1>2, PopLemma, ZenonT(30) DEF SchedTypeOK, QueueDiscipline
  <2>3. state[h] = "BLOCKED" /\ obj[h] = o
    BY <2>2, ZenonT(30) DEF QueueDiscipline
  <2>4. h \notin Range(rq)
    BY <2>2, <2>3, ZenonT(30) DEF QueueDiscipline
  <2>5. rq' \in Seq(Tids) /\ IsInjective(rq') /\ Range(rq') = Range(rq) \cup {h}
    BY <2>1, <2>2, <2>4, PushLemma, SMTT(30) DEF SchedTypeOK, QueueDiscipline
  <2> HIDE DEF h, q
  <2>6. /\ OnCpu /\ OnCpu'
        /\ {pc, pc'} \cap (DOMAIN SwapTo \cup Preemptible \cup SchedLabels \cup Unmasked) = {}
    BY <2>1, SwapLemma, SMTT(30) DEF OnCpu, SchedLabels, Unmasked, Sections, Preemptible
  <2>7. uth_current \in Tids /\ state[uth_current] = "RUNNING" /\ h # uth_current
    BY <2>3, <2>6, ZenonT(30) DEF CpuInv, SchedLabels
  <2>8. SchedTypeOK'
    <3>1. state' \in [Tids -> TCBStates]
      BY <2>1, ZenonT(30) DEF SchedTypeOK, TCBStates
    <3> QED
      BY <2>1, <2>2, <2>5, <3>1, ZenonT(30) DEF SchedTypeOK, Labels
  <2>9. QueueDiscipline'
    BY <2>1, <2>2, <2>3, <2>5, SMTT(30) DEF QueueDiscipline, SchedTypeOK
  <2>10. MaskDiscipline'
    BY <2>1, <2>6, ZenonT(30) DEF MaskDiscipline, SchedLabels
  <2>11. CpuInv'
    BY <2>1, <2>2, <2>6, <2>7, ZenonT(30) DEF CpuInv, SchedTypeOK, SchedLabels
  <2>12. FrameInv'
    BY <2>1, <2>6, ZenonT(30) DEF FrameInv, Place
  <2> QED
    BY <2>8, <2>9, <2>10, <2>11, <2>12, ZenonT(30)
<1> QED
  BY <1>1, <1>2, ZenonT(30)

\* What a step that the processor takes by itself, or the SIGALRM handler,
\* may do to thread t: nobody goes to sleep or is woken, and the thread stays
\* where it is, goes through a swapcontext, or returns from a call.
Quiet(t) ==
  /\ \/ state'[t] = state[t]
     \/ {state[t], state'[t]} \subseteq {"READY", "RUNNING"}
  /\ \/ /\ obj'[t] = obj[t] /\ frames'[t] = frames[t]
        /\ \/ Place(t)' = Place(t)
           \/ Place(t) \in DOMAIN SwapTo /\ Place(t)' = SwapTo[Place(t)]
           \/ Place(t) = "yield_push" /\ Place(t)' = "yield_swap"
           \/ Place(t) \in Preemptible /\ Place(t)' = "swapcontext"
     \/ /\ t = uth_current /\ pc = "leave" /\ Place(t) = "leave"
        /\ frames[t] # <<>> /\ frames'[t] = Tail(frames[t])
        /\ Place(t)' = Head(frames[t]).ret /\ Place(t)' \in ReturnLabels
        /\ obj'[t] = "none"

\* uth_preempt_restore returns from a call that is in progress.
LEMMA RestoreQuiet ==
  ASSUME SchedInv, uth_preempt_restore
  PROVE  pc' \in ReturnLabels /\ \A t \in Tids : Quiet(t)
<1> USE DEF SchedInv
<1> DEFINE c == uth_current
<1>1. pc = "leave" /\ pc \in Unmasked \cup Sections
  BY ZenonT(30) DEF uth_preempt_restore, Return, Sections
<1>2. c \in Tids /\ state[c] = "RUNNING" /\ Place(c) = "leave"
  BY <1>1, ThreadCode, ZenonT(30)
<1>3. /\ frames[c] \in Seq([old : BOOLEAN, ret : ReturnLabels])
      /\ frames[c] # <<>>
  BY <1>2, ZenonT(30) DEF SchedTypeOK, FrameInv, Preemptible, Unmasked
<1>4. Head(frames[c]) \in [old : BOOLEAN, ret : ReturnLabels]
  BY <1>3, TailLemma, ZenonT(30)
<1>5. /\ pc' = Head(frames[c]).ret /\ frames' = [frames EXCEPT ![c] = Tail(frames[c])]
      /\ obj' = [obj EXCEPT ![c] = "none"] /\ UNCHANGED <<uth_current, state, ctx>>
  BY ZenonT(30) DEF uth_preempt_restore, Return
<1>6. pc' \in ReturnLabels
  BY <1>4, <1>5, ZenonT(30)
<1>7. pc' \notin SchedLabels
  BY <1>6, ZenonT(30) DEF SchedLabels, ReturnLabels, Unmasked
<1>8. \A t \in Tids : Place(t)' = IF t = c THEN pc' ELSE Place(t)
  BY <1>1, <1>5, <1>7, ThreadCode, ZenonT(30)
<1>9. \A t \in Tids : Quiet(t)
  BY <1>1, <1>2, <1>3, <1>5, <1>6, <1>8, ZenonT(30) DEF Quiet, SchedTypeOK
<1> QED
  BY <1>6, <1>9, ZenonT(30)

\* The SIGALRM handler.
LEMMA PreemptQuiet ==
  ASSUME SchedInv, uth_preempt_handler
  PROVE  /\ pc \in Preemptible /\ pc' = "loop" /\ UNCHANGED waiters
         /\ \A t \in Tids : Quiet(t)
<1> USE SchedulerAssumption DEF SchedInv
<1> DEFINE c == uth_current
<1>1. /\ ~masked /\ c # NULL /\ pc' = "loop" /\ UNCHANGED <<waiters, obj, frames>>
      /\ ctx' = [ctx EXCEPT ![c] = [pc |-> pc, mask |-> masked]]
      /\ state' = [state EXCEPT ![c] = "READY"]
  BY ZenonT(30) DEF uth_preempt_handler, uth_enqueue
<1>2. /\ pc \in Preemptible /\ pc \notin {"main", "loop"} /\ pc \notin DOMAIN SwapTo
      /\ OnCpu <=> pc # "swapcontext"
      /\ ~OnCpu'
  BY <1>1, SwapLemma, ZenonT(30) DEF MaskDiscipline, CpuInv, OnCpu, SchedLabels, Preemptible,
     Unmasked
<1>3. c \in Tids /\ state[c] = "RUNNING"
  BY <1>2, ZenonT(30) DEF CpuInv
<1>4. \A t \in Tids : Place(t)' = IF t = c THEN pc ELSE Place(t)
  BY <1>1, <1>2, <1>3, ZenonT(30) DEF Place, SchedTypeOK
<1>5. Place(c) = pc \/ (Place(c) \in Preemptible /\ pc = "swapcontext")
  <2>1. CASE pc = "swapcontext"
    <3>1. masked = ctx[c].mask /\ Place(c) = ctx[c].pc
      BY <1>2, <2>1, ZenonT(30) DEF CpuInv, Place
    <3> QED
      BY <1>1, <1>3, <2>1, <3>1, ZenonT(30) DEF MaskDiscipline
  <2>2. CASE pc # "swapcontext"
    BY <1>2, <2>2, ZenonT(30) DEF Place
  <2> QED
    BY <2>1, <2>2, ZenonT(30)
<1>6. \A t \in Tids : state'[t] = IF t = c THEN "READY" ELSE state[t]
  BY <1>1, ZenonT(30) DEF SchedTypeOK
<1> QED
  BY <1>1, <1>2, <1>3, <1>4, <1>5, <1>6, ZenonT(30) DEF Quiet

\* The labels such steps start at, and end at.
QuietFrom == SchedLabels \cup Unmasked \cup DOMAIN SwapTo \cup {"yield_push", "leave"}
QuietTo == SchedLabels \cup Resumable \cup ReturnLabels \cup {"yield_swap"}

\* The steps the processor takes by itself, and the handler.
LEMMA HandlerSteps ==
  ASSUME SchedInv, SchedNext \/ uth_preempt_handler
  PROVE  /\ SchedInv' /\ UNCHANGED waiters
         /\ pc \in QuietFrom /\ pc' \in QuietTo
         /\ \A t \in Tids : Quiet(t)
<1> USE SchedulerAssumption DEF QuietFrom, QuietTo
<1>1. CASE Dispatch
  <2>1. /\ pc = "loop" /\ pc' = "swapcontext" /\ UNCHANGED <<waiters, obj, ctx, frames>>
        /\ state' = [state EXCEPT ![Head(rq)] = "RUNNING"] /\ rq # <<>>
    BY <1>1, ZenonT(30) DEF Dispatch
  <2>2. \A t \in Tids : Place(t)' = Place(t)
    BY <2>1, ZenonT(30) DEF Place, OnCpu, SchedLabels
  <2>3. Head(rq) \in Tids /\ state[Head(rq)] = "READY"
    BY <2>1, PopLemma, ZenonT(30) DEF SchedInv, SchedTypeOK, QueueDiscipline
  <2>4. \A t \in Tids : Quiet(t)
    BY <2>1, <2>2, <2>3, ZenonT(30) DEF Quiet, SchedInv, SchedTypeOK
  <2> QED
    BY <1>1, <2>1, <2>4, DispatchStep, ZenonT(30) DEF SchedLabels
<1>2. CASE LoadRegisters
  <2>1. /\ pc = "swapcontext" /\ pc' = ctx[uth_current].pc /\ uth_current \in Tids
        /\ UNCHANGED <<waiters, obj, ctx, state, uth_current, frames>>
    BY <1>2, ZenonT(30) DEF LoadRegisters, Goto, SchedInv, CpuInv
  <2>2. \A t \in Tids : Place(t)' = Place(t)
    BY <2>1, ZenonT(30) DEF Place, OnCpu, SchedLabels
  <2>3. pc' \in Resumable
    BY <2>1, ZenonT(30) DEF SchedInv, SchedTypeOK
  <2>4. \A t \in Tids : Quiet(t)
    BY <2>1, <2>2, ZenonT(30) DEF Quiet
  <2> QED
    BY <1>2, <2>1, <2>3, <2>4, LoadStep, ZenonT(30) DEF SchedLabels
<1>3. CASE Spin
  <2>1. pc = "loop" /\ pc' = "loop" /\ UNCHANGED <<waiters, obj, ctx, state, frames>>
    BY <1>3, ZenonT(30) DEF Spin
  <2>2. \A t \in Tids : Quiet(t)
    BY <2>1, ZenonT(30) DEF Quiet, Place, OnCpu, SchedLabels
  <2> QED
    BY <1>3, <2>1, <2>2, SpinStep, ZenonT(30) DEF SchedLabels
<1>4. CASE SwapOut
  <2>1. /\ pc \in DOMAIN SwapTo /\ pc' = "loop"
        /\ UNCHANGED <<waiters, obj, state, uth_current, frames>>
        /\ ctx' = [ctx EXCEPT ![uth_current] = [pc |-> SwapTo[pc], mask |-> masked]]
    BY <1>4, ZenonT(30) DEF SwapOut
  <2>2. uth_current \in Tids /\ OnCpu /\ ~OnCpu'
    BY <2>1, SwapLemma, ZenonT(30) DEF SchedInv, CpuInv, OnCpu, SchedLabels
  <2>3. \A t \in Tids : Place(t)' = IF t = uth_current THEN SwapTo[pc] ELSE Place(t)
    BY <2>1, <2>2, ZenonT(30) DEF Place, SchedInv, SchedTypeOK
  <2>4. Place(uth_current) = pc
    BY <2>2, ZenonT(30) DEF Place
  <2>5. \A t \in Tids : Quiet(t)
    BY <2>1, <2>3, <2>4, ZenonT(30) DEF Quiet
  <2> QED
    BY <1>4, <2>1, <2>5, SwapOutStep, ZenonT(30) DEF SchedLabels
<1>5. CASE uth_yield_push
  <2>1. /\ pc = "yield_push" /\ pc' = "yield_swap" /\ pc \in Sections
        /\ UNCHANGED <<waiters, obj, ctx, uth_current, frames>>
        /\ state' = [state EXCEPT ![uth_current] = "READY"]
    BY <1>5, ZenonT(30) DEF uth_yield_push, uth_enqueue, Sections
  <2>2. /\ uth_current \in Tids /\ state[uth_current] = "RUNNING"
        /\ Place(uth_current) = "yield_push"
        /\ \A t \in Tids : Place(t)' = IF t = uth_current THEN "yield_swap" ELSE Place(t)
    BY <2>1, ThreadCode, ZenonT(30) DEF SchedLabels
  <2>3. \A t \in Tids : Quiet(t)
    BY <2>1, <2>2, ZenonT(30) DEF Quiet, SchedInv, SchedTypeOK
  <2> QED
    BY <1>5, <2>1, <2>3, YieldPushStep, ZenonT(30)
<1>6. CASE uth_preempt_restore
  <2>1. pc = "leave" /\ UNCHANGED waiters
    BY <1>6, ZenonT(30) DEF uth_preempt_restore, Return
  <2> QED
    BY <1>6, <2>1, RestoreStep, RestoreQuiet, ZenonT(30)
<1>7. CASE uth_preempt_handler
  BY <1>7, PreemptStep, PreemptQuiet, ZenonT(30) DEF Preemptible, SchedLabels
<1> QED
  BY <1>1, <1>2, <1>3, <1>4, <1>5, <1>6, <1>7, ZenonT(30) DEF SchedNext

\* The same where a constant says if SIGALRM arrives.
LEMMA QuietSteps ==
  ASSUME SchedInv, SchedNext \/ Preempt
  PROVE  /\ SchedInv' /\ UNCHANGED waiters
         /\ pc \in QuietFrom /\ pc' \in QuietTo
         /\ \A t \in Tids : Quiet(t)
BY HandlerSteps, ZenonT(30) DEF Preempt

\* A step that changes nothing.
LEMMA SchedStutter ==
  ASSUME SchedInv, UNCHANGED schedVars
  PROVE  SchedInv'
<1> USE DEF SchedInv, schedVars
<1>1. SchedTypeOK'
  BY ZenonT(30) DEF SchedTypeOK
<1>2. QueueDiscipline'
  BY ZenonT(30) DEF QueueDiscipline
<1>3. MaskDiscipline' /\ CpuInv'
  BY ZenonT(30) DEF MaskDiscipline, CpuInv, OnCpu
<1>4. FrameInv'
  BY ZenonT(30) DEF FrameInv, Place, OnCpu
<1> QED
  BY <1>1, <1>2, <1>3, <1>4, ZenonT(30)
=============================================================================
