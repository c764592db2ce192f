------------------------- MODULE SpinSemaphoreProofs -------------------------
(***************************************************************************)
(* Proofs about the two locks that sit directly on the scheduler, for      *)
(* every number of threads, spinlocks, semaphores and permits, with and    *)
(* without preemption.  The spinlock has one holder at a time although its *)
(* code can be preempted anywhere, and it implements the abstract lock:    *)
(* SpinIndInv of module SpinLock is inductive.  The semaphore never gives  *)
(* out more permits than it has and loses no wakeup: SemIndInv of module   *)
(* Semaphore is inductive.  Neither disturbs the other in a program that   *)
(* uses both (module SpinSemaphore).                                       *)
(***************************************************************************)
EXTENDS SpinSemaphore, SchedulerProofs, FiniteSetTheorems

-----------------------------------------------------------------------------
(* The spinlock.                                                           *)

\* The initial state satisfies the inductive invariant.
LEMMA SpinInitInv == Init => SpinIndInv
<1> SUFFICES ASSUME Init PROVE SpinIndInv
  OBVIOUS
<1>1. SchedInv
  BY SchedInitInv, ZenonT(30) DEF Init
<1>2. \A t \in Tids : Place(t) = "user" /\ frames[t] = <<>>
  BY ZenonT(30) DEF Init, SchedInit, Place, OnCpu, SchedLabels, NewContext
<1>3. SpinTypeOK /\ SpinExclusion
  BY ZenonT(30) DEF Init, uth_spin_init, SpinTypeOK, SpinExclusion
<1>4. SpinInv
  BY <1>2 DEF SpinInv
<1> QED
  BY <1>1, <1>3, <1>4, ZenonT(30) DEF SpinIndInv

\* The steps the processor takes by itself, and preemption.
LEMMA SpinQuiet ==
  ASSUME SpinIndInv, SchedNext \/ Preempt, UNCHANGED spinVars
  PROVE  SpinIndInv'
<1>1. SchedInv /\ SchedInv' /\ \A t \in Tids : Quiet(t)
  BY QuietSteps, ZenonT(30) DEF SpinIndInv
<1>2. SpinTypeOK' /\ SpinExclusion'
  BY ZenonT(30) DEF SpinIndInv, SpinTypeOK, SpinExclusion, spinVars
<1>3. SpinInv'
  <2> SUFFICES ASSUME NEW t \in Tids
               PROVE  /\ Place(t)' \in {"spin_tas", "spin_yield"} => spinning[t] \in Spins
                      /\ \A i \in 1 .. Len(frames'[t]) :
                           frames'[t][i].ret \in {"spin_tas", "spin_yield"} => spinning[t] \in Spins
    BY ZenonT(30) DEF SpinInv, spinVars
  <2>1. /\ Place(t) \in {"spin_tas", "spin_yield"} => spinning[t] \in Spins
        /\ \A i \in 1 .. Len(frames[t]) :
             frames[t][i].ret \in {"spin_tas", "spin_yield"} => spinning[t] \in Spins
        /\ frames[t] \in Seq([old : BOOLEAN, ret : ReturnLabels])
    BY <1>1, ZenonT(30) DEF SpinIndInv, SpinInv, SchedInv, SchedTypeOK
  <2>2. CASE /\ frames'[t] = frames[t]
             /\ \/ Place(t)' = Place(t)
                \/ Place(t) \in DOMAIN SwapTo /\ Place(t)' = SwapTo[Place(t)]
                \/ Place(t)' \in {"yield_swap", "swapcontext"}
    <3>1. {"spin_tas", "spin_yield"} \subseteq Preemptible
      BY ZenonT(30) DEF Preemptible, Unmasked
    <3>2. \A l \in DOMAIN SwapTo : SwapTo[l] \notin {"spin_tas", "spin_yield"}
      BY <3>1, SwapLemma, ZenonT(30)
    <3>3. Place(t)' = Place(t) \/ Place(t)' \notin {"spin_tas", "spin_yield"}
      BY <2>2, <3>2, ZenonT(30)
    <3> QED
      BY <2>1, <2>2, <3>3, ZenonT(30)
  <2>3. CASE /\ frames[t] # <<>> /\ frames'[t] = Tail(frames[t])
             /\ Place(t)' = Head(frames[t]).ret
    <3>1. /\ Head(frames[t]) = frames[t][1] /\ Len(frames[t]) \in Nat /\ Len(frames[t]) >= 1
          /\ Len(Tail(frames[t])) = Len(frames[t]) - 1
          /\ \A i \in 1 .. Len(Tail(frames[t])) : Tail(frames[t])[i] = frames[t][i + 1]
      BY <2>1, <2>3, TailLemma, ZenonT(30)
    <3> QED
      BY <2>1, <2>3, <3>1
  <2> QED
    BY <1>1, <2>2, <2>3, ZenonT(30) DEF Quiet
<1> QED
  BY <1>1, <1>2, <1>3, ZenonT(30) DEF SpinIndInv

\* A call of uth_yield, by the client or by uth_spin_lock, and the client's
\* calls of uth_sem_wait and uth_sem_post.
LEMMA SpinEntry ==
  ASSUME SpinIndInv, NEW from, NEW ret,
         <<from, ret>> \in {<<"user", "user">>, <<"spin_yield", "spin_tas">>},
         NEW o \in Objs \cup {"none"},
         NEW l \in {"yield_push", "sem_check", "post_inc"},
         Enter(from, o, ret, l), UNCHANGED spinVars
  PROVE  SpinIndInv'
<1> DEFINE c == uth_current
           f == [old |-> masked, ret |-> ret]
           q == frames[c]
           F == [old : BOOLEAN, ret : ReturnLabels]
<1>1. /\ pc = from /\ pc' = l /\ frames' = [frames EXCEPT ![c] = <<f>> \o q]
      /\ UNCHANGED <<uth_current, ctx>>
  BY ZenonT(30) DEF Enter, uth_preempt_off
<1>2. /\ SchedInv /\ from \in Unmasked /\ ret \in Unmasked /\ ret \in ReturnLabels
      /\ l \in Sections /\ l \notin SchedLabels
  BY ZenonT(30) DEF SpinIndInv, Unmasked, ReturnLabels, Sections, SchedLabels
<1>3. SchedInv'
  BY <1>2, EnterStep, ZenonT(30)
<1>4. /\ c \in Tids /\ Place(c) = from
      /\ \A t \in Tids : Place(t)' = IF t = c THEN l ELSE Place(t)
  BY <1>1, <1>2, ThreadCode, ZenonT(30)
<1>5. SpinTypeOK' /\ SpinExclusion'
  BY ZenonT(30) DEF SpinIndInv, SpinTypeOK, SpinExclusion, spinVars
<1>6. /\ q \in Seq(F) /\ f \in F /\ q = <<>>
      /\ \A t \in Tids \ {c} : frames'[t] = frames[t]
      /\ frames'[c] = <<f>> \o q
  BY <1>1, <1>2, <1>4, ZenonT(30) DEF SchedInv, SchedTypeOK, FrameInv, Preemptible
<1>7. Len(<<f>> \o q) = 1 /\ (<<f>> \o q)[1] = f
  BY <1>6, FrameLemma
<1>8. ret = "spin_tas" => spinning[c] \in Spins
  BY <1>4, ZenonT(30) DEF SpinIndInv, SpinInv
<1>9. SpinInv'
  <2> SUFFICES ASSUME NEW t \in Tids
               PROVE  /\ Place(t)' \in {"spin_tas", "spin_yield"} => spinning[t] \in Spins
                      /\ \A i \in 1 .. Len(frames'[t]) :
                           frames'[t][i].ret \in {"spin_tas", "spin_yield"} => spinning[t] \in Spins
    BY ZenonT(30) DEF SpinInv, spinVars
  <2>1. CASE t = c
    <3> HIDE DEF f, q
    <3>1. \A i \in 1 .. Len(frames'[t]) : frames'[t][i] = f
      BY <1>6, <1>7, <2>1
    <3>2. f.ret = ret
      BY ZenonT(30) DEF f
    <3> QED
      BY <1>4, <1>8, <2>1, <3>1, <3>2, ZenonT(30)
  <2>2. CASE t # c
    BY <1>4, <1>6, <2>2, ZenonT(30) DEF SpinIndInv, SpinInv
  <2> QED
    BY <2>1, <2>2, ZenonT(30)
<1> QED
  BY <1>3, <1>5, <1>9, ZenonT(30) DEF SpinIndInv

\* A step of a thread from label l to label n of its own code, in which it may
\* change its argument.
LEMMA SpinCode ==
  ASSUME SpinIndInv, pc \in Unmasked, NEW l \in Unmasked, Goto(l), SpinTypeOK', SpinExclusion',
         \A t \in Tids \ {uth_current} : spinning'[t] = spinning[t],
         l \in {"spin_tas", "spin_yield"} => spinning'[uth_current] \in Spins
  PROVE  SpinIndInv'
<1> DEFINE c == uth_current
<1>1. /\ SchedInv /\ pc' = l /\ UNCHANGED <<uth_current, ctx, frames>> /\ l \notin SchedLabels
  BY ZenonT(30) DEF SpinIndInv, Goto, Unmasked, SchedLabels
<1>2. SchedInv'
  BY <1>1, CodeStep, ZenonT(30)
<1>3. /\ c \in Tids /\ Place(c) = pc
      /\ \A t \in Tids : Place(t)' = IF t = c THEN l ELSE Place(t)
  BY <1>1, ThreadCode, ZenonT(30)
<1>4. frames'[c] = <<>>
  BY <1>1, <1>3, ZenonT(30) DEF SchedInv, FrameInv, Preemptible
<1>5. SpinInv'
  <2> SUFFICES ASSUME NEW t \in Tids
               PROVE  /\ Place(t)' \in {"spin_tas", "spin_yield"} => spinning'[t] \in Spins
                      /\ \A i \in 1 .. Len(frames'[t]) :
                           frames'[t][i].ret \in {"spin_tas", "spin_yield"} => spinning'[t] \in Spins
    BY ZenonT(30) DEF SpinInv
  <2>1. CASE t = c
    BY <1>3, <1>4, <2>1
  <2>2. CASE t # c
    BY <1>1, <1>3, <2>2, ZenonT(30) DEF SpinIndInv, SpinInv
  <2> QED
    BY <2>1, <2>2, ZenonT(30)
<1> QED
  BY <1>2, <1>5, ZenonT(30) DEF SpinIndInv

\* A call of uth_spin_lock, and its test-and-set.
LEMMA SpinLockInv ==
  ASSUME SpinIndInv, (\E s \in Spins : uth_spin_lock(s)) \/ spin_tas
  PROVE  SpinIndInv'
<1> DEFINE c == uth_current
<1>0. {"user", "spin_tas", "spin_yield"} \subseteq Unmasked /\ SchedInv
  BY ZenonT(30) DEF Unmasked, SpinIndInv
<1>1. ASSUME NEW s \in Spins, uth_spin_lock(s)
      PROVE  SpinIndInv'
  <2>1. /\ pc = "user" /\ Goto("spin_tas") /\ spinning' = [spinning EXCEPT ![c] = s]
        /\ UNCHANGED <<flag, held>>
    BY <1>1, ZenonT(30) DEF uth_spin_lock
  <2>2. c \in Tids
    BY <1>0, <2>1, ThreadCode, ZenonT(30)
  <2>3. SpinTypeOK' /\ SpinExclusion' /\ spinning'[c] = s
        /\ \A t \in Tids \ {c} : spinning'[t] = spinning[t]
    BY <1>1, <2>1, <2>2, ZenonT(30) DEF SpinIndInv, SpinTypeOK, SpinExclusion
  <2> QED
    BY <1>0, <2>1, <2>3, SpinCode, ZenonT(30)
<1>2. ASSUME spin_tas
      PROVE  SpinIndInv'
  <2> DEFINE s == spinning[c]
  <2>1. /\ pc = "spin_tas" /\ flag' = [flag EXCEPT ![s] = TRUE]
        /\ Got(s) \/ Missed(s, "spin_yield")
    BY <1>2, ZenonT(30) DEF spin_tas, TestAndSet, Attempt
  <2>2. c \in Tids /\ Place(c) = "spin_tas"
    BY <1>0, <2>1, ThreadCode, ZenonT(30)
  <2>3. s \in Spins
    BY <2>2, ZenonT(30) DEF SpinIndInv, SpinInv
  <2> HIDE DEF s
  <2>4. \A r \in Spins : flag'[r] = (r = s \/ flag[r])
    BY <2>1, <2>3, ZenonT(30) DEF SpinIndInv, SpinTypeOK
  <2>5. CASE Got(s)
    <3>1. /\ ~flag[s] /\ Goto("user") /\ held' = [held EXCEPT ![c] = @ \cup {s}]
          /\ spinning' = [spinning EXCEPT ![c] = "none"]
      BY <2>5, ZenonT(30) DEF Got
    <3>2. /\ \A t \in Tids : held'[t] = IF t = c THEN held[c] \cup {s} ELSE held[t]
          /\ \A t \in Tids \ {c} : spinning'[t] = spinning[t]
      BY <2>2, <3>1, ZenonT(30) DEF SpinIndInv, SpinTypeOK
    <3>3. SpinTypeOK'
      BY <2>1, <2>2, <2>3, <3>1, ZenonT(30) DEF SpinIndInv, SpinTypeOK
    <3>4. \A t \in Tids : s \notin held[t]
      BY <2>3, <3>1, ZenonT(30) DEF SpinIndInv, SpinExclusion
    <3>5. SpinExclusion'
      <4> SUFFICES ASSUME NEW r \in Spins
                   PROVE  /\ flag'[r] <=> \E t \in Tids : r \in held'[t]
                          /\ \A t, u \in Tids : r \in held'[t] /\ r \in held'[u] => t = u
        BY ZenonT(30) DEF SpinExclusion
      <4>1. /\ flag[r] <=> \E t \in Tids : r \in held[t]
            /\ \A t, u \in Tids : r \in held[t] /\ r \in held[u] => t = u
        BY ZenonT(30) DEF SpinIndInv, SpinExclusion
      <4> QED
        BY <2>2, <2>4, <3>2, <3>4, <4>1, ZenonT(30)
    <3> QED
      BY <1>0, <2>1, <3>1, <3>2, <3>3, <3>5, SpinCode, ZenonT(30)
  <2>6. CASE Missed(s, "spin_yield")
    <3>1. flag[s] /\ Goto("spin_yield") /\ UNCHANGED <<spinning, held>>
      BY <2>6, ZenonT(30) DEF Missed
    <3>2. flag' = flag
      BY <2>1, <2>3, <3>1, ZenonT(30) DEF SpinIndInv, SpinTypeOK
    <3>3. SpinTypeOK' /\ SpinExclusion'
      BY <3>1, <3>2, ZenonT(30) DEF SpinIndInv, SpinTypeOK, SpinExclusion
    <3> QED
      BY <1>0, <2>1, <2>3, <3>1, <3>3, SpinCode, ZenonT(30) DEF s
  <2> QED
    BY <2>1, <2>5, <2>6, ZenonT(30)
<1> QED
  BY <1>1, <1>2, ZenonT(30)

\* uth_spin_unlock of a lock that the caller holds.
LEMMA SpinUnlockInv ==
  ASSUME SpinIndInv, NEW s \in held[uth_current], uth_spin_unlock(s)
  PROVE  SpinIndInv'
<1> DEFINE c == uth_current
<1>1. /\ pc = "user" /\ flag' = [flag EXCEPT ![s] = FALSE]
      /\ held' = [held EXCEPT ![c] = @ \ {s}] /\ UNCHANGED <<schedVars, spinning>>
  BY ZenonT(30) DEF uth_spin_unlock
<1>2. "user" \in Unmasked /\ SchedInv
  BY ZenonT(30) DEF Unmasked, SpinIndInv
<1>3. c \in Tids
  BY <1>1, <1>2, ThreadCode, ZenonT(30)
<1>4. s \in Spins
  BY <1>3, ZenonT(30) DEF SpinIndInv, SpinTypeOK
<1>5. SpinTypeOK'
  BY <1>1, <1>3, <1>4, ZenonT(30) DEF SpinIndInv, SpinTypeOK
<1>6. /\ \A r \in Spins : flag'[r] = (r # s /\ flag[r])
      /\ \A t \in Tids : held'[t] = IF t = c THEN held[c] \ {s} ELSE held[t]
  BY <1>1, <1>3, <1>4, ZenonT(30) DEF SpinIndInv, SpinTypeOK
<1>7. SpinExclusion'
  <2> SUFFICES ASSUME NEW r \in Spins
               PROVE  /\ flag'[r] <=> \E t \in Tids : r \in held'[t]
                      /\ \A t, u \in Tids : r \in held'[t] /\ r \in held'[u] => t = u
    BY ZenonT(30) DEF SpinExclusion
  <2>1. /\ flag[r] <=> \E t \in Tids : r \in held[t]
        /\ \A t, u \in Tids : r \in held[t] /\ r \in held[u] => t = u
    BY ZenonT(30) DEF SpinIndInv, SpinExclusion
  <2> QED
    BY <1>3, <1>6, <2>1, ZenonT(30)
<1>8. SpinInv'
  BY <1>1, ZenonT(30) DEF SpinIndInv, SpinInv, schedVars, Place, OnCpu
<1> QED
  BY <1>1, <1>2, <1>5, <1>7, <1>8, SchedStutter, ZenonT(30) DEF SpinIndInv

\* Every step of the program preserves the inductive invariant.
LEMMA SpinNextInv == SpinIndInv /\ [Next]_vars => SpinIndInv'
<1> SUFFICES ASSUME SpinIndInv, [Next]_vars PROVE SpinIndInv'
  OBVIOUS
<1>1. CASE (SchedNext \/ Preempt) /\ UNCHANGED spinVars
  BY <1>1, SpinQuiet, ZenonT(30)
<1>2. CASE spin_tas
  BY <1>2, SpinLockInv, ZenonT(30)
<1>3. CASE spin_yield
  BY <1>3, SpinEntry DEF spin_yield, uth_yield
<1>4. CASE Client
  <2>1. CASE \E s \in Spins : uth_spin_lock(s)
    BY <2>1, SpinLockInv, ZenonT(30)
  <2>2. CASE \E s \in held[uth_current] : uth_spin_unlock(s)
    BY <2>2, SpinUnlockInv, ZenonT(30)
  <2>3. CASE uth_yield("user", "user") /\ UNCHANGED spinVars
    BY <2>3, SpinEntry DEF uth_yield
  <2> QED
    BY <1>4, <2>1, <2>2, <2>3, ZenonT(30) DEF Client
<1>5. CASE UNCHANGED vars
  <2>1. UNCHANGED schedVars /\ UNCHANGED spinVars
    BY <1>5, ZenonT(30) DEF vars
  <2>2. SpinInv'
    BY <2>1, ZenonT(30) DEF SpinIndInv, SpinInv, schedVars, spinVars, Place, OnCpu
  <2> QED
    BY <2>1, <2>2, SchedStutter, ZenonT(30) DEF SpinIndInv, SpinTypeOK, SpinExclusion, spinVars
<1> QED
  BY <1>1, <1>2, <1>3, <1>4, <1>5, ZenonT(30) DEF Next, CpuStep

-----------------------------------------------------------------------------
\* SpinIndInv holds in every reachable state.
THEOREM SpinCorrect == Spec => []SpinIndInv
BY SpinInitInv, SpinNextInv, PTL DEF Spec

\* uth_spin_lock gives a spinlock to one thread at a time, wherever threads
\* are preempted in its code, and the flag is set exactly while it is held.
THEOREM SpinExcludes == Spec => []SpinExclusion
<1>1. SpinIndInv => SpinExclusion
  BY ZenonT(30) DEF SpinIndInv
<1> QED
  BY <1>1, SpinCorrect, PTL

-----------------------------------------------------------------------------
(* Refinement.                                                             *)

\* A thread that holds s is its holder, and a lock nobody holds has none.
LEMMA SpinHolder ==
  ASSUME SpinExclusion, NEW s \in Spins
  PROVE  /\ \A t \in Tids : s \in held[t] => Holder(s) = t
         /\ (\A t \in Tids : s \notin held[t]) => Holder(s) = NULL
         /\ flag[s] = FALSE => Holder(s) = NULL
BY ZenonT(30) DEF SpinExclusion, Holder

\* A step of the program that changes what is held is a step of the abstract
\* lock.
LEMMA SpinLockStep ==
  ASSUME SpinIndInv, SpinIndInv',
         \/ UNCHANGED held
         \/ spin_tas
         \/ \E s \in held[uth_current] : uth_spin_unlock(s)
  PROVE  [SpinIsLock!Next]_([s \in Spins |-> Holder(s)])
<1> DEFINE c == uth_current
           H == [s \in Spins |-> Holder(s)]
<1>0. {"user", "spin_tas", "spin_yield"} \subseteq Unmasked /\ SchedInv
  BY ZenonT(30) DEF Unmasked, SpinIndInv
<1>1. CASE UNCHANGED held
  BY <1>1, ZenonT(30) DEF Holder
<1>2. CASE spin_tas
  <2>1. PICK s : s = spinning[c]
    OBVIOUS
  <2>2. pc = "spin_tas" /\ (Got(s) \/ Missed(s, "spin_yield"))
    BY <1>2, <2>1, ZenonT(30) DEF spin_tas, TestAndSet, Attempt
  <2>3. c \in Tids /\ Place(c) = "spin_tas"
    BY <1>0, <2>2, ThreadCode, ZenonT(30)
  <2>4. s \in Spins
    BY <2>1, <2>3, ZenonT(30) DEF SpinIndInv, SpinInv
  <2>5. CASE Missed(s, "spin_yield")
    BY <1>1, <2>5, ZenonT(30) DEF Missed
  <2>6. CASE Got(s)
    <3>1. /\ flag[s] = FALSE
          /\ \A t \in Tids : held'[t] = IF t = c THEN held[c] \cup {s} ELSE held[t]
      BY <2>3, <2>4, <2>6, ZenonT(30) DEF Got, SpinIndInv, SpinTypeOK
    <3>2. Holder(s) = NULL
      BY <2>4, <3>1, SpinHolder, ZenonT(30) DEF SpinIndInv
    <3>3. Holder(s)' = c
      <4>1. s \in held'[c]
        BY <2>3, <3>1, ZenonT(30)
      <4> QED
        BY <2>3, <2>4, <4>1, ZenonT(30) DEF SpinIndInv, SpinExclusion, Holder
    <3>4. \A r \in Spins \ {s} : Holder(r)' = Holder(r)
      <4> SUFFICES ASSUME NEW r \in Spins \ {s} PROVE Holder(r)' = Holder(r)
        OBVIOUS
      <4>1. \A t \in Tids : r \in held'[t] <=> r \in held[t]
        BY <2>3, <3>1, ZenonT(30)
      <4> QED
        BY <4>1, ZenonT(30) DEF Holder
    <3>5. SpinIsLock!Acquire(c, s)
      BY <2>4, <3>2, <3>3, <3>4, ZenonT(30) DEF SpinIsLock!Acquire
    <3> QED
      BY <2>3, <2>4, <3>5, ZenonT(30) DEF SpinIsLock!Next
  <2> QED
    BY <2>2, <2>5, <2>6, ZenonT(30)
<1>3. ASSUME NEW s \in held[c], uth_spin_unlock(s)
      PROVE  [SpinIsLock!Next]_H
  <2>1. pc = "user" /\ held' = [held EXCEPT ![c] = @ \ {s}]
    BY <1>3, ZenonT(30) DEF uth_spin_unlock
  <2>2. c \in Tids
    BY <1>0, <2>1, ThreadCode, ZenonT(30)
  <2>3. s \in Spins /\ \A t \in Tids : held'[t] = IF t = c THEN held[c] \ {s} ELSE held[t]
    BY <2>1, <2>2, ZenonT(30) DEF SpinIndInv, SpinTypeOK
  <2>4. Holder(s) = c
    BY <1>3, <2>2, <2>3, SpinHolder, ZenonT(30) DEF SpinIndInv
  <2>5. Holder(s)' = NULL
    <3>1. \A t \in Tids : s \notin held'[t]
      BY <1>3, <2>2, <2>3, ZenonT(30) DEF SpinIndInv, SpinExclusion
    <3> QED
      BY <3>1, ZenonT(30) DEF Holder
  <2>6. \A r \in Spins \ {s} : Holder(r)' = Holder(r)
    <3> SUFFICES ASSUME NEW r \in Spins \ {s} PROVE Holder(r)' = Holder(r)
      OBVIOUS
    <3>1. \A t \in Tids : r \in held'[t] <=> r \in held[t]
      BY <2>2, <2>3, ZenonT(30)
    <3> QED
      BY <3>1, ZenonT(30) DEF Holder
  <2>7. SpinIsLock!Release(c, s)
    BY <2>3, <2>4, <2>5, <2>6, ZenonT(30) DEF SpinIsLock!Release
  <2> QED
    BY <2>2, <2>3, <2>7, ZenonT(30) DEF SpinIsLock!Next
<1> QED
  BY <1>1, <1>2, <1>3, ZenonT(30)

\* uth_spin_lock and uth_spin_unlock implement the abstract lock: only a free
\* lock is given to a thread, and only its holder makes it free again.
THEOREM SpinRefines == Spec => ImplementsLock
<1>1. Init => SpinIsLock!Init
  BY ZenonT(30) DEF Init, SpinIsLock!Init, Holder
<1>2. SpinIndInv /\ SpinIndInv' /\ [Next]_vars
        => [SpinIsLock!Next]_([s \in Spins |-> Holder(s)])
  BY SpinLockStep, ZenonT(30) DEF Next, CpuStep, Client, spin_yield, uth_spin_lock, spinVars, vars
<1> QED
  BY <1>1, <1>2, SpinCorrect, PTL DEF Spec, ImplementsLock, SpinIsLock!Spec

-----------------------------------------------------------------------------
(* The semaphore.                                                          *)

\* Sets of threads can be counted.
LEMMA Counting ==
  ASSUME NEW S \in SUBSET Tids
  PROVE  /\ Cardinality(S) \in Nat
         /\ \A T \in SUBSET S : Cardinality(T) <= Cardinality(S)
         /\ \A x \in Tids \ S : Cardinality(S \cup {x}) = Cardinality(S) + 1
         /\ \A x \in S : Cardinality(S \ {x}) = Cardinality(S) - 1
<1>1. IsFiniteSet(Tids)
  BY SchedulerAssumption, FS_Interval DEF Tids
<1>2. IsFiniteSet(S)
  BY <1>1, FS_Subset, ZenonT(30)
<1> QED
  BY <1>2, FS_CardinalityType, FS_Subset, FS_AddElement, FS_RemoveElement, ZenonT(30)

\* The initial state satisfies the inductive invariant.
LEMMA SemInitInv == SemInit => SemIndInv
<1> SUFFICES ASSUME SemInit PROVE SemIndInv
  OBVIOUS
<1> USE SchedulerAssumption, SemAssumption
<1>1. SchedInv
  BY SchedInitInv, ZenonT(30) DEF SemInit
<1>2. /\ value = InitValue /\ pc = "loop" /\ waiters = [o \in Objs |-> <<>>]
      /\ \A t \in Tids : state[t] = "READY" /\ ctx[t] = NewContext
  BY ZenonT(30) DEF SemInit, uth_sem_init, SchedInit
<1>3. \A t \in Tids : Place(t) = "user"
  BY <1>2 DEF Place, OnCpu, SchedLabels, NewContext
<1>4. SemTypeOK
  BY <1>1, <1>2 DEF SemTypeOK, SchedInv
<1>5. NeverNegative /\ NoStrandedPermit
  BY <1>2 DEF NeverNegative, NoStrandedPermit
<1>6. SemInv
  BY <1>2, <1>3, ZenonT(30) DEF SemInv, SemLabels
<1> QED
  BY <1>1, <1>4, <1>5, <1>6, ZenonT(30) DEF SemIndInv

\* A step that changes no value and puts nobody to sleep keeps the semaphores
\* correct, if nobody who is on the way to a permit gives up.
LEMMA OtherSemStep ==
  ASSUME SemIndInv, SchedInv', UNCHANGED <<value, waiters>>,
         pc # "post_wake", pc' \notin {"sem_take", "sem_block"},
         \A t \in Tids : Place(t)' \in SemLabels => obj'[t] \in Sems,
         \A t \in Tids : state'[t] = "BLOCKED" /\ obj'[t] \in Sems =>
           Place(t)' \in {"sem_swap", "sem_check"},
         \A s \in Sems : Takers(s) \subseteq Takers(s)'
  PROVE  SemIndInv'
<1> USE DEF SemIndInv
<1>1. SemTypeOK' /\ NeverNegative'
  BY ZenonT(30) DEF SemTypeOK, SchedInv, NeverNegative
<1>2. NoStrandedPermit'
  <2> SUFFICES ASSUME NEW s \in Sems, waiters[s] # <<>>
               PROVE  value[s] <= Cardinality(Takers(s)')
                        + (IF pc' = "post_wake" /\ obj'[uth_current'] = s THEN 1 ELSE 0)
    BY ZenonT(30) DEF NoStrandedPermit
  <2>1. value[s] <= Cardinality(Takers(s)) + 0
    BY ZenonT(30) DEF NoStrandedPermit
  <2>2. value[s] \in Int
    BY ZenonT(30) DEF SemTypeOK
  <2>3. Takers(s) \in SUBSET Tids /\ Takers(s)' \in SUBSET Tids
    BY ZenonT(30) DEF Takers
  <2>4. /\ Cardinality(Takers(s)) \in Nat /\ Cardinality(Takers(s)') \in Nat
        /\ Cardinality(Takers(s)) <= Cardinality(Takers(s)')
    BY <2>3, Counting, ZenonT(30)
  <2> QED
    BY <2>1, <2>2, <2>4
<1>3. SemInv'
  BY ZenonT(30) DEF SemInv
<1> QED
  BY <1>1, <1>2, <1>3, ZenonT(30)

\* The steps the processor takes by itself, and preemption.
LEMMA SemQuiet ==
  ASSUME SemIndInv, SchedNext \/ Preempt, UNCHANGED value
  PROVE  SemIndInv'
<1> USE SchedulerAssumption, SemAssumption
<1>1. /\ SchedInv' /\ UNCHANGED waiters /\ pc \in QuietFrom /\ pc' \in QuietTo
      /\ \A t \in Tids : Quiet(t)
  BY QuietSteps, ZenonT(30) DEF SemIndInv
<1>2. pc # "post_wake" /\ pc' \notin {"sem_take", "sem_block"}
  BY <1>1, SwapLemma, ZenonT(30) DEF QuietFrom, QuietTo, SchedLabels, Unmasked, ReturnLabels
<1>3. ASSUME NEW t \in Tids
      PROVE  /\ \/ obj'[t] = obj[t] /\ Place(t)' = Place(t)
                \/ obj'[t] = obj[t] /\ Place(t) = "sem_swap" /\ Place(t)' = "sem_check"
                \/ Place(t) \notin SemLabels /\ Place(t)' \notin SemLabels
                     /\ (obj'[t] = obj[t] \/ obj'[t] = "none")
             /\ state'[t] = "BLOCKED" => state[t] = "BLOCKED"
             /\ state[t] \in {"READY", "RUNNING"} => state'[t] \in {"READY", "RUNNING"}
  BY <1>1, <1>3, SwapLemma DEF Quiet, SemLabels, Preemptible, Unmasked, ReturnLabels
<1>4. \A t \in Tids : Place(t)' \in SemLabels => obj'[t] \in Sems
  BY <1>3, ZenonT(30) DEF SemIndInv, SemInv, SemLabels
<1>5. \A t \in Tids : state'[t] = "BLOCKED" /\ obj'[t] \in Sems =>
        Place(t)' \in {"sem_swap", "sem_check"}
  BY <1>3, ZenonT(30) DEF SemIndInv, SemInv, SemLabels
<1>6. \A s \in Sems : Takers(s) \subseteq Takers(s)'
  BY <1>3, ZenonT(30) DEF Takers, SemLabels
<1> QED
  BY <1>1, <1>2, <1>4, <1>5, <1>6, OtherSemStep, ZenonT(30)

\* A step of a client.
LEMMA SemEntry ==
  ASSUME SemIndInv, NEW from, NEW ret,
         <<from, ret>> \in {<<"user", "user">>, <<"spin_yield", "spin_tas">>},
         NEW o \in Objs \cup {"none"},
         NEW l \in {"yield_push", "sem_check", "post_inc"},
         Enter(from, o, ret, l),
         l # "yield_push" => o \in Sems,
         UNCHANGED value
  PROVE  SemIndInv'
<1> USE SchedulerAssumption, SemAssumption
<1> DEFINE c == uth_current
<1>1. /\ SchedInv /\ from \in Unmasked /\ ret \in Unmasked /\ ret \in ReturnLabels
      /\ l \in Sections
  BY ZenonT(30) DEF SemIndInv, Unmasked, ReturnLabels, Sections
<1>2. SchedInv'
  BY <1>1, EnterStep, ZenonT(30)
<1>3. /\ pc = from /\ pc' = l /\ obj' = [obj EXCEPT ![c] = o]
      /\ UNCHANGED <<uth_current, rq, state, ctx, waiters>>
  BY ZenonT(30) DEF Enter, uth_preempt_off
<1>4. l \notin SchedLabels
  BY ZenonT(30) DEF SchedLabels
<1>5. /\ c \in Tids /\ state[c] = "RUNNING" /\ Place(c) = from
      /\ \A t \in Tids : Place(t)' = IF t = c THEN l ELSE Place(t)
  BY <1>1, <1>3, <1>4, ThreadCode, ZenonT(30)
<1>6. \A t \in Tids : obj'[t] = IF t = c THEN o ELSE obj[t]
  BY <1>1, <1>3, ZenonT(30) DEF SchedInv, SchedTypeOK
<1>7. \A t \in Tids : Place(t)' \in SemLabels => obj'[t] \in Sems
  BY <1>5, <1>6, ZenonT(30) DEF SemIndInv, SemInv, SemLabels
<1>8. \A t \in Tids : state'[t] = "BLOCKED" /\ obj'[t] \in Sems =>
        Place(t)' \in {"sem_swap", "sem_check"}
  BY <1>3, <1>5, <1>6, ZenonT(30) DEF SemIndInv, SemInv
<1>9. from \notin {"sem_check", "sem_take", "post_wake"}
  BY ZenonT(30)
<1>10. \A s \in Sems : Takers(s) \subseteq Takers(s)'
  BY <1>3, <1>5, <1>6, <1>9, ZenonT(30) DEF Takers
<1> QED
  BY <1>2, <1>3, <1>7, <1>8, <1>9, <1>10, OtherSemStep, ZenonT(30)

\* A step of uth_spin_lock or uth_spin_unlock, whose code is not masked.
LEMMA SpinKeepsSem ==
  ASSUME SemIndInv, SchedInv', pc \in Unmasked, UNCHANGED value,
         UNCHANGED schedVars \/ \E l \in {"user", "spin_tas", "spin_yield"} : Goto(l)
  PROVE  SemIndInv'
<1> DEFINE c == uth_current
<1>1. /\ SchedInv
      /\ UNCHANGED <<uth_current, rq, state, ctx, waiters, obj>>
      /\ pc' = pc \/ pc' \in {"user", "spin_tas", "spin_yield"}
  BY ZenonT(30) DEF SemIndInv, schedVars, Goto
<1>2. pc \notin SemLabels /\ pc' \notin SemLabels /\ pc' \notin SchedLabels
  BY <1>1, ZenonT(30) DEF SemLabels, SchedLabels, Unmasked
<1>3. /\ Place(c) = pc
      /\ \A t \in Tids : Place(t)' = IF t = c THEN pc' ELSE Place(t)
  BY <1>1, <1>2, ThreadCode, ZenonT(30)
<1>4. c \in Tids /\ state[c] = "RUNNING"
  BY <1>1, ThreadCode, ZenonT(30)
<1>5. \A t \in Tids : Place(t)' \in SemLabels => obj'[t] \in Sems
  BY <1>1, <1>2, <1>3, ZenonT(30) DEF SemIndInv, SemInv
<1>6. \A t \in Tids : state'[t] = "BLOCKED" /\ obj'[t] \in Sems =>
        Place(t)' \in {"sem_swap", "sem_check"}
  BY <1>1, <1>3, <1>4, ZenonT(30) DEF SemIndInv, SemInv
<1>7. \A s \in Sems : Takers(s) \subseteq Takers(s)'
  BY <1>1, <1>2, <1>3, ZenonT(30) DEF Takers, SemLabels
<1>8. pc # "post_wake" /\ pc' \notin {"sem_take", "sem_block"}
  BY <1>2, ZenonT(30) DEF SemLabels
<1> QED
  BY <1>1, <1>5, <1>6, <1>7, <1>8, OtherSemStep, ZenonT(30)

\* Where the threads are while the processor goes from one label of a call
\* to the next.
LEMMA SemPlaces ==
  ASSUME SemIndInv, pc \in SemLabels \ {"sem_swap"}, pc' \notin SchedLabels,
         UNCHANGED <<uth_current, ctx>>
  PROVE  /\ SchedInv /\ pc \in Sections
         /\ uth_current \in Tids /\ state[uth_current] = "RUNNING"
         /\ Place(uth_current) = pc /\ obj[uth_current] \in Sems
         /\ \A t \in Tids : Place(t)' = IF t = uth_current THEN pc' ELSE Place(t)
<1>1. SchedInv /\ pc \in Sections
  BY ZenonT(30) DEF SemIndInv, SemLabels, Sections
<1>2. /\ uth_current \in Tids /\ state[uth_current] = "RUNNING"
      /\ Place(uth_current) = pc
      /\ \A t \in Tids : Place(t)' = IF t = uth_current THEN pc' ELSE Place(t)
  BY <1>1, ThreadCode, ZenonT(30)
<1>3. obj[uth_current] \in Sems
  BY <1>2, ZenonT(30) DEF SemIndInv, SemInv
<1> QED
  BY <1>1, <1>2, <1>3, ZenonT(30)

\* The test of the value.
LEMMA SemCheckInv ==
  ASSUME SemIndInv, sem_check
  PROVE  SemIndInv'
<1> DEFINE c == uth_current
           s == obj[c]
<1>1. /\ pc = "sem_check" /\ pc' = IF value[s] <= 0 THEN "sem_block" ELSE "sem_take"
      /\ UNCHANGED <<uth_current, rq, state, ctx, waiters, obj, frames, masked, value>>
  BY ZenonT(30) DEF sem_check, Goto, Obj
<1>2. /\ SchedInv /\ pc \in Sections /\ c \in Tids /\ state[c] = "RUNNING"
      /\ Place(c) = pc /\ s \in Sems
      /\ \A t \in Tids : Place(t)' = IF t = c THEN pc' ELSE Place(t)
  BY <1>1, SemPlaces, ZenonT(30) DEF SemLabels, SchedLabels
<1>3. SchedInv'
  <2>1. pc' \in Sections /\ Goto(pc')
    BY <1>1, ZenonT(30) DEF Sections, Goto
  <2> QED
    BY <1>2, <2>1, SectionStep, ZenonT(30)
<1> USE DEF SemIndInv
<1>4. SemTypeOK' /\ NeverNegative'
  BY <1>1, <1>3, ZenonT(30) DEF SemTypeOK, SchedInv, NeverNegative
<1>5. SemInv'
  <2>1. value[s] \in Int
    BY <1>2, ZenonT(30) DEF SemTypeOK
  <2> QED
    BY <1>1, <1>2, <2>1 DEF SemInv, SemLabels, Obj
<1>6. NoStrandedPermit'
  <2> SUFFICES ASSUME NEW r \in Sems, waiters[r] # <<>>
               PROVE  value[r] <= Cardinality(Takers(r)') + 0
    BY <1>1, ZenonT(30) DEF NoStrandedPermit
  <2>1. value[r] <= Cardinality(Takers(r)) + 0
    BY <1>1, ZenonT(30) DEF NoStrandedPermit
  <2>2. CASE r = s /\ value[s] <= 0
    <3>1. Takers(r)' \in SUBSET Tids
      BY ZenonT(30) DEF Takers
    <3>2. Cardinality(Takers(r)') \in Nat
      BY <3>1, Counting, ZenonT(30)
    <3>3. value[r] \in Int
      BY ZenonT(30) DEF SemTypeOK
    <3> QED
      BY <2>2, <3>2, <3>3
  <2>3. CASE ~(r = s /\ value[s] <= 0)
    <3>1. Takers(r)' = Takers(r)
      BY <1>1, <1>2, <2>3, ZenonT(30) DEF Takers
    <3> QED
      BY <2>1, <3>1, ZenonT(30)
  <2> QED
    BY <2>2, <2>3, ZenonT(30)
<1> QED
  BY <1>3, <1>4, <1>5, <1>6, ZenonT(30)

\* A thread that found no permit goes to sleep.
LEMMA SemBlockInv ==
  ASSUME SemIndInv, sem_block
  PROVE  SemIndInv'
<1> USE SchedulerAssumption, SemAssumption
<1> DEFINE c == uth_current
           s == obj[c]
<1>1. /\ pc = "sem_block" /\ pc' = "sem_swap" /\ uth_block(s, "sem_swap")
      /\ state' = [state EXCEPT ![c] = "BLOCKED"]
      /\ waiters' = [waiters EXCEPT ![s] = Append(@, c)]
      /\ obj' = [obj EXCEPT ![c] = s]
      /\ UNCHANGED <<uth_current, rq, ctx, frames, masked, value>>
  BY ZenonT(30) DEF sem_block, uth_block, Obj
<1>2. /\ SchedInv /\ pc \in Sections /\ c \in Tids /\ state[c] = "RUNNING"
      /\ Place(c) = pc /\ s \in Sems
      /\ \A t \in Tids : Place(t)' = IF t = c THEN pc' ELSE Place(t)
  BY <1>1, SemPlaces, ZenonT(30) DEF SemLabels, SchedLabels
<1>3. SchedInv'
  BY <1>1, <1>2, SwapLemma, BlockStep, ZenonT(30)
<1>4. UNCHANGED obj /\ \A t \in Tids : state'[t] = IF t = c THEN "BLOCKED" ELSE state[t]
  BY <1>1, <1>2, ZenonT(30) DEF SchedInv, SchedTypeOK
<1> USE DEF SemIndInv
<1>5. SemTypeOK' /\ NeverNegative'
  BY <1>1, <1>3, ZenonT(30) DEF SemTypeOK, SchedInv, NeverNegative
<1>6. SemInv'
  BY <1>1, <1>2, <1>4, ZenonT(30) DEF SemInv, SemLabels
<1>7. NoStrandedPermit'
  <2> SUFFICES ASSUME NEW r \in Sems, waiters'[r] # <<>>
               PROVE  value[r] <= Cardinality(Takers(r)') + 0
    BY <1>1, ZenonT(30) DEF NoStrandedPermit
  <2>1. Takers(r)' = Takers(r)
    BY <1>1, <1>2, <1>4, ZenonT(30) DEF Takers
  <2>2. value[r] \in Int /\ Takers(r) \in SUBSET Tids
    BY ZenonT(30) DEF SemTypeOK, Takers
  <2>3. Cardinality(Takers(r)) \in Nat
    BY <2>2, Counting, ZenonT(30)
  <2>4. CASE r = s
    <3>1. value[r] <= 0
      BY <1>1, <2>4, ZenonT(30) DEF SemInv, Obj
    <3> QED
      BY <2>1, <2>2, <2>3, <3>1
  <2>5. CASE r # s
    <3>1. waiters[r] # <<>>
      BY <1>1, <2>5, ZenonT(30) DEF SchedInv, SchedTypeOK
    <3> QED
      BY <1>1, <2>1, <3>1, ZenonT(30) DEF NoStrandedPermit
  <2> QED
    BY <2>4, <2>5, ZenonT(30)
<1> QED
  BY <1>3, <1>5, <1>6, <1>7, ZenonT(30)

\* A thread takes a permit.
LEMMA SemTakeInv ==
  ASSUME SemIndInv, sem_take
  PROVE  SemIndInv'
<1> DEFINE c == uth_current
           s == obj[c]
<1>1. /\ pc = "sem_take" /\ pc' = "leave" /\ value' = [value EXCEPT ![s] = @ - 1]
      /\ UNCHANGED <<uth_current, rq, state, ctx, waiters, obj, frames, masked>>
  BY ZenonT(30) DEF sem_take, Goto, Obj
<1>2. /\ SchedInv /\ pc \in Sections /\ c \in Tids /\ state[c] = "RUNNING"
      /\ Place(c) = pc /\ s \in Sems
      /\ \A t \in Tids : Place(t)' = IF t = c THEN pc' ELSE Place(t)
  BY <1>1, SemPlaces, ZenonT(30) DEF SemLabels, SchedLabels
<1>3. SchedInv'
  <2>1. pc' \in Sections /\ Goto(pc')
    BY <1>1, ZenonT(30) DEF Sections, Goto
  <2> QED
    BY <1>2, <2>1, SectionStep, ZenonT(30)
<1> USE DEF SemIndInv
<1>4. \A r \in Sems : value[r] \in Int /\ value'[r] = IF r = s THEN value[r] - 1 ELSE value[r]
  BY <1>1, <1>2, ZenonT(30) DEF SemTypeOK
<1>5. SemTypeOK'
  BY <1>1, <1>2, <1>3, <1>4 DEF SemTypeOK, SchedInv
<1>6. NeverNegative'
  <2>1. value[s] > 0
    BY <1>1, ZenonT(30) DEF SemInv, Obj
  <2> QED
    BY <1>2, <1>4, <2>1 DEF NeverNegative
<1>7. SemInv'
  BY <1>1, <1>2, ZenonT(30) DEF SemInv, SemLabels
<1>8. NoStrandedPermit'
  <2> SUFFICES ASSUME NEW r \in Sems, waiters[r] # <<>>
               PROVE  value'[r] <= Cardinality(Takers(r)') + 0
    BY <1>1, ZenonT(30) DEF NoStrandedPermit
  <2>1. value[r] <= Cardinality(Takers(r)) + 0 /\ Takers(r) \in SUBSET Tids
    BY <1>1, ZenonT(30) DEF NoStrandedPermit, Takers
  <2>2. CASE r = s
    <3>1. c \in Takers(r) /\ Takers(r)' = Takers(r) \ {c}
      BY <1>1, <1>2, <2>2, ZenonT(30) DEF Takers
    <3>2. Cardinality(Takers(r)') = Cardinality(Takers(r)) - 1 /\ Cardinality(Takers(r)) \in Nat
      BY <2>1, <3>1, Counting, ZenonT(30)
    <3> QED
      BY <1>4, <2>1, <2>2, <3>2
  <2>3. CASE r # s
    <3>1. Takers(r)' = Takers(r)
      BY <1>1, <1>2, <2>3, ZenonT(30) DEF Takers
    <3> QED
      BY <1>4, <2>1, <2>3, <3>1, ZenonT(30)
  <2> QED
    BY <2>2, <2>3, ZenonT(30)
<1> QED
  BY <1>3, <1>5, <1>6, <1>7, <1>8, ZenonT(30)

\* A permit is added ...
LEMMA PostIncInv ==
  ASSUME SemIndInv, post_inc
  PROVE  SemIndInv'
<1> DEFINE c == uth_current
           s == obj[c]
<1>1. /\ pc = "post_inc" /\ pc' = "post_wake" /\ value' = [value EXCEPT ![s] = @ + 1]
      /\ UNCHANGED <<uth_current, rq, state, ctx, waiters, obj, frames, masked>>
  BY ZenonT(30) DEF post_inc, Goto, Obj
<1>2. /\ SchedInv /\ pc \in Sections /\ c \in Tids /\ state[c] = "RUNNING"
      /\ Place(c) = pc /\ s \in Sems
      /\ \A t \in Tids : Place(t)' = IF t = c THEN pc' ELSE Place(t)
  BY <1>1, SemPlaces, ZenonT(30) DEF SemLabels, SchedLabels
<1>3. SchedInv'
  <2>1. pc' \in Sections /\ Goto(pc')
    BY <1>1, ZenonT(30) DEF Sections, Goto
  <2> QED
    BY <1>2, <2>1, SectionStep, ZenonT(30)
<1> USE DEF SemIndInv
<1>4. \A r \in Sems : value[r] \in Int /\ value'[r] = IF r = s THEN value[r] + 1 ELSE value[r]
  BY <1>1, <1>2, ZenonT(30) DEF SemTypeOK
<1>5. SemTypeOK'
  BY <1>1, <1>2, <1>3, <1>4 DEF SemTypeOK, SchedInv
<1>6. NeverNegative'
  BY <1>4 DEF NeverNegative
<1>7. SemInv'
  BY <1>1, <1>2, ZenonT(30) DEF SemInv, SemLabels
<1>8. NoStrandedPermit'
  <2> SUFFICES ASSUME NEW r \in Sems, waiters[r] # <<>>
               PROVE  value'[r] <= Cardinality(Takers(r)') + (IF r = s THEN 1 ELSE 0)
    BY <1>1, ZenonT(30) DEF NoStrandedPermit
  <2>1. value[r] <= Cardinality(Takers(r)) + 0 /\ Takers(r) \in SUBSET Tids
    BY <1>1, ZenonT(30) DEF NoStrandedPermit, Takers
  <2>2. Takers(r)' = Takers(r)
    BY <1>1, <1>2, ZenonT(30) DEF Takers
  <2>3. Cardinality(Takers(r)) \in Nat
    BY <2>1, Counting, ZenonT(30)
  <2> QED
    BY <1>4, <2>1, <2>2, <2>3
<1> QED
  BY <1>3, <1>5, <1>6, <1>7, <1>8, ZenonT(30)

\* ... and a sleeper is woken for it.
LEMMA PostWakeInv ==
  ASSUME SemIndInv, post_wake
  PROVE  SemIndInv'
<1> USE SchedulerAssumption, SemAssumption
<1> DEFINE c == uth_current
           s == obj[c]
           h == Head(waiters[s])
<1>1. /\ pc = "post_wake" /\ pc' = "leave" /\ uth_wake_one(s, "leave")
      /\ UNCHANGED <<uth_current, ctx, obj, frames, masked, value>>
  BY ZenonT(30) DEF post_wake, uth_wake_one, Goto, Obj
<1>2. /\ SchedInv /\ pc \in Sections /\ c \in Tids /\ state[c] = "RUNNING"
      /\ Place(c) = pc /\ s \in Sems
      /\ \A t \in Tids : Place(t)' = IF t = c THEN pc' ELSE Place(t)
  BY <1>1, SemPlaces, ZenonT(30) DEF SemLabels, SchedLabels
<1>3. SchedInv'
  BY <1>1, <1>2, WakeStep, ZenonT(30) DEF Sections
<1> USE DEF SemIndInv
<1>4. SemTypeOK' /\ NeverNegative'
  BY <1>1, <1>3, ZenonT(30) DEF SemTypeOK, SchedInv, NeverNegative
<1>5. CASE waiters[s] = <<>>
  <2>1. UNCHANGED <<state, waiters>>
    BY <1>5, ZenonT(30) DEF post_wake, uth_wake_one, Goto, Obj
  <2>2. SemInv'
    BY <1>1, <1>2, <2>1, ZenonT(30) DEF SemInv, SemLabels
  <2>3. NoStrandedPermit'
    <3> SUFFICES ASSUME NEW r \in Sems, waiters[r] # <<>>
                 PROVE  value[r] <= Cardinality(Takers(r)') + 0
      BY <1>1, <2>1, ZenonT(30) DEF NoStrandedPermit
    <3>1. Takers(r)' = Takers(r)
      BY <1>1, <1>2, <2>1, ZenonT(30) DEF Takers
    <3> QED
      BY <1>1, <1>5, <3>1, ZenonT(30) DEF NoStrandedPermit
  <2> QED
    BY <1>3, <1>4, <2>2, <2>3, ZenonT(30)
<1>6. CASE waiters[s] # <<>>
  <2>1. /\ waiters' = [waiters EXCEPT ![s] = Tail(@)]
        /\ state' = [state EXCEPT ![h] = "READY"]
    BY <1>6, ZenonT(30) DEF post_wake, uth_wake_one, uth_enqueue, Obj
  <2>2. waiters[s] \in Seq(Tids) /\ IsInjective(waiters[s])
    BY <1>2, ZenonT(30) DEF SchedInv, SchedTypeOK, QueueDiscipline
  <2>3. h \in Tids /\ h \in Range(waiters[s])
    BY <1>6, <2>2, PopLemma, ZenonT(30)
  <2>4. state[h] = "BLOCKED" /\ obj[h] = s /\ h # c
    BY <1>2, <2>3, ZenonT(30) DEF SchedInv, QueueDiscipline
  <2>5. Place(h) = "sem_check"
    <3>1. Place(h) \in {"sem_swap", "sem_check"} /\ Place(h) = ctx[h].pc /\ ctx[h].pc \in Resumable
      BY <1>2, <2>3, <2>4, ZenonT(30) DEF SemInv, Place, SchedInv, SchedTypeOK
    <3> QED
      BY <3>1, SwapLemma, ZenonT(30)
  <2>6. \A t \in Tids : state'[t] = IF t = h THEN "READY" ELSE state[t]
    BY <1>2, <2>1, ZenonT(30) DEF SchedInv, SchedTypeOK
  <2> HIDE DEF h
  <2>7. SemInv'
    BY <1>1, <1>2, <2>6, ZenonT(30) DEF SemInv, SemLabels
  <2>8. NoStrandedPermit'
    <3> SUFFICES ASSUME NEW r \in Sems, waiters'[r] # <<>>
                 PROVE  value[r] <= Cardinality(Takers(r)') + 0
      BY <1>1, ZenonT(30) DEF NoStrandedPermit
    <3>1. value[r] \in Int /\ Takers(r) \in SUBSET Tids
      BY ZenonT(30) DEF SemTypeOK, Takers
    <3>2. CASE r = s
      <4>1. Takers(r)' = Takers(r) \cup {h} /\ h \notin Takers(r)
        BY <1>1, <1>2, <2>3, <2>4, <2>5, <2>6, <3>2, ZenonT(30) DEF Takers
      <4>2. Cardinality(Takers(r)') = Cardinality(Takers(r)) + 1 /\ Cardinality(Takers(r)) \in Nat
        BY <2>3, <3>1, <4>1, Counting, ZenonT(30)
      <4>3. value[r] <= Cardinality(Takers(r)) + 1
        BY <1>1, <1>6, <3>2, ZenonT(30) DEF NoStrandedPermit
      <4> QED
        BY <3>1, <4>2, <4>3
    <3>3. CASE r # s
      <4>1. Takers(r)' = Takers(r)
        BY <1>1, <1>2, <2>3, <2>4, <2>6, <3>3, ZenonT(30) DEF Takers
      <4>2. waiters[r] # <<>>
        BY <1>2, <2>1, <3>3, ZenonT(30) DEF SchedInv, SchedTypeOK
      <4> QED
        BY <1>1, <3>3, <4>1, <4>2, ZenonT(30) DEF NoStrandedPermit
    <3> QED
      BY <3>2, <3>3, ZenonT(30)
  <2> QED
    BY <1>3, <1>4, <2>7, <2>8, ZenonT(30)
<1> QED
  BY <1>5, <1>6, ZenonT(30)

\* Every step of the program preserves the inductive invariant.
LEMMA SemNextInv == SemIndInv /\ [SemNext]_semSysVars => SemIndInv'
<1> SUFFICES ASSUME SemIndInv, [SemNext]_semSysVars PROVE SemIndInv'
  OBVIOUS
<1>1. CASE (SchedNext \/ Preempt) /\ UNCHANGED value
  BY <1>1, SemQuiet, ZenonT(30)
<1>2. CASE SemStep
  BY <1>2, SemCheckInv, SemBlockInv, SemTakeInv, PostIncInv, PostWakeInv, ZenonT(30) DEF SemStep
<1>3. CASE SemClient
  <2>1. ASSUME NEW s \in Sems, uth_sem_wait(s) \/ uth_sem_post(s)
        PROVE  SemIndInv'
    BY <2>1, SemEntry, SemAssumption DEF uth_sem_wait, uth_sem_post
  <2>2. CASE uth_yield("user", "user") /\ UNCHANGED value
    BY <2>2, SemEntry DEF uth_yield
  <2> QED
    BY <1>3, <2>1, <2>2, ZenonT(30) DEF SemClient
<1>4. CASE UNCHANGED semSysVars
  <2>1. UNCHANGED schedVars /\ UNCHANGED value
    BY <1>4, ZenonT(30) DEF semSysVars
  <2>2. SchedInv'
    BY <2>1, SchedStutter, ZenonT(30) DEF SemIndInv
  <2>3. NoStrandedPermit'
    BY <2>1, ZenonT(30) DEF SemIndInv, NoStrandedPermit, Takers, Place, OnCpu, schedVars
  <2>4. SemInv'
    BY <2>1, ZenonT(30) DEF SemIndInv, SemInv, Obj, Place, OnCpu, schedVars
  <2> QED
    BY <2>1, <2>2, <2>3, <2>4, ZenonT(30) DEF SemIndInv, SemTypeOK, NeverNegative, SchedInv
<1> QED
  BY <1>1, <1>2, <1>3, <1>4, ZenonT(30) DEF SemNext, SemCpuStep

-----------------------------------------------------------------------------
\* SemIndInv holds in every reachable state.
THEOREM SemCorrect == SemSpec => []SemIndInv
BY SemInitInv, SemNextInv, PTL DEF SemSpec

\* uth_sem_wait never takes a permit that is not there.
THEOREM SemNeverNegative == SemSpec => []NeverNegative
<1>1. SemIndInv => NeverNegative
  BY ZenonT(30) DEF SemIndInv
<1> QED
  BY <1>1, SemCorrect, PTL

\* uth_sem_post wakes enough threads: no permit is left over while a thread
\* sleeps on the semaphore.
THEOREM SemStrandsNothing == SemSpec => []NoStrandedPermit
<1>1. SemIndInv => NoStrandedPermit
  BY ZenonT(30) DEF SemIndInv
<1> QED
  BY <1>1, SemCorrect, PTL

-----------------------------------------------------------------------------
(* Threads that use both.                                                  *)

\* The code of the semaphore leaves every thread's spinlock argument alone.
LEMMA SemKeepsSpin ==
  ASSUME SpinIndInv, SemIndInv, SchedInv', SemStep, UNCHANGED spinVars
  PROVE  SpinIndInv'
<1>1. /\ pc \in SemLabels \ {"sem_swap"}
      /\ pc' \in {"sem_block", "sem_swap", "sem_take", "post_wake", "leave"}
      /\ UNCHANGED <<uth_current, ctx, frames>>
  BY ZenonT(30) DEF SemStep, sem_check, sem_block, sem_take, post_inc, post_wake, Goto,
                    uth_block, uth_wake_one, SemLabels
<1>2. pc' \notin SchedLabels /\ pc' \notin {"spin_tas", "spin_yield"}
  BY <1>1, ZenonT(30) DEF SchedLabels
<1>3. \A t \in Tids : Place(t)' = IF t = uth_current THEN pc' ELSE Place(t)
  BY <1>1, <1>2, SemPlaces, ZenonT(30)
<1>4. SpinTypeOK' /\ SpinExclusion'
  BY ZenonT(30) DEF SpinIndInv, SpinTypeOK, SpinExclusion, spinVars
<1>5. SpinInv'
  BY <1>1, <1>2, <1>3, ZenonT(30) DEF SpinIndInv, SpinInv, spinVars
<1> QED
  BY <1>4, <1>5, ZenonT(30) DEF SpinIndInv

\* Every step of the program preserves both inductive invariants.
LEMMA SpinSemNextInv ==
  SpinIndInv /\ SemIndInv /\ [SpinSemNext]_spinSemVars => SpinIndInv' /\ SemIndInv'
<1> SUFFICES ASSUME SpinIndInv, SemIndInv, [SpinSemNext]_spinSemVars
             PROVE  SpinIndInv' /\ SemIndInv'
  OBVIOUS
<1>0. {"user", "spin_tas", "spin_yield"} \subseteq Unmasked
  BY ZenonT(30) DEF Unmasked
<1>1. CASE (SchedNext \/ Preempt) /\ UNCHANGED <<spinVars, value>>
  BY <1>1, SpinQuiet, SemQuiet, ZenonT(30)
<1>2. ASSUME (\E s \in Spins : uth_spin_lock(s)) \/ spin_tas, UNCHANGED value
      PROVE  SpinIndInv' /\ SemIndInv'
  <2>1. SpinIndInv' /\ SchedInv'
    BY <1>2, SpinLockInv, ZenonT(30) DEF SpinIndInv
  <2>2. /\ pc \in {"user", "spin_tas"}
        /\ \E l \in {"user", "spin_tas", "spin_yield"} : Goto(l)
    BY <1>2, ZenonT(30) DEF uth_spin_lock, spin_tas, TestAndSet, Attempt, Got, Missed
  <2> QED
    BY <1>0, <1>2, <2>1, <2>2, SpinKeepsSem, ZenonT(30)
<1>3. CASE spin_yield /\ UNCHANGED value
  BY <1>3, SpinEntry, SemEntry DEF spin_yield, uth_yield
<1>4. ASSUME NEW s \in held[uth_current], uth_spin_unlock(s), UNCHANGED value
      PROVE  SpinIndInv' /\ SemIndInv'
  <2>1. SpinIndInv' /\ SchedInv'
    BY <1>4, SpinUnlockInv, ZenonT(30) DEF SpinIndInv
  <2>2. pc = "user" /\ UNCHANGED schedVars
    BY <1>4, ZenonT(30) DEF uth_spin_unlock
  <2> QED
    BY <1>0, <1>4, <2>1, <2>2, SpinKeepsSem, ZenonT(30)
<1>5. CASE uth_yield("user", "user") /\ UNCHANGED <<spinVars, value>>
  BY <1>5, SpinEntry, SemEntry DEF uth_yield
<1>6. CASE SemStep /\ UNCHANGED spinVars
  <2>1. SemIndInv' /\ SchedInv'
    BY <1>6, SemCheckInv, SemBlockInv, SemTakeInv, PostIncInv, PostWakeInv, ZenonT(30)
    DEF SemStep, SemIndInv
  <2> QED
    BY <1>6, <2>1, SemKeepsSpin, ZenonT(30)
<1>7. ASSUME NEW s \in Sems, uth_sem_wait(s) \/ uth_sem_post(s), UNCHANGED spinVars
      PROVE  SpinIndInv' /\ SemIndInv'
  BY <1>7, SpinEntry, SemEntry, SemAssumption DEF uth_sem_wait, uth_sem_post
<1>8. CASE UNCHANGED spinSemVars
  <2>1. [Next]_vars /\ [SemNext]_semSysVars
    BY <1>8, ZenonT(30) DEF spinSemVars, vars, semSysVars
  <2> QED
    BY <2>1, SpinNextInv, SemNextInv, ZenonT(30)
<1>9. CASE SpinSemClient
  BY <1>2, <1>4, <1>5, <1>7, <1>9, ZenonT(30) DEF SpinSemClient, Client
<1> QED
  BY <1>1, <1>2, <1>3, <1>6, <1>8, <1>9, ZenonT(30) DEF SpinSemNext, SpinSemCpuStep

\* Threads that use spinlocks and semaphores together keep both correct: a
\* spinlock has one holder, the value of a semaphore is never negative and no
\* permit is left over while a thread sleeps.
THEOREM SpinSemCorrect == SpinSemSpec => [](SpinIndInv /\ SemIndInv)
<1>1. SpinSemInit => SpinIndInv /\ SemIndInv
  BY SpinInitInv, SemInitInv, ZenonT(30) DEF SpinSemInit, Init, SemInit
<1> QED
  BY <1>1, SpinSemNextInv, PTL DEF SpinSemSpec

\* The spinlock is the abstract lock in a program that also sleeps on
\* semaphores.
THEOREM SpinSemRefines == SpinSemSpec => ImplementsLock
<1>1. SpinSemInit => SpinIsLock!Init
  BY ZenonT(30) DEF SpinSemInit, Init, SpinIsLock!Init, Holder
<1>2. SpinIndInv /\ SpinIndInv' /\ [SpinSemNext]_spinSemVars
        => [SpinIsLock!Next]_([s \in Spins |-> Holder(s)])
  BY SpinLockStep, ZenonT(30)
  DEF SpinSemNext, SpinSemCpuStep, SpinSemClient, Client, spin_yield, uth_spin_lock, spinVars,
      spinSemVars
<1> QED
  BY <1>1, <1>2, SpinSemCorrect, PTL DEF SpinSemSpec, ImplementsLock, SpinIsLock!Spec
=============================================================================
