----------------------------- MODULE Preemption -----------------------------
(***************************************************************************)
(* uth_preempt_enable and uth_preempt_disable of preempt.c: the interval   *)
(* timer, the disposition of SIGALRM and the flag preempt_enabled.         *)
(*                                                                         *)
(* The two functions are called by threads or by main (uth_current = NULL) *)
(* and do not mask SIGALRM, so a thread can be preempted between any two   *)
(* of their system calls; call[c] is how far caller c has got.  In this    *)
(* module the timer decides whether SIGALRM arrives, not Preemptive.       *)
(***************************************************************************)
EXTENDS Scheduler

CONSTANTS
  Intervals,    \* the arguments of uth_preempt_enable
  UsecPerMs,    \* 1000
  UsecPerSec,   \* 1000000
  UIntMod       \* 2^32

ASSUME PreemptionAssumption ==
  /\ Intervals \subseteq Nat
  /\ {UsecPerMs, UsecPerSec, UIntMod} \subseteq Nat \ {0}

VARIABLES
  timer,            \* the period of ITIMER_REAL in microseconds; 0: stopped
  handler,          \* the disposition of SIGALRM: "dfl" or "uth"
  alt_stack_mem,    \* the alternate signal stack is allocated
  alt_stack,        \* ... and installed
  preempt_enabled,
  call,             \* call[c]: the next step of caller c in one of the calls
  interval_ms,      \* interval_ms[c]: the argument of the call
  exited            \* how the process ended: "no", "exit" or "SIGALRM"

signalVars == <<timer, handler, alt_stack>>
preemptVars == <<signalVars, alt_stack_mem, preempt_enabled, call, interval_ms, exited>>
preemptSysVars == <<schedVars, preemptVars>>

Callers == Tids \cup {NULL}
Idle == [c \in Callers |-> "none"]

\* A step of the caller on the processor, from l to next.
CallStep(l, next) ==
  /\ exited = "no"
  /\ pc \in {"user", "main"}
  /\ call[uth_current] = l
  /\ call' = [call EXCEPT ![uth_current] = next]
  /\ UNCHANGED schedVars

-----------------------------------------------------------------------------
(* uth_preempt_enable.                                                     *)

uth_preempt_enable(ms) ==
  /\ CallStep("none", IF preempt_enabled THEN "none" ELSE "malloc")
  /\ interval_ms' = [interval_ms EXCEPT ![uth_current] = ms]
  /\ UNCHANGED <<signalVars, alt_stack_mem, preempt_enabled, exited>>

\* if (!alt_stack_mem): allocated once and kept.
malloc ==
  /\ CallStep("malloc", "sigaltstack")
  /\ alt_stack_mem' = TRUE
  /\ UNCHANGED <<signalVars, preempt_enabled, interval_ms, exited>>

sigaltstack ==
  /\ CallStep("sigaltstack", "sigaction")
  /\ alt_stack' = TRUE
  /\ UNCHANGED <<timer, handler, alt_stack_mem, preempt_enabled, interval_ms, exited>>

sigaction ==
  /\ CallStep("sigaction", "setitimer")
  /\ handler' = "uth"
  /\ UNCHANGED <<timer, alt_stack, alt_stack_mem, preempt_enabled, interval_ms, exited>>

\* interval_ms * 1000, an unsigned int.
tv_usec == (interval_ms[uth_current] * UsecPerMs) % UIntMod

\* The kernel refuses a second or more in tv_usec.
setitimer ==
  /\ tv_usec < UsecPerSec
  /\ CallStep("setitimer", "set_flag")
  /\ timer' = tv_usec
  /\ UNCHANGED <<handler, alt_stack, alt_stack_mem, preempt_enabled, interval_ms, exited>>

set_flag ==
  /\ CallStep("set_flag", "none")
  /\ preempt_enabled' = TRUE
  /\ UNCHANGED <<signalVars, alt_stack_mem, interval_ms, exited>>

\* malloc or a system call fails: perror and exit(1).
enable_fails ==
  /\ \E l \in {"malloc", "sigaltstack", "sigaction", "setitimer"} : CallStep(l, "none")
  /\ call[uth_current] = "malloc" => ~alt_stack_mem
  /\ call[uth_current] = "setitimer" => tv_usec >= UsecPerSec
  /\ exited' = "exit"
  /\ UNCHANGED <<signalVars, alt_stack_mem, preempt_enabled, interval_ms>>

-----------------------------------------------------------------------------
(* uth_preempt_disable.                                                    *)

uth_preempt_disable ==
  /\ CallStep("none", IF preempt_enabled THEN "stop_timer" ELSE "none")
  /\ UNCHANGED <<signalVars, alt_stack_mem, preempt_enabled, interval_ms, exited>>

\* (Mutant: the timer keeps running.)
stop_timer_skipped ==
  /\ CallStep("stop_timer", "default")
  /\ UNCHANGED <<signalVars, alt_stack_mem, preempt_enabled, interval_ms, exited>>
stop_timer ==
  /\ CallStep("stop_timer", "default")
  /\ timer' = 0
  /\ UNCHANGED <<handler, alt_stack, alt_stack_mem, preempt_enabled, interval_ms, exited>>

signal_default ==
  /\ CallStep("default", "clear_flag")
  /\ handler' = "dfl"
  /\ UNCHANGED <<timer, alt_stack, alt_stack_mem, preempt_enabled, interval_ms, exited>>

clear_flag ==
  /\ CallStep("clear_flag", "none")
  /\ preempt_enabled' = FALSE
  /\ UNCHANGED <<signalVars, alt_stack_mem, interval_ms, exited>>

-----------------------------------------------------------------------------
\* The timer expires where SIGALRM is not masked.  By default SIGALRM ends the
\* process.  (Where no thread is current the handler only returns.)
Alarm ==
  /\ exited = "no" /\ timer # 0
  /\ \/ handler = "uth" /\ uth_preempt_handler /\ UNCHANGED preemptVars
     \/ /\ handler = "dfl" /\ ~masked
        /\ exited' = "SIGALRM"
        /\ UNCHANGED <<schedVars, signalVars, alt_stack_mem, preempt_enabled, call, interval_ms>>

PreemptionStep ==
  \/ malloc
  \/ sigaltstack
  \/ sigaction
  \/ setitimer
  \/ set_flag
  \/ enable_fails
  \/ stop_timer
  \/ signal_default
  \/ clear_flag

\* A thread between its calls.
PreemptionClient ==
  \/ \E ms \in Intervals : uth_preempt_enable(ms)
  \/ uth_preempt_disable
  \/ exited = "no" /\ pc = "user" /\ call[uth_current] = "none"
       /\ uth_yield("user", "user") /\ UNCHANGED preemptVars

PreemptInit ==
  /\ timer = 0
  /\ handler = "dfl"
  /\ alt_stack_mem = FALSE
  /\ alt_stack = FALSE
  /\ preempt_enabled = FALSE
  /\ call = Idle
  /\ interval_ms = [c \in Callers |-> 0]
  /\ exited = "no"

PreemptionNext ==
  \/ exited = "no" /\ SchedNext /\ UNCHANGED preemptVars
  \/ PreemptionStep
  \/ PreemptionClient
  \/ Alarm

PreemptionSpec == SchedInit /\ PreemptInit /\ [][PreemptionNext]_preemptSysVars

-----------------------------------------------------------------------------
(* Properties.                                                             *)

\* "Start/stop the SIGALRM-based preemption timer" (uthreads.h): when no call
\* is in progress, preemption is either started (the flag, on which the next
\* call depends, is set, the timer runs and its signal is handled) or stopped;
\* and the signal never ends the process.
StartedOrStopped ==
  /\ exited # "SIGALRM"
  /\ call = Idle /\ exited = "no" =>
       <<preempt_enabled, timer # 0, handler>> \in {<<TRUE, TRUE, "uth">>, <<FALSE, FALSE, "dfl">>}

\* "setitimer(ITIMER_REAL, ...) fires SIGALRM every `interval_ms` ms"
\* (preempt.c), for every "interval_ms > 0" (uthreads.h): a call of
\* uth_preempt_enable that gets to setitimer starts a timer with the period it
\* was asked for.
PeriodIsInterval ==
  [][\A c \in Callers :
       call[c] = "setitimer" /\ call'[c] # "setitimer"
         => timer' = interval_ms[c] * UsecPerMs]_preemptSysVars

\* SIGALRM arrives only where its handler and the stack it runs on are in
\* place: the timer is started last and stopped first.  Otherwise the signal
\* would end the process.
AlarmIsHandled == timer # 0 => handler = "uth" /\ alt_stack
=============================================================================
