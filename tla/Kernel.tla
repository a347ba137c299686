------------------------------- MODULE Kernel --------------------------------
(***************************************************************************)
(* The live kernel of src/main.rs and src/interrupt.rs on one processor:   *)
(* kernel_main from its self-tests on, the virtual timer, and the handlers *)
(* of interrupts and of synchronous exceptions from EL0.  A handler runs   *)
(* with interrupts masked and is one step.  What EL0 does is left to the   *)
(* modules that extend this one: Demo, which runs the programs of          *)
(* src/user.S, and AnyUser.                                                *)
(*                                                                         *)
(* The timer and the interrupt controller are hardware, modelled from the  *)
(* registers interrupt.rs programs.  The timer's interrupt is configured   *)
(* edge-triggered: once pending it stays so, whatever is done to the       *)
(* timer, until acknowledge or init clears it.                             *)
(***************************************************************************)
EXTENDS Runtime, Sequences, BootMap, SelfTest

CONSTANTS
  TICKS,         \* values of a u64 tick counter
  MaxSpurious,   \* bound: interrupts that are not the timer's
  MaxLate,       \* bound: handlers overtaken by the timer they restarted
  LetterB        \* the byte of the second call, b'B'

ASSUME KernelSizes ==
  /\ TICKS \in Nat \ {0} /\ MaxSpurious \in Nat /\ MaxLate \in Nat
  /\ LetterB \in Bytes

\* The processor state of an EL0 program: where it is, its stack, and one
\* register for the callee-saved x19 - x21, which share their fate.  "wild" is
\* an address in launch_user_demo.
Labels == {"none", "wild", "a.seed", "a.clear", "a.wait", "a.svc0", "a.svc10", "a.svc12",
           "a.store", "a.svc2", "b.seed", "b.store", "b.spin", "c.svc11", "c.idle"}
Contexts == [pc : Labels, sp : {"zero", "A", "B"}, x19 : {"zero", "junk", "A", "B"}]
EmptyContext == [pc |-> "none", sp |-> "zero", x19 |-> "zero"]

PREEMPT_TASK_A == 0
PREEMPT_TASK_B == 1

\* LIVE_SCHEDULER is a Scheduler<2>.
S == INSTANCE RoundRobin WITH TASKS <- 2

VARIABLES
  main,      \* where kernel_main is
  report,    \* what the self-tests printed, or None
  timer,     \* "off", "running", or "pending": expired, its interrupt not taken
  ticks,     \* TIMER_TICKS
  spurious,  \* interrupts so far that were not the timer's
  late,      \* stops of the timer so far that left its interrupt pending
  cpu,       \* the processor state of EL0, or what eret will load
  sched,     \* LIVE_SCHEDULER
  switches,  \* PREEMPT_SWITCHES
  rt,        \* RUNTIME
  uart       \* the bytes the console wrote

kernelVars ==
  <<main, report, timer, ticks, spurious, late, cpu, sched, switches, rt, uart>>

KernelType ==
  /\ main \in {"selftest", "init10", "arm10", "check", "sleep", "asleep", "setup",
               "init20", "arm20", "launch", "spsr", "eret", "stuck",
               "user", "halted", "reported", "panicked"}
  /\ report \in [DOMAIN Transcript -> BOOLEAN] \cup {None}
  /\ timer \in {"off", "running", "pending"}
  /\ ticks \in 0 .. TICKS - 1
  /\ spurious \in 0 .. MaxSpurious /\ late \in 0 .. MaxLate
  /\ cpu \in Contexts
  /\ sched \in S!SchedulerState
  /\ switches \in Nat
  /\ rt \in RuntimeState
  /\ uart \in Seq(Bytes)

\* boot.S has called kernel_main, with interrupts masked.
KernelInit ==
  /\ main = "selftest" /\ report = None
  /\ timer = "off" /\ ticks = 0 /\ spurious = 0 /\ late = 0
  /\ cpu = EmptyContext /\ sched = S!EmptyScheduler /\ switches = 0
  /\ rt = EmptyRuntime /\ uart = <<>>

-----------------------------------------------------------------------------
(* kernel_main *)

SelfTests ==
  /\ main = "selftest"
  /\ report' = Transcript
  /\ main' = IF UnwrapsSucceed THEN "init10" ELSE "panicked"
  /\ UNCHANGED <<timer, ticks, spurious, late, cpu, sched, switches, rt, uart>>

\* interrupt::init, called with 10 and later, interrupts enabled, with 20: first
\* the tick counter, then the controller and the timer, which unmask interrupts.
ResetTicks ==
  /\ main \in {"init10", "init20"}
  /\ ticks' = 0
  /\ main' = IF main = "init10" THEN "arm10" ELSE "arm20"
  /\ UNCHANGED <<report, timer, spurious, late, cpu, sched, switches, rt, uart>>

ArmTimer ==
  /\ main \in {"arm10", "arm20"}
  /\ timer' = "running"
  /\ main' = IF main = "arm10" THEN "check" ELSE "launch"
  /\ UNCHANGED <<report, ticks, spurious, late, cpu, sched, switches, rt, uart>>

\* The test of `while interrupt::ticks() < 3`, and its body.  wfi falls through
\* when an interrupt is pending and sleeps otherwise.
CheckTicks ==
  /\ main = "check"
  /\ main' = IF ticks < 3 THEN "sleep" ELSE "setup"
  /\ UNCHANGED <<report, timer, ticks, spurious, late, cpu, sched, switches, rt, uart>>

WaitForInterrupt ==
  /\ main = "sleep"
  /\ main' = IF timer = "pending" THEN "check" ELSE "asleep"
  /\ UNCHANGED <<report, timer, ticks, spurious, late, cpu, sched, switches, rt, uart>>

UserContext(pc, sp) == [pc |-> pc, sp |-> sp, x19 |-> "zero"]

SpawnedA == S!Spawn(S!EmptyScheduler, UserContext("a.seed", "A"))
SpawnedB == S!Spawn(SpawnedA, UserContext("b.seed", "B"))

\* The unwraps and assertions of runtime::initialize().unwrap() and of
\* initialize_live_scheduler
SetUpSucceeds ==
  /\ GrantsSucceed
  /\ S!Unused(S!EmptyScheduler) # {} /\ S!Unused(SpawnedA) # {}
  /\ S!FirstUnused(S!EmptyScheduler) = PREEMPT_TASK_A
  /\ S!FirstUnused(SpawnedA) = PREEMPT_TASK_B
  /\ S!Schedule(SpawnedB).current = PREEMPT_TASK_A

\* Neither touches what an interrupt in EL1 touches, so they are one step.
SetUp ==
  /\ main = "setup"
  /\ rt' = Bootstrapped
  /\ sched' = S!Schedule(SpawnedB)
  /\ switches' = 0
  /\ main' = IF SetUpSucceeds THEN "init20" ELSE "panicked"
  /\ UNCHANGED <<report, timer, ticks, spurious, late, cpu, uart>>

\* launch_user_demo writes SP_EL0 and ELR_EL1, then SPSR_EL1, then executes
\* eret; the other registers keep what the kernel left in them.
LoadEntry ==
  /\ main = "launch"
  /\ cpu' = [UserContext("a.seed", "A") EXCEPT !.x19 = "junk"]
  /\ main' = "spsr"
  /\ UNCHANGED <<report, timer, ticks, spurious, late, sched, switches, rt, uart>>

LoadMode ==
  /\ main = "spsr"
  /\ main' = "eret"
  /\ UNCHANGED <<report, timer, ticks, spurious, late, cpu, sched, switches, rt, uart>>

EnterUser ==
  /\ main = "eret"
  /\ main' = "user"
  /\ UNCHANGED <<report, timer, ticks, spurious, late, cpu, sched, switches, rt, uart>>

KernelMain ==
  \/ SelfTests \/ ResetTicks \/ ArmTimer \/ CheckTicks \/ WaitForInterrupt \/ SetUp
  \/ LoadEntry \/ LoadMode \/ EnterUser

-----------------------------------------------------------------------------
(* The timer and interrupts. *)

TimerExpires ==
  /\ timer = "running"
  /\ timer' = "pending"
  /\ UNCHANGED <<main, report, ticks, spurious, late, cpu, sched, switches, rt, uart>>

\* Where kernel_main goes on after an interrupt, and what eret will load for EL0
\* then.  The vector saves x0 - x30 only, so an interrupt overwrites ELR_EL1 and
\* SPSR_EL1.  If both had been written for EL0, eret returns to itself in EL1,
\* for ever; if only ELR_EL1 had, EL0 starts where the interrupt came.
Resumed ==
  CASE main = "asleep" -> "check"
    [] main = "eret" -> "stuck"
    [] OTHER -> main

Reloaded == IF main = "spsr" THEN [cpu EXCEPT !.pc = "wild"] ELSE cpu

\* Interrupts are masked.
Masked == main \in {"selftest", "init10", "arm10", "halted", "reported", "panicked"}

\* acknowledge restarts the timer.  When the handler then stops it, it may have
\* expired again.
Rearmed(stops) ==
  /\ timer' \in IF stops THEN {"off", "pending"} ELSE {"running"}
  /\ late' = IF timer' = "pending" THEN late + 1 ELSE late
  /\ late' <= MaxLate

\* irq_dispatch for the timer: the third tick stops it.
KernelTick ==
  /\ timer = "pending"
  /\ ~Masked /\ main # "user"
  /\ ticks' = (ticks + 1) % TICKS
  /\ Rearmed(ticks' = 3)
  /\ main' = Resumed /\ cpu' = Reloaded
  /\ UNCHANGED <<report, spurious, sched, switches, rt, uart>>

\* Either dispatcher for an interrupt that is not the timer's: stop_timer
UnknownInterrupt ==
  /\ ~Masked
  /\ spurious < MaxSpurious
  /\ spurious' = spurious + 1
  /\ timer' = IF timer = "pending" THEN "pending" ELSE "off"
  /\ main' = Resumed /\ cpu' = Reloaded
  /\ UNCHANGED <<report, ticks, late, sched, switches, rt, uart>>

\* Mutant of Switched: the stack pointer of the interrupted task stays.
SwitchedKeepsStack(old, saved) ==
  LET s == S!Schedule(S!SaveContext(old, old.current, saved))
  IN [sched |-> s, cpu |-> [s.tasks[s.current].context EXCEPT !.sp = saved.sp]]

\* Mutant of Switched: the interrupted task's registers are not saved.
SwitchedUnsaved(old, saved) ==
  LET s == S!Schedule(S!SaveContext(old, old.current,
                        [saved EXCEPT !.x19 = old.tasks[old.current].context.x19]))
  IN [sched |-> s, cpu |-> s.tasks[s.current].context]

\* schedule_lower_frame: save the interrupted context with the current task,
\* choose the next one and load its context.  Both tasks stay runnable, so
\* there is a current and a next one.
Switched(old, saved) ==
  LET s == S!Schedule(S!SaveContext(old, old.current, saved))
  IN [sched |-> s, cpu |-> s.tasks[s.current].context]

\* Mutant of StopsTimer: the timer is left running.
StopsNever(previous, next) == FALSE

\* Mutant of StopsTimer: the timer is stopped in every arm.
StopsAlways(previous, next) == TRUE

\* Whether lower_irq_dispatch stops the timer it has just restarted: all arms
\* but that of A -> B do.
StopsTimer(previous, next) ==
  ~(previous = PREEMPT_TASK_A /\ next = PREEMPT_TASK_B)

\* lower_irq_dispatch for the timer
UserTick ==
  LET r == Switched(sched, cpu)
  IN /\ timer = "pending"
     /\ main = "user"
     /\ ticks' = (ticks + 1) % TICKS
     /\ sched' = r.sched
     /\ cpu' = r.cpu
     /\ switches' = IF r.sched.current # sched.current THEN switches + 1 ELSE switches
     /\ Rearmed(StopsTimer(sched.current, r.sched.current))
     /\ UNCHANGED <<main, report, spurious, rt, uart>>

Interrupts == KernelTick \/ UserTick

-----------------------------------------------------------------------------
(* lower_sync_dispatch.  In each case `frame` is the EL0 state with the pc  *)
(* behind the instruction that trapped.                                     *)

\* Mutant of CallService: the register is not cut down to a byte.
CallServiceWide(frame, x0) ==
  LET r == AppCall(rt, x0)
  IN /\ rt' = r.rt
     /\ cpu' = IF r.out = "Ok" THEN [frame EXCEPT !.pc = "c.svc11", !.sp = "B"]
               ELSE frame
     /\ UNCHANGED <<main, report, timer, ticks, spurious, late, sched, switches, uart>>

\* svc #10, with x0 in the frame
CallService(frame, x0) ==
  LET r == AppCall(rt, x0 % BYTES)
  IN /\ rt' = r.rt
     /\ cpu' = IF r.out = "Ok" THEN [frame EXCEPT !.pc = "c.svc11", !.sp = "B"]
               ELSE frame
     /\ UNCHANGED <<main, report, timer, ticks, spurious, late, sched, switches, uart>>

\* svc #11
ReplyService(frame) ==
  LET r == ConsoleReplyAndRevoke(rt)
  IN /\ rt' = r.rt
     /\ uart' = IF r.out = "Ok" THEN Append(uart, rt.pending_byte) ELSE uart
     /\ cpu' = IF r.out = "Ok" THEN [frame EXCEPT !.pc = "a.svc12", !.sp = "A"]
               ELSE frame
     /\ UNCHANGED <<main, report, timer, ticks, spurious, late, sched, switches>>

\* svc #12: the second call, which only reports what came of it
RetryService(frame) ==
  /\ rt' = AppCall(rt, LetterB).rt
  /\ cpu' = frame
  /\ UNCHANGED <<main, report, timer, ticks, spurious, late, sched, switches, uart>>

\* svc #2 ends in an endless wfe.
Halt ==
  /\ main' = "halted"
  /\ UNCHANGED <<report, timer, ticks, spurious, late, cpu, sched, switches, rt, uart>>

\* Any other exception than a system call or a data abort: exception_report,
\* which ends in an endless wfe too
Report ==
  /\ main' = "reported"
  /\ UNCHANGED <<report, timer, ticks, spurious, late, cpu, sched, switches, rt, uart>>

\* svc #0 and every other immediate: back to EL0
NoService(frame) ==
  /\ cpu' = frame
  /\ UNCHANGED <<main, report, timer, ticks, spurious, late, sched, switches, rt, uart>>

\* A data abort resumes EL0 at the recovery label.
DataAbort(frame) ==
  /\ cpu' = [frame EXCEPT !.pc = "a.svc2"]
  /\ UNCHANGED <<main, report, timer, ticks, spurious, late, sched, switches, rt, uart>>

=============================================================================
