------------------------------ MODULE Scheduler ------------------------------
(***************************************************************************)
(* One Scheduler of src/scheduler.rs and every sequence of calls to it.    *)
(* schedule is called by the interrupt handler of src/main.rs for as long  *)
(* as the timer is armed.  A history variable counts, for every runnable   *)
(* task, the schedule calls that passed it over.                           *)
(***************************************************************************)
EXTENDS RoundRobin

VARIABLES
  sch,      \* the scheduler
  timer,    \* whether the timer is armed whose interrupts call schedule
  passed    \* passed[t]: schedule calls since t became runnable or last ran

schedVars == <<sch, timer, passed>>

SchedTypeOK ==
  /\ sch \in SchedulerState
  /\ timer \in BOOLEAN
  /\ passed \in [Tasks -> 0 .. TASKS]

SchedInit ==
  /\ sch = EmptyScheduler
  /\ timer = FALSE
  /\ passed = [t \in Tasks |-> 0]

\* interrupt::init, before EL0 is entered.
ArmTimer == timer' = TRUE /\ UNCHANGED <<sch, passed>>

\* interrupt::stop_timer: the handler stops its own timer after a switch it was
\* waiting for, and after anything unexpected.
StopTimer == timer' = FALSE /\ UNCHANGED <<sch, passed>>

\* A task whose state is written starts waiting anew.
Restart(t) == passed' = [passed EXCEPT ![t] = 0]

DoSpawn(context) ==
  /\ Unused(sch) # {}
  /\ sch' = Spawn(sch, context)
  /\ Restart(FirstUnused(sch))
  /\ UNCHANGED timer

\* Mutant of DoSchedule: a task that runs is left running until it blocks.
DoScheduleIdle ==
  /\ sch.current # None => ~Is(sch, sch.current, "Runnable")
  /\ sch' = Schedule(sch)
  /\ passed' = [t \in Tasks |->
       IF ~Is(sch, t, "Runnable") \/ t = sch'.current THEN 0
       ELSE IF passed[t] = TASKS THEN TASKS ELSE passed[t] + 1]
  /\ UNCHANGED timer

\* The count stops at TASKS, where BoundedWaiting is broken already.
DoSchedule ==
  /\ sch' = Schedule(sch)
  /\ passed' = [t \in Tasks |->
       IF ~Is(sch, t, "Runnable") \/ t = sch'.current THEN 0
       ELSE IF passed[t] = TASKS THEN TASKS ELSE passed[t] + 1]
  /\ UNCHANGED timer

\* Waking a task that is runnable already changes nothing.
DoWake(t) ==
  /\ Spawned(sch, t)
  /\ sch' = SetState(sch, t, "Runnable")
  /\ IF Is(sch, t, "Runnable") THEN UNCHANGED passed ELSE Restart(t)
  /\ UNCHANGED timer

DoBlock(t) ==
  /\ Spawned(sch, t)
  /\ sch' = SetState(sch, t, "Blocked")
  /\ Restart(t) /\ UNCHANGED timer

DoFault(t) ==
  /\ Spawned(sch, t)
  /\ sch' = SetState(sch, t, "Faulted")
  /\ Restart(t) /\ UNCHANGED timer

DoSaveContext(t, context) ==
  /\ Spawned(sch, t)
  /\ sch' = SaveContext(sch, t, context)
  /\ UNCHANGED <<timer, passed>>

SchedNext ==
  \/ \E c \in Contexts : DoSpawn(c)
  \/ DoSchedule
  \/ \E t \in Tasks : DoWake(t) \/ DoBlock(t) \/ DoFault(t)
  \/ \E t \in Tasks, c \in Contexts : DoSaveContext(t, c)
  \/ ArmTimer
  \/ StopTimer

\* An armed timer fires and its handler calls schedule.  Nothing obliges anybody
\* to arm it, or to call schedule once it is stopped.
SchedSpec ==
  SchedInit /\ [][SchedNext]_schedVars /\ WF_schedVars(timer /\ DoSchedule)

-----------------------------------------------------------------------------
(* Properties. *)

\* Bounded waiting: a task that stays runnable is passed over by fewer than
\* TASKS schedule calls, whatever is blocked, woken, faulted or spawned
\* meanwhile.
BoundedWaiting == \A t \in Tasks : passed[t] < TASKS

\* schedule leaves the processor idle only when nothing can run, and never
\* picks a task that cannot.
ScheduleNeverIdlesWrongly ==
  [][sch' = Schedule(sch) =>
       IF sch'.current = None THEN \A t \in Tasks : ~Is(sch, t, "Runnable")
       ELSE Is(sch, sch'.current, "Runnable")]_schedVars

\* Round robin is starvation free while it is driven: a task that is runnable
\* from some moment on, with the timer armed, runs again and again.
NoStarvation ==
  \A t \in Tasks :
    <>[](timer /\ Is(sch, t, "Runnable")) => []<>(sch.current = t)

=============================================================================
