----------------------------- MODULE RoundRobin ------------------------------
(***************************************************************************)
(* The scheduler of src/scheduler.rs as a value: a fixed array of tasks    *)
(* and the task that runs.  Every public method of Scheduler that changes  *)
(* it is an operator from a scheduler to the scheduler it leaves behind.   *)
(***************************************************************************)
EXTENDS Integers, Option

CONSTANTS
  TASKS,         \* the const generic of Scheduler
  TICKS,         \* values of the u64 runtime_ticks counter, which wraps
  Contexts,      \* saved user contexts
  EmptyContext   \* UserContext::empty(), all zero

Tasks == 0 .. TASKS - 1

TaskState == {"Unused", "Runnable", "Blocked", "Faulted"}
Task == [state : TaskState, context : Contexts, runtime_ticks : 0 .. TICKS - 1]
SchedulerState == [tasks : [Tasks -> Task], current : Tasks \cup {None}]

ASSUME SchedulerSizes ==
  /\ TASKS \in Nat \ {0} /\ TICKS \in Nat \ {0}
  /\ EmptyContext \in Contexts

ASSUME SchedulerNone == None \notin Tasks

EmptyTask == [state |-> "Unused", context |-> EmptyContext, runtime_ticks |-> 0]
EmptyScheduler == [tasks |-> [t \in Tasks |-> EmptyTask], current |-> None]

Is(sch, t, state) == sch.tasks[t].state = state

-----------------------------------------------------------------------------
(* spawn takes the first unused entry. *)

Unused(sch) == {t \in Tasks : Is(sch, t, "Unused")}

FirstUnused(sch) == CHOOSE t \in Unused(sch) : \A u \in Unused(sch) : t <= u

\* spawn when there is an unused entry; otherwise it fails with NoTaskSlot.
Spawn(sch, context) ==
  [sch EXCEPT !.tasks[FirstUnused(sch)] =
     [state |-> "Runnable", context |-> context, runtime_ticks |-> 0]]

-----------------------------------------------------------------------------
(* schedule *)

\* Mutant of Start: the search begins with the task that just ran.
StartAtCurrent(sch) == IF sch.current = None THEN 0 ELSE sch.current

Start(sch) == IF sch.current = None THEN 0 ELSE (sch.current + 1) % TASKS

Candidate(sch, offset) == (Start(sch) + offset) % TASKS

\* Mutant of Ready: the search stops one short of a full turn.
ReadyShort(sch) ==
  {o \in 0 .. TASKS - 1 : o < TASKS - 1 /\ Is(sch, Candidate(sch, o), "Runnable")}

\* The offsets of runnable tasks; the loop stops at the smallest.
Ready(sch) == {o \in 0 .. TASKS - 1 : Is(sch, Candidate(sch, o), "Runnable")}

\* The task that runs next, or None when no task is runnable.
Chosen(sch) ==
  IF Ready(sch) = {} THEN None
  ELSE Candidate(sch, CHOOSE o \in Ready(sch) : \A p \in Ready(sch) : o <= p)

\* The task that ran is charged a tick if it could still run.
Charged(sch) ==
  IF sch.current # None /\ Is(sch, sch.current, "Runnable")
  THEN [sch.tasks EXCEPT ![sch.current].runtime_ticks = (@ + 1) % TICKS]
  ELSE sch.tasks

Schedule(sch) == [tasks |-> Charged(sch), current |-> Chosen(sch)]

-----------------------------------------------------------------------------
(* block, wake, fault and save_context fail with BadTask unless Spawned. *)

Spawned(sch, t) == t \in Tasks /\ ~Is(sch, t, "Unused")

SetState(sch, t, state) == [sch EXCEPT !.tasks[t].state = state]

SaveContext(sch, t, context) == [sch EXCEPT !.tasks[t].context = context]

=============================================================================
