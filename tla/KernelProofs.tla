---------------------------- MODULE KernelProofs -----------------------------
(***************************************************************************)
(* The live kernel under arbitrary EL0 code, for every size of its store,  *)
(* of its IPC and of its counters that Runtime and Kernel allow.           *)
(***************************************************************************)
EXTENDS AnyUser, RuntimeProofs

-----------------------------------------------------------------------------
(* The inductive invariant: where the parts of the kernel are together. *)

\* Both tasks of the live scheduler can run, and one does.
Paired(s) ==
  /\ s \in S!SchedulerState
  /\ S!Is(s, PREEMPT_TASK_A, "Runnable") /\ S!Is(s, PREEMPT_TASK_B, "Runnable")
  /\ s.current \in {PREEMPT_TASK_A, PREEMPT_TASK_B}

Booting == {"selftest", "init10", "arm10", "check", "sleep", "asleep", "setup"}
Launching == {"init20", "arm20", "launch", "spsr", "eret", "stuck"}
Running == {"user", "halted", "reported"}

\* What a byte on the UART says of the runtime.
Console(r, bytes) ==
  \/ (Ready(r) \/ Serving(r)) /\ bytes = <<>>
  \/ Served(r) /\ bytes # <<>>

\* A service leaves the runtime r as it was, or hands the processor over; handing
\* it back to the app, it has revoked its capability and written the byte.
Whole(r, bytes, after, written) ==
  \/ after = r
  \/ /\ after.current_task # r.current_task
     /\ after.current_task = APP_TASK =>
          /\ after.capabilities.spaces[APP_TASK][ENDPOINT_SLOT] = None
          /\ written = Append(bytes, r.pending_byte)

\* Where kernel_main is says what it has set up: nothing while it boots, the granted
\* store and the two tasks from its set-up on, and in EL0 one of the three states
\* of the exchange.
KernelInv ==
  /\ KernelType
  /\ main # "panicked"
  /\ main # "selftest" => report = Passed
  /\ main \in Booting => rt = EmptyRuntime /\ uart = <<>>
  /\ main \in Launching => rt = Bootstrapped /\ uart = <<>>
  /\ main \in Running => Console(rt, uart)
  /\ main \notin Booting => Paired(sched)

-----------------------------------------------------------------------------
(* The live scheduler, of two tasks. *)

\* The entries of the scheduler.
LEMMA TwoTasks ==
  /\ S!Tasks = {PREEMPT_TASK_A, PREEMPT_TASK_B}
  /\ PREEMPT_TASK_A = 0 /\ PREEMPT_TASK_B = 1 /\ None # 0 /\ None # 1
  BY RuntimeSizes, IpcSizesAssumption, IpcNoneAssumption
     DEF S!Tasks, PREEMPT_TASK_A, PREEMPT_TASK_B, Threads

\* The search begins with the task at Start, and ends there if it can run.
LEMMA ChosenFirst ==
  ASSUME NEW v, NEW k \in {0, 1}, S!Start(v) = k, S!Is(v, k, "Runnable")
  PROVE  S!Chosen(v) = k
<1> DEFINE F == S!Ready(v)
           o == CHOOSE o \in F : \A p \in F : o <= p
<1>1. (k + 0) % 2 = k
  OBVIOUS
<1>2. S!Candidate(v, 0) = k
  BY <1>1, Zenon DEF S!Candidate
<1>3. F \in SUBSET Nat /\ 0 \in F /\ \A j \in F : 0 <= j
  BY <1>2 DEF S!Ready
<1> HIDE DEF F
<1>4. o = 0
  BY <1>3, FirstOf
<1>5. F # {}
  BY <1>3
<1>6. S!Chosen(v) = S!Candidate(v, o)
  BY <1>5, Zenon DEF S!Chosen, F
<1> QED
  BY <1>2, <1>4, <1>6, Zenon

\* A tick is charged to a task: its state and its context stay.
LEMMA Charging ==
  ASSUME NEW v \in S!SchedulerState
  PROVE  /\ S!Charged(v) \in [S!Tasks -> S!Task]
         /\ \A t \in S!Tasks : /\ S!Charged(v)[t].state = v.tasks[t].state
                               /\ S!Charged(v)[t].context = v.tasks[t].context
<1> DEFINE c == v.current
           w == [v.tasks EXCEPT ![c].runtime_ticks = (@ + 1) % TICKS]
<1>1. v.tasks \in [S!Tasks -> S!Task] /\ c \in S!Tasks \cup {None}
  BY DEF S!SchedulerState
<1>2. CASE ~(c # None /\ S!Is(v, c, "Runnable"))
  <2>1. S!Charged(v) = v.tasks
    BY <1>2, Zenon DEF S!Charged
  <2> QED
    BY <1>1, <2>1
<1>3. CASE c # None /\ S!Is(v, c, "Runnable")
  <2>1. S!Charged(v) = w
    BY <1>3, Zenon DEF S!Charged
  <2>2. c \in S!Tasks /\ v.tasks[c] \in S!Task
    BY <1>1, <1>3
  <2> HIDE DEF c
  <2> DEFINE n == (v.tasks[c].runtime_ticks + 1) % TICKS
             W == [v.tasks[c] EXCEPT !.runtime_ticks = n]
  <2>3. n \in 0 .. TICKS - 1
    BY <2>2, KernelSizes DEF S!Task
  <2>4. w = [v.tasks EXCEPT ![c] = W]
    OBVIOUS
  <2> HIDE DEF n
  <2>5. W \in S!Task /\ W.state = v.tasks[c].state /\ W.context = v.tasks[c].context
    BY <2>2, <2>3 DEF S!Task
  <2> HIDE DEF W, w
  <2> QED
    BY <1>1, <2>1, <2>2, <2>4, <2>5
<1> QED
  BY <1>2, <1>3

\* schedule_lower_frame changes over to the other task: the interrupted context
\* is the one saved, and the other task's the one loaded.
Exchanged(s, saved, x) ==
  LET other == IF s.current = PREEMPT_TASK_A THEN PREEMPT_TASK_B ELSE PREEMPT_TASK_A
  IN /\ Paired(x.sched) /\ x.sched.current = other
     /\ x.cpu \in Contexts /\ x.cpu = s.tasks[other].context
     /\ x.sched.tasks[s.current].context = saved

\* With both tasks runnable, schedule finds the one that is not current.
LEMMA SwitchExchanges ==
  ASSUME NEW s, Paired(s), NEW saved \in Contexts, NEW x, x = Switched(s, saved)
  PROVE  Exchanged(s, saved, x)
<1> DEFINE c == s.current
           o == IF c = PREEMPT_TASK_A THEN PREEMPT_TASK_B ELSE PREEMPT_TASK_A
           V == [s.tasks[c] EXCEPT !.context = saved]
           v == [s EXCEPT !.tasks[c] = V]
           z == S!Schedule(v)
<1>1. /\ s \in S!SchedulerState /\ c \in S!Tasks /\ c # None
      /\ s.tasks \in [S!Tasks -> S!Task]
      /\ \A t \in S!Tasks : s.tasks[t].state = "Runnable"
  BY TwoTasks, SMTT(30) DEF Paired, S!Is, S!SchedulerState
<1>2. o \in S!Tasks /\ o # c /\ o \in {0, 1} /\ (c + 1) % 2 = o
      /\ \A t \in S!Tasks : t = c \/ t = o
  BY <1>1, TwoTasks
<1> HIDE DEF c, o
<1>3. s.tasks[c] \in S!Task
  BY <1>1
<1>4. V \in S!Task /\ V.context = saved /\ V.state = "Runnable"
  BY <1>1, <1>3 DEF S!Task
<1>5. v = S!SaveContext(s, c, saved)
  BY DEF S!SaveContext
<1> HIDE DEF V
<1>6. /\ v \in S!SchedulerState /\ v.current = c
      /\ v.tasks[c] = V /\ v.tasks[o] = s.tasks[o]
  <2>1. s.current = c
    BY Zenon DEF c
  <2> QED
    BY <1>1, <1>2, <1>4, <2>1 DEF S!SchedulerState
<1> HIDE DEF v
<1>7. S!Start(v) = o
  BY <1>1, <1>2, <1>6, Zenon DEF S!Start
<1>8. S!Is(v, o, "Runnable")
  BY <1>1, <1>2, <1>6 DEF S!Is
<1>9. S!Chosen(v) = o
  BY <1>2, <1>7, <1>8, ChosenFirst
<1>10. z.tasks = S!Charged(v) /\ z.current = o
       /\ z = [tasks |-> S!Charged(v), current |-> o]
  BY <1>9 DEF S!Schedule
<1>11. /\ z.tasks \in [S!Tasks -> S!Task]
       /\ z.tasks[c].state = "Runnable" /\ z.tasks[c].context = saved
       /\ z.tasks[o].state = "Runnable" /\ z.tasks[o].context = s.tasks[o].context
  BY <1>1, <1>2, <1>4, <1>6, <1>10, Charging
<1>12. z \in S!SchedulerState
  BY <1>2, <1>10, <1>11 DEF S!SchedulerState
<1> HIDE DEF z
<1>13. \A t \in S!Tasks : z.tasks[t].state = "Runnable"
  BY <1>2, <1>11
<1>14. Paired(z)
  BY <1>2, <1>10, <1>12, <1>13, TwoTasks DEF Paired, S!Is
<1>15. s.tasks[o].context \in Contexts
  BY <1>1, <1>2 DEF S!Task
<1>16. x = [sched |-> z, cpu |-> z.tasks[o].context]
  BY <1>5, <1>10, Zenon DEF Switched, z, c
<1>17. x.sched = z /\ x.cpu = z.tasks[o].context
  BY <1>16
<1> QED
  BY <1>10, <1>11, <1>14, <1>15, <1>17, Zenon DEF Exchanged, c, o

\* The first two spawns of a scheduler take its two entries, in order.
LEMMA SpawnedTasks ==
  /\ S!Unused(S!EmptyScheduler) # {} /\ S!FirstUnused(S!EmptyScheduler) = 0
  /\ S!Unused(SpawnedA) # {} /\ S!FirstUnused(SpawnedA) = 1
  /\ SpawnedB \in S!SchedulerState /\ SpawnedB.current = None
  /\ \A t \in S!Tasks : SpawnedB.tasks[t].state = "Runnable"
  /\ SpawnedB.tasks[1].context = UserContext("b.seed", "B")
<1> DEFINE e == S!EmptyScheduler
           P == [state |-> "Runnable", context |-> UserContext("a.seed", "A"),
                 runtime_ticks |-> 0]
           Q == [state |-> "Runnable", context |-> UserContext("b.seed", "B"),
                 runtime_ticks |-> 0]
<1>1. S!Tasks = {0, 1}
  BY TwoTasks
<1>2. /\ S!EmptyTask \in S!Task /\ S!EmptyTask.state = "Unused"
      /\ P \in S!Task /\ P.state = "Runnable"
      /\ Q \in S!Task /\ Q.state = "Runnable" /\ Q.context = UserContext("b.seed", "B")
  <2>1. 0 \in 0 .. TICKS - 1
    BY KernelSizes
  <2>2. EmptyContext \in Contexts
    BY DEF EmptyContext, Contexts, Labels
  <2>3. UserContext("a.seed", "A") \in Contexts /\ UserContext("b.seed", "B") \in Contexts
    BY DEF UserContext, Contexts, Labels
  <2> QED
    BY <2>1, <2>2, <2>3 DEF S!EmptyTask, S!Task, S!TaskState
<1> HIDE DEF P, Q
<1>3. /\ e \in S!SchedulerState /\ e.current = None
      /\ e.tasks[0] = S!EmptyTask /\ e.tasks[1] = S!EmptyTask
  BY <1>1, <1>2 DEF S!EmptyScheduler, S!SchedulerState
<1>4. S!Unused(e) \in SUBSET Nat /\ 0 \in S!Unused(e) /\ \A j \in S!Unused(e) : 0 <= j
  BY <1>1, <1>2, <1>3 DEF S!Unused, S!Is
<1>5. S!FirstUnused(e) = 0
  <2> DEFINE F == S!Unused(e)
  <2>1. S!FirstUnused(e) = CHOOSE t \in F : \A u \in F : t <= u
    BY Zenon DEF S!FirstUnused
  <2> HIDE DEF F
  <2>2. F \in SUBSET Nat /\ 0 \in F /\ \A j \in F : 0 <= j
    BY <1>4, Zenon DEF F
  <2>3. (CHOOSE t \in F : \A u \in F : t <= u) = 0
    BY <2>2, FirstOf
  <2> QED
    BY <2>1, <2>3, Zenon
<1> HIDE DEF e
<1>6. SpawnedA = [e EXCEPT !.tasks[0] = P]
  BY <1>5, Zenon DEF SpawnedA, S!Spawn, e, P
<1>7. /\ SpawnedA \in S!SchedulerState /\ SpawnedA.current = None
      /\ SpawnedA.tasks[0] = P /\ SpawnedA.tasks[1] = S!EmptyTask
  BY <1>1, <1>2, <1>3, <1>6 DEF S!SchedulerState
<1>8. /\ S!Unused(SpawnedA) \in SUBSET Nat /\ 1 \in S!Unused(SpawnedA)
      /\ \A j \in S!Unused(SpawnedA) : 1 <= j
  BY <1>1, <1>2, <1>7 DEF S!Unused, S!Is
<1>9. S!FirstUnused(SpawnedA) = 1
  <2> DEFINE F == S!Unused(SpawnedA)
  <2>1. S!FirstUnused(SpawnedA) = CHOOSE t \in F : \A u \in F : t <= u
    BY Zenon DEF S!FirstUnused
  <2> HIDE DEF F
  <2>2. F \in SUBSET Nat /\ 1 \in F /\ \A j \in F : 1 <= j
    BY <1>8, Zenon DEF F
  <2>3. (CHOOSE t \in F : \A u \in F : t <= u) = 1
    BY <2>2, FirstOf
  <2> QED
    BY <2>1, <2>3, Zenon
<1>10. SpawnedB = [SpawnedA EXCEPT !.tasks[1] = Q]
  BY <1>9, Zenon DEF SpawnedB, S!Spawn, Q
<1>11. /\ SpawnedB \in S!SchedulerState /\ SpawnedB.current = None
       /\ SpawnedB.tasks[0] = P /\ SpawnedB.tasks[1] = Q
  BY <1>1, <1>2, <1>7, <1>10 DEF S!SchedulerState
<1>12. \A t \in S!Tasks : SpawnedB.tasks[t].state = "Runnable"
  BY <1>1, <1>2, <1>11
<1>13. S!Unused(e) # {} /\ S!Unused(SpawnedA) # {}
  BY <1>4, <1>8
<1> QED
  BY <1>2, <1>5, <1>9, <1>11, <1>12, <1>13 DEF e

\* initialize_live_scheduler: both tasks can run, A is current, and the context
\* B starts from is saved.
LEMMA SetUpWorks ==
  /\ SetUpSucceeds /\ Paired(S!Schedule(SpawnedB))
  /\ S!Schedule(SpawnedB).current = PREEMPT_TASK_A
  /\ S!Schedule(SpawnedB).tasks[PREEMPT_TASK_B].context = UserContext("b.seed", "B")
<1> DEFINE v == SpawnedB
           z == S!Schedule(v)
<1>1. /\ v \in S!SchedulerState /\ v.current = None
      /\ \A t \in S!Tasks : v.tasks[t].state = "Runnable"
      /\ v.tasks[1].context = UserContext("b.seed", "B")
  BY SpawnedTasks, Zenon
<1> HIDE DEF v
<1>2. S!Start(v) = 0 /\ S!Is(v, 0, "Runnable")
  BY <1>1, TwoTasks DEF S!Start, S!Is
<1>3. S!Chosen(v) = 0
  BY <1>2, ChosenFirst
<1>4. /\ z = [tasks |-> S!Charged(v), current |-> 0]
      /\ z.tasks = S!Charged(v) /\ z.current = 0
  BY <1>3 DEF S!Schedule
<1> HIDE DEF z
<1>5. /\ z.tasks \in [S!Tasks -> S!Task]
      /\ \A t \in S!Tasks : z.tasks[t].state = "Runnable"
      /\ z.tasks[1].context = UserContext("b.seed", "B")
  BY <1>1, <1>4, TwoTasks, Charging
<1>6. z \in S!SchedulerState
  BY <1>4, <1>5, TwoTasks DEF S!SchedulerState
<1>7. Paired(z)
  BY <1>4, <1>5, <1>6, TwoTasks DEF Paired, S!Is
<1>8. GrantsSucceed
  BY GrantsDone, Zenon
<1>9. SetUpSucceeds
  BY <1>4, <1>8, SpawnedTasks, TwoTasks, Zenon DEF SetUpSucceeds, z, v
<1> QED
  BY <1>4, <1>5, <1>7, <1>9, TwoTasks, Zenon DEF z, v

-----------------------------------------------------------------------------
(* The steps of the kernel. *)

\* Places of kernel_main between which nothing is set up.
Stays(m, n) ==
  \/ m \in Booting \ {"selftest"} /\ n \in Booting \ {"selftest"}
  \/ m \in Launching /\ n \in Launching
  \/ m \in Running /\ n \in Running

\* Every place of kernel_main but that after a panic is in one of three parts.
LEMMA Places ==
  ASSUME KernelInv
  PROVE  /\ main \in Booting \cup Launching \cup Running
         /\ rt \in RuntimeState /\ KernelType
  BY Zenon DEF KernelInv, KernelType, Booting, Launching, Running

\* A step that leaves the runtime, the UART and the scheduler alone.
LEMMA KernelStays ==
  ASSUME KernelInv, KernelType', Stays(main, main'),
         UNCHANGED <<report, sched, rt, uart>>
  PROVE  KernelInv'
<1>1. report' = report /\ sched' = sched /\ rt' = rt /\ uart' = uart
  OBVIOUS
<1>2. main' # "panicked" /\ main # "selftest" /\ main' # "selftest"
  BY DEF Stays, Booting, Launching, Running
<1>3. /\ main' \in Booting <=> main \in Booting
      /\ main' \in Launching <=> main \in Launching
      /\ main' \in Running <=> main \in Running
  BY DEF Stays, Booting, Launching, Running
<1>4. Paired(sched)' <=> Paired(sched)
  BY <1>1 DEF Paired
<1>5. Console(rt, uart)' <=> Console(rt, uart)
  BY <1>1 DEF Console, Ready, Serving, Served
<1> QED
  BY <1>1, <1>2, <1>3, <1>4, <1>5, Zenon DEF KernelInv

\* Where an interrupt lets kernel_main go on.
LEMMA Resumes ==
  ASSUME KernelInv, ~Masked
  PROVE  /\ Stays(main, Resumed)
         /\ Resumed \in Booting \cup Launching \cup Running
         /\ Reloaded \in Contexts
<1>1. main \in (Booting \cup Launching \cup Running) \ {"selftest"}
  BY Places DEF Masked
<1>2. Resumed = IF main = "asleep" THEN "check"
                ELSE IF main = "eret" THEN "stuck" ELSE main
  BY DEF Resumed
<1>3. Stays(main, Resumed)
  BY <1>1, <1>2 DEF Stays, Booting, Launching, Running
<1>4. Reloaded \in Contexts
  BY DEF KernelInv, KernelType, Reloaded, Contexts, Labels
<1> QED
  BY <1>3, <1>4 DEF Stays

\* app_call keeps the console's story, and changes the runtime only by handing
\* the processor over; once a byte is on the UART it changes nothing.
LEMMA CallKeeps ==
  ASSUME NEW r, NEW bytes, Console(r, bytes), NEW b \in Bytes,
         NEW x, x = AppCall(r, b)
  PROVE  /\ Console(x.rt, bytes)
         /\ Whole(r, bytes, x.rt, bytes)
         /\ bytes # <<>> => x.rt = r
<1>1. CASE Ready(r) /\ bytes = <<>>
  <2>1. Serving(x.rt)
    BY <1>1, CallServed
  <2>2. x.rt.current_task = CONSOLE_TASK /\ r.current_task = APP_TASK
    BY <1>1, <2>1, Zenon DEF Ready, Serving
  <2> QED
    BY <1>1, <2>1, <2>2, Actors, Zenon DEF Console, Whole
<1>2. CASE Serving(r) \/ Served(r)
  <2>1. x.rt = r
    BY <1>2, CallRefused
  <2> QED
    BY <2>1, Zenon DEF Whole
<1> QED
  BY <1>1, <1>2, Zenon DEF Console

\* The UART after a reply of runtime r that returned x.
Written(x, r, bytes) == IF x.out = "Ok" THEN Append(bytes, r.pending_byte) ELSE bytes

\* The same for console_reply_and_revoke and the byte that is written after it.
LEMMA ReplyKeeps ==
  ASSUME NEW r, NEW bytes \in Seq(Bytes), Console(r, bytes),
         NEW x, x = ConsoleReplyAndRevoke(r),
         NEW y, y = Written(x, r, bytes)
  PROVE  /\ Console(x.rt, y) /\ y \in Seq(Bytes)
         /\ Whole(r, bytes, x.rt, y)
         /\ bytes # <<>> => x.rt = r /\ y = bytes
<1>1. CASE Serving(r) /\ bytes = <<>>
  <2>1. x.out = "Ok" /\ Served(x.rt)
    BY <1>1, RepliesAndRevokes
  <2>2. x.rt.current_task = APP_TASK /\ r.current_task = CONSOLE_TASK
    BY <1>1, <2>1, Zenon DEF Serving, Served
  <2>3. r.pending_byte \in Bytes
    BY <1>1 DEF Serving, RuntimeState
  <2>4. y = Append(bytes, r.pending_byte)
    BY <2>1, Zenon DEF Written
  <2>5. y \in Seq(Bytes) /\ y # <<>>
    BY <2>3, <2>4
  <2>6. x.rt.capabilities.spaces[APP_TASK][ENDPOINT_SLOT] = None
    BY <2>1, Zenon DEF Served, Closed
  <2> QED
    BY <1>1, <2>1, <2>2, <2>4, <2>5, <2>6, Actors, Zenon DEF Console, Whole
<1>2. CASE Ready(r) \/ Served(r)
  <2>1. x.rt = r /\ x.out # "Ok"
    BY <1>2, ReplyRefused
  <2> QED
    BY <2>1, Zenon DEF Written, Whole
<1> QED
  BY <1>1, <1>2, Zenon DEF Console

\* The kernel starts in the invariant.
LEMMA KernelStarts ==
  ASSUME KernelInit PROVE KernelInv
<1>1. EmptyContext \in Contexts
  BY DEF EmptyContext, Contexts, Labels
<1>2. S!EmptyScheduler \in S!SchedulerState
  <2>1. S!EmptyTask \in S!Task
    BY <1>1, KernelSizes DEF S!EmptyTask, S!Task, S!TaskState
  <2> QED
    BY <2>1 DEF S!EmptyScheduler, S!SchedulerState
<1>3. KernelType
  BY <1>1, <1>2, StartOfRuntime, KernelSizes DEF KernelInit, KernelType
<1> QED
  BY <1>3 DEF KernelInit, KernelInv, Booting, Launching, Running

\* What the self-tests print is of the transcript's type.
LEMMA TranscriptType == Transcript \in [DOMAIN Transcript -> BOOLEAN]
<1>1. Passed \in [DOMAIN Passed -> BOOLEAN]
  <2>1. DOMAIN Passed = {"memory", "console", "sandbox", "ipc", "syscall", "sched"}
    BY DEF Passed
  <2>2. \A line \in DOMAIN Passed : Passed[line] \in BOOLEAN
    <3>1. /\ Passed["memory"] = TRUE /\ Passed["console"] = TRUE
          /\ Passed["sandbox"] = FALSE /\ Passed["ipc"] = TRUE
          /\ Passed["syscall"] = TRUE /\ Passed["sched"] = TRUE
      BY DEF Passed
    <3> QED
      BY <2>1, <3>1, Zenon
  <2>3. Passed = [line \in DOMAIN Passed |-> Passed[line]]
    BY DEF Passed
  <2> QED
    BY <2>2, <2>3
<1> QED
  BY <1>1, SelfTestsPass, Zenon

\* kernel_main's steps keep the invariant.
LEMMA MainKeeps ==
  ASSUME KernelInv, KernelMain
  PROVE  KernelInv'
<1>1. KernelType
  BY Zenon DEF KernelInv
<1>2. CASE SelfTests
  <2>1. main' = "init10" /\ report' = Passed
    BY <1>2, SelfTestsPass, Zenon DEF SelfTests
  <2>2. KernelType'
    BY <1>1, <1>2, <2>1, SelfTestsPass, TranscriptType DEF SelfTests, KernelType
  <2>3. rt = EmptyRuntime /\ uart = <<>>
    BY <1>2 DEF KernelInv, SelfTests, Booting
  <2>4. rt' = rt /\ uart' = uart
    BY <1>2 DEF SelfTests
  <2> QED
    BY <2>1, <2>2, <2>3, <2>4 DEF KernelInv, Booting, Launching, Running
<1>3. CASE ResetTicks
  <2>1. KernelType'
    BY <1>1, <1>3, KernelSizes DEF ResetTicks, KernelType
  <2>2. Stays(main, main')
    BY <1>3 DEF ResetTicks, Stays, Booting, Launching
  <2>3. UNCHANGED <<report, sched, rt, uart>>
    BY <1>3 DEF ResetTicks
  <2> QED
    BY <2>1, <2>2, <2>3, KernelStays, Zenon
<1>4. CASE ArmTimer
  <2>1. KernelType'
    BY <1>1, <1>4 DEF ArmTimer, KernelType
  <2>2. Stays(main, main')
    BY <1>4 DEF ArmTimer, Stays, Booting, Launching
  <2>3. UNCHANGED <<report, sched, rt, uart>>
    BY <1>4 DEF ArmTimer
  <2> QED
    BY <2>1, <2>2, <2>3, KernelStays, Zenon
<1>5. CASE CheckTicks
  <2>1. KernelType'
    BY <1>1, <1>5 DEF CheckTicks, KernelType
  <2>2. Stays(main, main')
    BY <1>5 DEF CheckTicks, Stays, Booting
  <2>3. UNCHANGED <<report, sched, rt, uart>>
    BY <1>5 DEF CheckTicks
  <2> QED
    BY <2>1, <2>2, <2>3, KernelStays, Zenon
<1>6. CASE WaitForInterrupt
  <2>1. KernelType'
    BY <1>1, <1>6 DEF WaitForInterrupt, KernelType
  <2>2. Stays(main, main')
    BY <1>6 DEF WaitForInterrupt, Stays, Booting
  <2>3. UNCHANGED <<report, sched, rt, uart>>
    BY <1>6 DEF WaitForInterrupt
  <2> QED
    BY <2>1, <2>2, <2>3, KernelStays, Zenon
<1>7. CASE SetUp
  <2> DEFINE s == S!Schedule(SpawnedB)
  <2>1. Paired(s) /\ SetUpSucceeds
    BY SetUpWorks, Zenon
  <2>2. main' = "init20" /\ rt' = Bootstrapped /\ sched' = s
    BY <1>7, <2>1, Zenon DEF SetUp
  <2>3. s \in S!SchedulerState /\ Bootstrapped \in RuntimeState
    BY <2>1, StartOfRuntime, Zenon DEF Paired, Ready
  <2> HIDE DEF s
  <2>4. KernelType'
    BY <1>1, <1>7, <2>2, <2>3 DEF SetUp, KernelType
  <2>5. report' = report /\ uart' = uart /\ uart = <<>> /\ report = Passed
    BY <1>7 DEF SetUp, KernelInv, Booting
  <2>6. Paired(sched)'
    BY <2>1, <2>2 DEF Paired
  <2> QED
    BY <2>2, <2>4, <2>5, <2>6 DEF KernelInv, Booting, Launching, Running
<1>8. CASE LoadEntry
  <2>1. [UserContext("a.seed", "A") EXCEPT !.x19 = "junk"] \in Contexts
    BY DEF UserContext, Contexts, Labels
  <2>2. KernelType'
    BY <1>1, <1>8, <2>1 DEF LoadEntry, KernelType
  <2>3. Stays(main, main')
    BY <1>8 DEF LoadEntry, Stays, Launching
  <2>4. UNCHANGED <<report, sched, rt, uart>>
    BY <1>8 DEF LoadEntry
  <2> QED
    BY <2>2, <2>3, <2>4, KernelStays, Zenon
<1>9. CASE LoadMode
  <2>1. KernelType'
    BY <1>1, <1>9 DEF LoadMode, KernelType
  <2>2. Stays(main, main')
    BY <1>9 DEF LoadMode, Stays, Launching
  <2>3. UNCHANGED <<report, sched, rt, uart>>
    BY <1>9 DEF LoadMode
  <2> QED
    BY <2>1, <2>2, <2>3, KernelStays, Zenon
<1>10. CASE EnterUser
  <2>1. KernelType'
    BY <1>1, <1>10 DEF EnterUser, KernelType
  <2>2. /\ report' = report /\ sched' = sched /\ rt' = rt /\ uart' = uart
        /\ main = "eret" /\ main' = "user"
    BY <1>10 DEF EnterUser
  <2>3. rt = Bootstrapped /\ uart = <<>> /\ Paired(sched) /\ report = Passed
    BY <2>2 DEF KernelInv, Launching, Booting
  <2>4. Ready(rt')
    BY <2>2, <2>3, StartOfRuntime, Zenon
  <2>5. Console(rt', uart')
    BY <2>2, <2>3, <2>4, Zenon DEF Console
  <2>6. Console(rt, uart)'
    BY <2>5 DEF Console, Ready, Serving, Served
  <2>7. Paired(sched)'
    BY <2>2, <2>3 DEF Paired
  <2> QED
    BY <2>1, <2>2, <2>3, <2>6, <2>7 DEF KernelInv, Booting, Launching, Running
<1> QED
  BY <1>2, <1>3, <1>4, <1>5, <1>6, <1>7, <1>8, <1>9, <1>10, Zenon
     DEF KernelMain

\* The timer and its interrupts keep the invariant.
LEMMA InterruptKeeps ==
  ASSUME KernelInv, TimerExpires \/ KernelTick \/ UserTick \/ UnknownInterrupt
  PROVE  KernelInv'
<1>1. KernelType
  BY Zenon DEF KernelInv
<1>2. main \in Running => Stays(main, main)
  BY Zenon DEF Stays
<1>3. (ticks + 1) % TICKS \in 0 .. TICKS - 1
  BY <1>1, KernelSizes DEF KernelType
<1>4. CASE TimerExpires
  <2>1. KernelType'
    BY <1>1, <1>4 DEF TimerExpires, KernelType
  <2>2. main' = main /\ UNCHANGED <<report, sched, rt, uart>>
    BY <1>4 DEF TimerExpires
  <2>3. CASE main = "selftest"
    BY <2>1, <2>2, <2>3 DEF KernelInv, Booting, Launching, Running
  <2>4. CASE main # "selftest"
    <3>1. Stays(main, main')
      BY <2>2, <2>4, Places DEF Stays
    <3> QED
      BY <2>1, <2>2, <3>1, KernelStays, Zenon
  <2> QED
    BY <2>3, <2>4
<1>5. CASE KernelTick
  <2>1. /\ ~Masked /\ main' = Resumed /\ cpu' = Reloaded
        /\ UNCHANGED <<report, spurious, sched, switches, rt, uart>>
        /\ ticks' \in 0 .. TICKS - 1 /\ Rearmed(ticks' = 3)
    BY <1>3, <1>5 DEF KernelTick
  <2>2. /\ Stays(main, main') /\ main' \in Booting \cup Launching \cup Running
        /\ cpu' \in Contexts
    BY <2>1, Resumes, Zenon
  <2>3. timer' \in {"off", "running", "pending"} /\ late' \in 0 .. MaxLate
    BY <1>1, <2>1, KernelSizes DEF Rearmed, KernelType
  <2>4. KernelType'
    BY <1>1, <2>1, <2>2, <2>3 DEF KernelType, Booting, Launching, Running
  <2>5. UNCHANGED <<report, sched, rt, uart>>
    BY <2>1
  <2> QED
    BY <2>2, <2>4, <2>5, KernelStays, Zenon
<1>6. CASE UserTick
  <2> DEFINE r == Switched(sched, cpu)
  <2>1. /\ main = "user" /\ main' = main /\ sched' = r.sched /\ cpu' = r.cpu
        /\ UNCHANGED <<report, spurious, rt, uart>>
        /\ ticks' \in 0 .. TICKS - 1
        /\ Rearmed(StopsTimer(sched.current, r.sched.current))
        /\ switches' = IF r.sched.current # sched.current THEN switches + 1 ELSE switches
    BY <1>3, <1>6, Zenon DEF UserTick
  <2>2. Paired(sched) /\ cpu \in Contexts
    BY <1>1, <2>1 DEF KernelInv, KernelType, Booting
  <2>3. Paired(r.sched) /\ r.cpu \in Contexts
    <3>1. Exchanged(sched, cpu, r)
      BY <2>2, SwitchExchanges, Zenon
    <3> QED
      BY <3>1, Zenon DEF Exchanged
  <2>4. r.sched \in S!SchedulerState
    BY <2>3, Zenon DEF Paired
  <2> HIDE DEF r
  <2>5. timer' \in {"off", "running", "pending"} /\ late' \in 0 .. MaxLate
    BY <1>1, <2>1, KernelSizes DEF Rearmed, KernelType
  <2>6. switches' \in Nat
    BY <1>1, <2>1 DEF KernelType
  <2>7. KernelType'
    BY <1>1, <2>1, <2>3, <2>4, <2>5, <2>6 DEF KernelType
  <2>8. Paired(sched)'
    BY <2>1, <2>3 DEF Paired
  <2>9. Console(rt, uart)'
    BY <2>1 DEF KernelInv, Running, Console, Ready, Serving, Served
  <2>10. report' = Passed
    BY <2>1 DEF KernelInv
  <2> QED
    BY <2>1, <2>7, <2>8, <2>9, <2>10 DEF KernelInv, Booting, Launching
<1>7. CASE UnknownInterrupt
  <2>1. /\ ~Masked /\ main' = Resumed /\ cpu' = Reloaded
        /\ spurious' \in 0 .. MaxSpurious /\ timer' \in {"off", "running", "pending"}
        /\ UNCHANGED <<report, ticks, late, sched, switches, rt, uart>>
    BY <1>1, <1>7, KernelSizes DEF UnknownInterrupt, KernelType
  <2>2. /\ Stays(main, main') /\ main' \in Booting \cup Launching \cup Running
        /\ cpu' \in Contexts
    BY <2>1, Resumes, Zenon
  <2>3. KernelType'
    BY <1>1, <2>1, <2>2 DEF KernelType, Booting, Launching, Running
  <2>4. UNCHANGED <<report, sched, rt, uart>>
    BY <2>1
  <2> QED
    BY <2>2, <2>3, <2>4, KernelStays, Zenon
<1> QED
  BY <1>4, <1>5, <1>6, <1>7

-----------------------------------------------------------------------------
(* What a system call does, when and with whatever arguments it is made. *)

\* The calls of EL0; frame is the context they leave in the processor, and x0
\* the register the first call takes its byte from.
Service(frame, x0) ==
  \/ CallService(frame, x0) \/ ReplyService(frame) \/ RetryService(frame)
  \/ NoService(frame) \/ DataAbort(frame) \/ Halt \/ Report

\* No service fails half way, or changes anything once a byte is on the UART.
Steady ==
  /\ Whole(rt, uart, rt', uart')
  /\ uart # <<>> => rt' = rt /\ uart' = uart

\* Services keep the invariant.
LEMMA ServiceKeeps ==
  ASSUME KernelInv, main = "user", NEW frame, frame \in Contexts,
         NEW x0, x0 \in Nat, Service(frame, x0)
  PROVE  KernelInv' /\ Steady
<1>1. KernelType /\ Console(rt, uart) /\ Paired(sched) /\ report = Passed
  BY Zenon DEF KernelInv, Running, Booting
<1>2. /\ main' \in Running
      /\ UNCHANGED <<report, timer, ticks, spurious, late, sched, switches>>
  BY DEF Service, CallService, ReplyService, RetryService, NoService, DataAbort, Halt,
         Report, Running
<1>3. cpu' \in Contexts
  <2>1. ASSUME NEW pc \in Labels, NEW sp \in {"A", "B"}
        PROVE  /\ [frame EXCEPT !.pc = pc] \in Contexts
               /\ [frame EXCEPT !.pc = pc, !.sp = sp] \in Contexts
    <3> DEFINE f == [frame EXCEPT !.pc = pc]
    <3>1. f \in Contexts
      BY DEF Contexts
    <3>2. [frame EXCEPT !.pc = pc, !.sp = sp] = [f EXCEPT !.sp = sp]
      OBVIOUS
    <3> HIDE DEF f
    <3>3. [f EXCEPT !.sp = sp] \in Contexts
      BY <3>1 DEF Contexts
    <3> QED
      BY <3>1, <3>2, <3>3, Zenon DEF f
  <2>2. "c.svc11" \in Labels /\ "a.svc12" \in Labels /\ "a.svc2" \in Labels
    BY DEF Labels
  <2>3. cpu \in Contexts
    BY <1>1, Zenon DEF KernelType
  <2>4. /\ [frame EXCEPT !.pc = "c.svc11", !.sp = "B"] \in Contexts
        /\ [frame EXCEPT !.pc = "a.svc12", !.sp = "A"] \in Contexts
        /\ [frame EXCEPT !.pc = "a.svc2"] \in Contexts
    BY <2>1, <2>2, Zenon
  <2>5. CASE CallService(frame, x0)
    BY <2>4, <2>5, Zenon DEF CallService
  <2>6. CASE ReplyService(frame)
    BY <2>4, <2>6, Zenon DEF ReplyService
  <2>7. CASE RetryService(frame) \/ NoService(frame)
    BY <2>7, Zenon DEF RetryService, NoService
  <2>8. CASE DataAbort(frame)
    BY <2>4, <2>8, Zenon DEF DataAbort
  <2>9. CASE Halt \/ Report
    BY <2>3, <2>9 DEF Halt, Report
  <2> QED
    BY <2>5, <2>6, <2>7, <2>8, <2>9, Zenon DEF Service
<1>4. Console(rt', uart') /\ uart' \in Seq(Bytes) /\ Steady
  <2>1. ASSUME NEW b \in Bytes, rt' = AppCall(rt, b).rt, uart' = uart
        PROVE  Console(rt', uart') /\ uart' \in Seq(Bytes) /\ Steady
    <3>1. uart \in Seq(Bytes)
      BY <1>1, Zenon DEF KernelType
    <3> DEFINE x == AppCall(rt, b)
    <3>2. /\ Console(x.rt, uart)
          /\ Whole(rt, uart, x.rt, uart)
          /\ uart # <<>> => x.rt = rt
      BY <1>1, CallKeeps
    <3> QED
      BY <2>1, <3>1, <3>2, Zenon DEF Steady
  <2>2. CASE CallService(frame, x0)
    <3>1. x0 % BYTES \in Bytes
      BY RuntimeSizes DEF Bytes
    <3>2. rt' = AppCall(rt, x0 % BYTES).rt /\ uart' = uart
      BY <2>2 DEF CallService
    <3> QED
      BY <2>1, <3>1, <3>2, Zenon
  <2>3. CASE ReplyService(frame)
    <3> DEFINE x == ConsoleReplyAndRevoke(rt)
    <3>1. rt' = x.rt /\ uart' = Written(x, rt, uart)
      BY <2>3, Zenon DEF ReplyService, Written
    <3>2. uart \in Seq(Bytes)
      BY <1>1, Zenon DEF KernelType
    <3>3. /\ Console(x.rt, uart') /\ uart' \in Seq(Bytes)
          /\ Whole(rt, uart, x.rt, uart')
          /\ uart # <<>> => x.rt = rt /\ uart' = uart
      BY <1>1, <3>1, <3>2, ReplyKeeps
    <3> QED
      BY <3>1, <3>3, Zenon DEF Steady
  <2>4. CASE RetryService(frame)
    <3>1. rt' = AppCall(rt, LetterB).rt /\ uart' = uart
      BY <2>4 DEF RetryService
    <3> QED
      BY <2>1, <3>1, KernelSizes, Zenon
  <2>5. CASE NoService(frame) \/ DataAbort(frame) \/ Halt \/ Report
    <3>1. rt' = rt /\ uart' = uart
      BY <2>5 DEF NoService, DataAbort, Halt, Report
    <3> QED
      BY <1>1, <3>1, Zenon DEF Steady, Whole, KernelType
  <2> QED
    BY <2>2, <2>3, <2>4, <2>5, Zenon DEF Service
<1>5. rt' \in RuntimeState
  BY <1>4, Zenon DEF Console, Ready, Serving, Served
<1>6. KernelType'
  BY <1>1, <1>2, <1>3, <1>4, <1>5 DEF KernelType, Running
<1>7. Console(rt, uart)' /\ Paired(sched)' /\ report' = Passed
  BY <1>1, <1>2, <1>4 DEF Console, Ready, Serving, Served, Paired
<1>8. KernelInv'
  BY <1>2, <1>6, <1>7 DEF KernelInv, Booting, Launching, Running
<1> QED
  BY <1>4, <1>8

-----------------------------------------------------------------------------
(* The kernel under arbitrary EL0 code. *)

\* A step of arbitrary EL0 code that is a service is one of Service.
LEMMA CallsAreServices ==
  ASSUME KernelInv,
         (\E x0 \in Registers : Calls(x0)) \/ Replies \/ Retries \/ OtherCall
           \/ Aborts \/ Halts \/ Faults
  PROVE  main = "user" /\ cpu \in Contexts /\ \E x0 \in Nat : Service(cpu, x0)
<1>1. cpu \in Contexts
  BY Zenon DEF KernelInv, KernelType
<1>2. main = "user"
  BY Zenon DEF User, Calls, Replies, Retries, OtherCall, Aborts, Halts, Faults
<1>3. CASE \E x0 \in Registers : Calls(x0)
  <2>1. PICK x0 \in Registers : Calls(x0)
    BY <1>3
  <2>2. x0 \in Nat
    BY RegistersAssumption
  <2> QED
    BY <1>1, <1>2, <2>1, <2>2, Zenon DEF Calls, Service
<1>4. CASE Replies \/ Retries \/ OtherCall \/ Aborts \/ Halts \/ Faults
  <2>1. Service(cpu, 0)
    BY <1>4, Zenon DEF Replies, Retries, OtherCall, Aborts, Halts,
       Faults, Service
  <2> QED
    BY <1>1, <1>2, <2>1
<1> QED
  BY <1>3, <1>4

\* EL0 code that goes anywhere, with any registers, between one system call and
\* the next: what arbitrary code and the programs of src/user.S both are.
AnyCodeNext ==
  \/ KernelMain \/ TimerExpires \/ KernelTick \/ UserTick \/ UnknownInterrupt
  \/ main = "user" /\ \E frame \in Contexts, x0 \in Nat : Service(frame, x0)

AnyCodeSpec == KernelInit /\ [][AnyCodeNext]_kernelVars

\* The invariant is inductive, and every step while EL0 runs, or has ended, is
\* a steady one.
LEMMA AnyCodeKeeps ==
  ASSUME KernelInv, [AnyCodeNext]_kernelVars
  PROVE  KernelInv' /\ (main \in Running => Steady)
<1>1. CASE KernelMain
  <2>1. KernelInv'
    BY <1>1, MainKeeps
  <2>2. main \notin Running
    BY <1>1 DEF KernelMain, SelfTests, ResetTicks, ArmTimer, CheckTicks,
       WaitForInterrupt, SetUp, LoadEntry, LoadMode, EnterUser, Running
  <2> QED
    BY <2>1, <2>2
<1>2. CASE TimerExpires \/ KernelTick \/ UserTick \/ UnknownInterrupt
  <2>1. KernelInv'
    BY <1>2, InterruptKeeps
  <2>2. rt' = rt /\ uart' = uart
    BY <1>2 DEF TimerExpires, KernelTick, UserTick, UnknownInterrupt
  <2> QED
    BY <2>1, <2>2, Zenon DEF Steady, Whole
<1>3. CASE main = "user" /\ \E frame \in Contexts, x0 \in Nat : Service(frame, x0)
  <2>1. PICK frame \in Contexts, x0 \in Nat : Service(frame, x0)
    BY <1>3
  <2> QED
    BY <1>3, <2>1, ServiceKeeps
<1>4. CASE UNCHANGED kernelVars
  <2>1. /\ main' = main /\ report' = report /\ timer' = timer /\ ticks' = ticks
        /\ spurious' = spurious /\ late' = late /\ cpu' = cpu /\ sched' = sched
        /\ switches' = switches /\ rt' = rt /\ uart' = uart
    BY <1>4 DEF kernelVars
  <2>2. KernelInv'
    BY <2>1 DEF KernelInv, KernelType, Console, Ready, Serving, Served, Paired
  <2> QED
    BY <2>1, <2>2, Zenon DEF Steady, Whole
<1> QED
  BY <1>1, <1>2, <1>3, <1>4 DEF AnyCodeNext

\* current_task agrees with the IPC state.
LEMMA HandsOverInOrder ==
  ASSUME KernelInv
  PROVE  HandOver
<1>1. Ready(rt) \/ Serving(rt) \/ Served(rt)
        \/ (rt.current_task = APP_TASK /\ IpcFree(rt.ipc))
  <2>1. CASE main \in Booting
    <3>1. rt = EmptyRuntime
      BY <2>1, Zenon DEF KernelInv
    <3>2. Bootstrapped.ipc = EmptyRuntime.ipc
          /\ Bootstrapped.current_task = EmptyRuntime.current_task
      BY DEF Bootstrapped, EmptyRuntime
    <3> QED
      BY <3>1, <3>2, StartOfRuntime, Zenon DEF Ready
  <2>2. CASE main \in Launching
    BY <2>2, StartOfRuntime, Zenon DEF KernelInv
  <2>3. CASE main \in Running
    BY <2>3, Zenon DEF KernelInv, Console
  <2> QED
    BY <2>1, <2>2, <2>3, Places
<1>2. CASE rt.current_task = APP_TASK /\ IpcFree(rt.ipc)
  BY <1>2, Actors, Zenon DEF IpcFree, IpcQuiet, HandOver
<1>3. CASE Serving(rt)
  <2>1. rt.current_task = CONSOLE_TASK /\ IpcServing(rt.ipc)
    BY <1>3, Zenon DEF Serving
  <2> QED
    BY <2>1, Zenon DEF IpcServing, IpcQuiet, HandOver
<1> QED
  BY <1>1, <1>2, <1>3, Zenon DEF Ready, Served

\* The inductive invariant, in every behaviour: kernel_main has not panicked, the
\* boot transcript is the expected one, and the runtime is before the first call,
\* serving it, or done with it, with a byte on the UART in the last case only.
THEOREM KernelInvariant == AnyCodeSpec => []KernelInv
<1>1. KernelInit => KernelInv
  BY KernelStarts
<1>2. KernelInv /\ [AnyCodeNext]_kernelVars => KernelInv'
  BY AnyCodeKeeps
<1> QED
  BY <1>1, <1>2, PTL DEF AnyCodeSpec

\* The kernel's promises to code that does what it likes: the types, agreement
\* of current_task with the IPC state, services that do not fail half way, and
\* a revocation that is final.
THEOREM AnyCodeIsSafe ==
  AnyCodeSpec => []KernelType /\ []HandOver /\ AllOrNothing /\ RevocationIsFinal
<1>1. KernelInv => KernelType /\ HandOver
  BY HandsOverInOrder, Zenon DEF KernelInv
<1>2. KernelInv /\ [AnyCodeNext]_kernelVars
        => [main = "user" =>
              /\ rt'.current_task # rt.current_task
              /\ rt'.current_task = APP_TASK =>
                   /\ rt'.capabilities.spaces[APP_TASK][ENDPOINT_SLOT] = None
                   /\ uart' = Append(uart, rt.pending_byte)]_rt
  BY AnyCodeKeeps, Zenon DEF Running, Steady, Whole
<1>3. KernelInv /\ uart # <<>> => main \in Running
  BY Places, Zenon DEF KernelInv
<1>4. KernelInv /\ [AnyCodeNext]_kernelVars
        => [uart # <<>> => UNCHANGED <<rt, uart>>]_kernelVars
  BY <1>3, AnyCodeKeeps DEF Steady
<1> QED
  BY <1>1, <1>2, <1>4, KernelInvariant, PTL
     DEF AnyCodeSpec, AllOrNothing, RevocationIsFinal

\* Code that stays where it is, which is what the runs check, is such code.
THEOREM AnyUserImplements == AnyUserSpec => AnyCodeSpec
<1>1. KernelInit => KernelInv
  BY KernelStarts
<1>2. KernelInv /\ [AnyUserNext]_kernelVars => [AnyCodeNext]_kernelVars
  <2> SUFFICES ASSUME KernelInv, AnyUserNext PROVE AnyCodeNext
    BY Zenon
  <2>1. CASE KernelMain \/ TimerExpires \/ KernelTick \/ UserTick \/ UnknownInterrupt
    BY <2>1, Zenon DEF AnyCodeNext
  <2>2. CASE (\E x0 \in Registers : Calls(x0)) \/ Replies \/ Retries \/ OtherCall
               \/ Aborts \/ Halts \/ Faults
    BY <2>2, CallsAreServices, Zenon DEF AnyCodeNext
  <2> QED
    BY <2>1, <2>2, Zenon DEF AnyUserNext
<1>3. KernelInv /\ [AnyCodeNext]_kernelVars => KernelInv'
  BY AnyCodeKeeps
<1> QED
  BY <1>1, <1>2, <1>3, PTL DEF AnyUserSpec, AnyCodeSpec

\* The state of the kernel has its type: whatever EL0 does, no call makes the
\* runtime or the scheduler a value the Rust types do not have.
THEOREM KernelTypes == AnyUserSpec => []KernelType
  BY AnyUserImplements, AnyCodeIsSafe, PTL

\* current_task agrees with the IPC state in every state.
THEOREM HandOverHolds == AnyUserSpec => []HandOver
  BY AnyUserImplements, AnyCodeIsSafe, PTL

\* No service fails half way: a call that changes the runtime hands the processor
\* over, and back only with the app's capability revoked and its byte written.
THEOREM AllOrNothingHolds == AnyUserSpec => AllOrNothing
  BY AnyUserImplements, AnyCodeIsSafe, PTL

\* After the first byte no call gets anything more out of the runtime.
THEOREM RevocationHolds == AnyUserSpec => RevocationIsFinal
  BY AnyUserImplements, AnyCodeIsSafe, PTL

=============================================================================
