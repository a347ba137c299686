--------------------------- MODULE ResourceProofs ----------------------------
(***************************************************************************)
(* What the kernel hands out.  The processor: bounded waiting of the       *)
(* round-robin scheduler, for any number of tasks.  Frames: the allocator  *)
(* and its callers, for every page size, bitmap and region that ends       *)
(* within the address space.  Mappings: the address-space map and its      *)
(* descriptors, for every page size, table size, capacity and set of       *)
(* addresses.                                                              *)
(***************************************************************************)
EXTENDS Scheduler, FrameClients, AddressSpace, WellFoundedInduction, TLAPS

-----------------------------------------------------------------------------
(* Numbers. *)

\* Every non-empty set of natural numbers has a least element: what a loop
\* that searches an array from index 0 upwards finds.
LEMMA LeastElement ==
  ASSUME NEW S \in SUBSET Nat, S # {}
  PROVE  \E m \in S : \A n \in S : m <= n
<1>1. IsWellFoundedOn(OpToRel(<, Nat), Nat)
  BY NatLessThanWellFounded
<1>2. PICK m \in S : \A y \in S : ~(<<y, m>> \in OpToRel(<, Nat))
  BY <1>1, WFMin
<1>3. \A y \in S : ~(y < m)
  BY <1>2 DEF OpToRel
<1> QED
  BY <1>3

\* One turn around an array of n entries: what an index modulo n is.
LEMMA Turn ==
  ASSUME NEW n \in Nat \ {0}, NEW a \in 0 .. n - 1, NEW b \in 0 .. n
  PROVE  (a + b) % n = IF a + b < n THEN a + b ELSE a + b - n
<1>1. CASE a + b < n
  BY <1>1
<1>2. CASE a + b >= n
  <2>1. a + b - n \in 0 .. n - 1
    BY <1>2
  <2>2. (a + b - n) + 1 * n = a + b
    OBVIOUS
  <2> QED
    BY <2>1, <2>2
<1> QED
  BY <1>1, <1>2

\* Euclid's division of n by d, in the form the arguments below use.
LEMMA Division ==
  ASSUME NEW n \in Nat, NEW d \in Nat \ {0}
  PROVE  /\ n \div d \in Nat /\ n % d \in 0 .. d - 1
         /\ n = d * (n \div d) + (n % d)
  BY SMT

\* The quotient and the remainder are determined by that equation.
LEMMA DivisionUnique ==
  ASSUME NEW q \in Nat, NEW d \in Nat \ {0}, NEW r \in 0 .. d - 1
  PROVE  (d * q + r) \div d = q /\ (d * q + r) % d = r
  BY SMT

-----------------------------------------------------------------------------
(* The scheduler: how far the search is from a task. *)

\* How far the search of schedule is from task t when it starts.
Away(start, t) == IF t >= start THEN t - start ELSE t - start + TASKS

\* The search reaches t at its distance and nothing else there.
LEMMA CandidateAt ==
  ASSUME NEW s \in SchedulerState, NEW o \in 0 .. TASKS - 1
  PROVE  /\ Start(s) \in Tasks
         /\ Candidate(s, o) \in Tasks
         /\ Away(Start(s), Candidate(s, o)) = o
         /\ \A t \in Tasks : Away(Start(s), t) = o => t = Candidate(s, o)
<1>1. TASKS \in Nat \ {0}
  BY SchedulerSizes
<1>2. Start(s) \in 0 .. TASKS - 1
  <2>1. CASE s.current = None
    BY <2>1, <1>1 DEF Start
  <2>2. CASE s.current # None
    <3>1. s.current \in 0 .. TASKS - 1 /\ 1 \in 0 .. TASKS
      BY <2>2, <1>1 DEF SchedulerState, Tasks
    <3>2. (s.current + 1) % TASKS =
            IF s.current + 1 < TASKS THEN s.current + 1
            ELSE s.current + 1 - TASKS
      BY <3>1, <1>1, Turn, Zenon
    <3> QED
      BY <2>2, <3>1, <3>2, <1>1 DEF Start
  <2> QED
    BY <2>1, <2>2
<1>3. o \in 0 .. TASKS
  BY <1>1
<1>4. Candidate(s, o) = IF Start(s) + o < TASKS THEN Start(s) + o
                        ELSE Start(s) + o - TASKS
  BY <1>1, <1>2, <1>3, Turn, Zenon DEF Candidate
<1> QED
  BY <1>1, <1>2, <1>4 DEF Away, Tasks

\* Every task is at some distance below TASKS.
LEMMA DistanceBound ==
  ASSUME NEW s \in SchedulerState, NEW t \in Tasks
  PROVE  /\ Away(Start(s), t) \in 0 .. TASKS - 1
         /\ t = Candidate(s, Away(Start(s), t))
<1>1. TASKS \in Nat \ {0} /\ 0 \in 0 .. TASKS - 1
  BY SchedulerSizes
<1>2. Start(s) \in Tasks
  BY <1>1, CandidateAt
<1>3. Away(Start(s), t) \in 0 .. TASKS - 1
  BY <1>1, <1>2 DEF Away, Tasks
<1> QED
  BY <1>3, CandidateAt

\* schedule picks the runnable task at the smallest distance, if there is one.
LEMMA ChosenIsNearest ==
  ASSUME NEW s \in SchedulerState
  PROVE  IF Chosen(s) = None THEN \A t \in Tasks : ~Is(s, t, "Runnable")
         ELSE /\ Chosen(s) \in Tasks /\ Is(s, Chosen(s), "Runnable")
              /\ \A t \in Tasks : Is(s, t, "Runnable") =>
                   Away(Start(s), Chosen(s)) <= Away(Start(s), t)
<1>1. \A t \in Tasks : Is(s, t, "Runnable") => Away(Start(s), t) \in Ready(s)
  BY DistanceBound DEF Ready
<1>2. CASE Ready(s) = {}
  BY <1>1, <1>2 DEF Chosen
<1>3. CASE Ready(s) # {}
  <2>1. Ready(s) \in SUBSET Nat
    BY SchedulerSizes DEF Ready
  <2>2. \E o \in Ready(s) : \A p \in Ready(s) : o <= p
    BY <2>1, <1>3, LeastElement
  <2>3. PICK o \in Ready(s) : Chosen(s) = Candidate(s, o)
                              /\ \A p \in Ready(s) : o <= p
    BY <2>2, <1>3, Zenon DEF Chosen
  <2>4. o \in 0 .. TASKS - 1 /\ Is(s, Candidate(s, o), "Runnable")
    BY DEF Ready
  <2>5. Chosen(s) \in Tasks /\ Away(Start(s), Chosen(s)) = o
    BY <2>3, <2>4, CandidateAt
  <2>6. Chosen(s) # None
    BY <2>5, SchedulerNone
  <2> QED
    BY <2>3, <2>4, <2>5, <2>6, <1>1, Zenon
<1> QED
  BY <1>2, <1>3

\* After t is passed over, the next search is nearer to it.
LEMMA PassedIsNearer ==
  ASSUME NEW s \in SchedulerState, NEW t \in Tasks, Is(s, t, "Runnable"),
         NEW d, d \in SchedulerState, d.current = Chosen(s), t # Chosen(s)
  PROVE  Away(Start(d), t) < Away(Start(s), t)
<1>1. TASKS \in Nat \ {0} /\ 0 \in 0 .. TASKS - 1 /\ 1 \in 0 .. TASKS
  BY SchedulerSizes
<1>2. /\ Chosen(s) # None /\ Chosen(s) \in Tasks
      /\ Away(Start(s), Chosen(s)) <= Away(Start(s), t)
  BY ChosenIsNearest
<1>3. Start(s) \in Tasks
  BY <1>1, CandidateAt
<1>4. Start(d) = IF Chosen(s) + 1 < TASKS THEN Chosen(s) + 1
                 ELSE Chosen(s) + 1 - TASKS
  BY <1>1, <1>2, Turn, Zenon DEF Start, Tasks
<1> QED
  BY <1>1, <1>2, <1>3, <1>4 DEF Away, Tasks

-----------------------------------------------------------------------------
(* Every behaviour of Scheduler. *)

\* A runnable task was passed over so often only because the search started so
\* far away: the two together stay below a full turn.
WaitInv ==
  /\ SchedTypeOK
  /\ \A t \in Tasks :
       IF Is(sch, t, "Runnable")
       THEN passed[t] + Away(Start(sch), t) < TASKS
       ELSE passed[t] = 0

\* Nobody waits in the initial state.
LEMMA InitWait == SchedInit => WaitInv
<1> SUFFICES ASSUME SchedInit PROVE WaitInv
  OBVIOUS
<1>1. EmptyTask \in Task
  BY SchedulerSizes DEF EmptyTask, Task, TaskState
<1>2. SchedTypeOK
  <2>1. sch \in SchedulerState /\ passed \in [Tasks -> 0 .. TASKS]
    BY <1>1, SchedulerSizes DEF SchedInit, EmptyScheduler, SchedulerState
  <2> QED
    BY <2>1, Zenon DEF SchedInit, SchedTypeOK
<1> QED
  BY <1>2 DEF SchedInit, WaitInv, EmptyScheduler, EmptyTask, Is

\* Writing the state of one task, which starts waiting anew, disturbs nobody.
LEMMA RestartWait ==
  ASSUME WaitInv, NEW t \in Tasks, NEW k \in Task,
         sch' = [sch EXCEPT !.tasks[t] = k],
         IF k.state = "Runnable" /\ Is(sch, t, "Runnable")
         THEN passed' = passed ELSE passed' = [passed EXCEPT ![t] = 0],
         timer' = timer
  PROVE  WaitInv'
<1>1. sch \in SchedulerState /\ passed \in [Tasks -> 0 .. TASKS]
  BY DEF WaitInv, SchedTypeOK
<1>2. sch' \in SchedulerState /\ sch'.current = sch.current
  BY <1>1 DEF SchedulerState
<1>3. passed' \in [Tasks -> 0 .. TASKS]
  BY <1>1, SchedulerSizes
<1>4. Start(sch') = Start(sch)
  BY <1>2 DEF Start
<1>5. ASSUME NEW u \in Tasks
      PROVE  IF Is(sch', u, "Runnable")
             THEN passed'[u] + Away(Start(sch'), u) < TASKS
             ELSE passed'[u] = 0
  <2>1. Away(Start(sch), u) \in 0 .. TASKS - 1 /\ TASKS \in Nat
    BY <1>1, DistanceBound, SchedulerSizes
  <2>2. CASE u # t
    <3>1. sch'.tasks[u] = sch.tasks[u] /\ passed'[u] = passed[u]
      BY <2>2, <1>1 DEF SchedulerState
    <3> QED
      BY <3>1, <1>4 DEF WaitInv, Is
  <2>3. CASE u = t
    <3>1. sch'.tasks[t] = k
      BY <1>1 DEF SchedulerState
    <3>2. CASE k.state = "Runnable" /\ Is(sch, t, "Runnable")
      BY <2>3, <3>1, <3>2, <1>4 DEF WaitInv, Is
    <3>3. CASE ~(k.state = "Runnable" /\ Is(sch, t, "Runnable"))
      BY <2>1, <2>3, <3>1, <3>3, <1>1, <1>4 DEF Is
    <3> QED
      BY <3>2, <3>3
  <2> QED
    BY <2>2, <2>3
<1> QED
  BY <1>2, <1>3, <1>5 DEF WaitInv, SchedTypeOK

\* A schedule call brings everybody it passes over nearer.
LEMMA ScheduleWait ==
  ASSUME WaitInv, DoSchedule
  PROVE  WaitInv'
<1>1. sch \in SchedulerState /\ passed \in [Tasks -> 0 .. TASKS]
  BY DEF WaitInv, SchedTypeOK
<1>2. Chosen(sch) \in Tasks \cup {None}
  BY <1>1, ChosenIsNearest
<1>3. Charged(sch) \in [Tasks -> Task]
  <2>1. CASE sch.current # None /\ Is(sch, sch.current, "Runnable")
    <3>1. sch.current \in Tasks /\ sch.tasks[sch.current] \in Task
      BY <2>1, <1>1 DEF SchedulerState
    <3>2. (sch.tasks[sch.current].runtime_ticks + 1) % TICKS \in 0 .. TICKS - 1
      BY <3>1, SchedulerSizes DEF Task
    <3>3. [sch.tasks[sch.current] EXCEPT !.runtime_ticks =
             (sch.tasks[sch.current].runtime_ticks + 1) % TICKS] \in Task
      BY <3>1, <3>2 DEF Task
    <3> QED
      BY <2>1, <3>1, <3>3, <1>1 DEF Charged, SchedulerState
  <2>2. CASE ~(sch.current # None /\ Is(sch, sch.current, "Runnable"))
    BY <2>2, <1>1 DEF Charged, SchedulerState
  <2> QED
    BY <2>1, <2>2
<1>4. sch' \in SchedulerState /\ sch'.current = Chosen(sch) /\ timer' = timer
  BY <1>2, <1>3 DEF DoSchedule, Schedule, SchedulerState
<1>5. \A t \in Tasks : sch'.tasks[t].state = sch.tasks[t].state
  BY <1>1 DEF DoSchedule, Schedule, Charged, SchedulerState, Task
<1>6. passed' \in [Tasks -> 0 .. TASKS]
  BY <1>1, SchedulerSizes DEF DoSchedule
<1>7. ASSUME NEW t \in Tasks
      PROVE  IF Is(sch', t, "Runnable")
             THEN passed'[t] + Away(Start(sch'), t) < TASKS
             ELSE passed'[t] = 0
  <2>1. /\ TASKS \in Nat /\ passed[t] \in Nat
        /\ Away(Start(sch), t) \in 0 .. TASKS - 1
        /\ Away(Start(sch'), t) \in 0 .. TASKS - 1
    BY <1>1, <1>4, DistanceBound, SchedulerSizes
  <2>2. CASE ~Is(sch, t, "Runnable")
    BY <2>2, <1>5 DEF DoSchedule, Is
  <2>3. CASE Is(sch, t, "Runnable") /\ t = Chosen(sch)
    BY <2>1, <2>3, <1>4 DEF DoSchedule
  <2>4. CASE Is(sch, t, "Runnable") /\ t # Chosen(sch)
    <3>1. Away(Start(sch'), t) < Away(Start(sch), t)
      BY <2>4, <1>1, <1>4, PassedIsNearer
    <3>2. passed[t] + Away(Start(sch), t) < TASKS
      BY <2>4 DEF WaitInv
    <3>3. passed'[t] = passed[t] + 1
      BY <2>1, <2>4, <3>2, <1>4 DEF DoSchedule
    <3> QED
      BY <2>1, <3>1, <3>2, <3>3, <1>5, <2>4 DEF Is
  <2> QED
    BY <2>2, <2>3, <2>4
<1> QED
  BY <1>4, <1>6, <1>7 DEF WaitInv, SchedTypeOK

\* spawn finds an unused entry whenever there is one.
LEMMA FirstUnusedIsUnused ==
  ASSUME NEW s, Unused(s) # {}
  PROVE  FirstUnused(s) \in Tasks /\ Is(s, FirstUnused(s), "Unused")
<1>1. Unused(s) \in SUBSET Nat
  BY DEF Unused, Tasks
<1>2. \E t \in Unused(s) : \A u \in Unused(s) : t <= u
  BY <1>1, LeastElement
<1>3. FirstUnused(s) \in Unused(s)
  BY <1>2 DEF FirstUnused
<1> QED
  BY <1>3 DEF Unused

\* Every call keeps the invariant.
LEMMA NextWait == WaitInv /\ [SchedNext]_schedVars => WaitInv'
<1> SUFFICES ASSUME WaitInv, [SchedNext]_schedVars PROVE WaitInv'
  OBVIOUS
<1>1. sch \in SchedulerState
  BY DEF WaitInv, SchedTypeOK
<1>2. ASSUME NEW t \in Tasks, NEW state \in TaskState,
             sch' = SetState(sch, t, state),
             IF state = "Runnable" /\ Is(sch, t, "Runnable")
             THEN passed' = passed ELSE passed' = [passed EXCEPT ![t] = 0],
             timer' = timer
      PROVE  WaitInv'
  <2> DEFINE k == [sch.tasks[t] EXCEPT !.state = state]
  <2>1. k \in Task /\ k.state = state
    BY <1>1 DEF SchedulerState, Task
  <2>2. sch' = [sch EXCEPT !.tasks[t] = k]
    BY <1>1, <1>2 DEF SetState, SchedulerState
  <2> HIDE DEF k
  <2> QED
    BY <2>1, <2>2, <1>2, RestartWait
<1>3. ASSUME NEW c \in Contexts, DoSpawn(c) PROVE WaitInv'
  <2> DEFINE k == [state |-> "Runnable", context |-> c, runtime_ticks |-> 0]
             t == FirstUnused(sch)
  <2>1. t \in Tasks /\ ~Is(sch, t, "Runnable")
    BY <1>3, FirstUnusedIsUnused DEF DoSpawn, Is
  <2>2. k \in Task
    BY SchedulerSizes DEF Task, TaskState
  <2>3. /\ sch' = [sch EXCEPT !.tasks[t] = k] /\ passed' = [passed EXCEPT ![t] = 0]
        /\ timer' = timer
    BY <1>3 DEF DoSpawn, Spawn, Restart
  <2> HIDE DEF k, t
  <2> QED
    BY <2>1, <2>2, <2>3, RestartWait, Zenon
<1>4. ASSUME NEW t \in Tasks, DoWake(t) PROVE WaitInv'
  BY <1>2, <1>4 DEF DoWake, Restart, TaskState
<1>5. ASSUME NEW t \in Tasks, DoBlock(t) PROVE WaitInv'
  BY <1>2, <1>5, Zenon DEF DoBlock, Restart, TaskState
<1>6. ASSUME NEW t \in Tasks, DoFault(t) PROVE WaitInv'
  BY <1>2, <1>6, Zenon DEF DoFault, Restart, TaskState
<1>7. ASSUME NEW t \in Tasks, NEW c \in Contexts, DoSaveContext(t, c)
      PROVE  WaitInv'
  <2> DEFINE k == [sch.tasks[t] EXCEPT !.context = c]
  <2>1. k \in Task /\ k.state = sch.tasks[t].state
    BY <1>1 DEF SchedulerState, Task
  <2>2. sch' = [sch EXCEPT !.tasks[t] = k] /\ passed' = passed /\ timer' = timer
    BY <1>1, <1>7 DEF DoSaveContext, SaveContext, SchedulerState
  <2>3. CASE Is(sch, t, "Runnable")
    <3> HIDE DEF k
    <3> QED
      BY <2>1, <2>2, <2>3, RestartWait DEF Is
  <2>4. CASE ~Is(sch, t, "Runnable")
    <3>1. passed' = [passed EXCEPT ![t] = 0]
      BY <2>2, <2>4 DEF WaitInv, SchedTypeOK
    <3> HIDE DEF k
    <3> QED
      BY <2>1, <2>2, <2>4, <3>1, RestartWait, Zenon DEF Is
  <2> QED
    BY <2>3, <2>4
<1>8. ASSUME timer' \in BOOLEAN, UNCHANGED <<sch, passed>> PROVE WaitInv'
  BY <1>8 DEF WaitInv, SchedTypeOK
<1>9. CASE ArmTimer \/ StopTimer \/ UNCHANGED schedVars
  <2>1. timer \in BOOLEAN
    BY DEF WaitInv, SchedTypeOK
  <2>2. timer' \in BOOLEAN /\ UNCHANGED <<sch, passed>>
    BY <1>9, <2>1, Zenon DEF ArmTimer, StopTimer, schedVars
  <2> QED
    BY <1>8, <2>2, Zenon
<1> QED
  BY <1>3, <1>4, <1>5, <1>6, <1>7, <1>9, ScheduleWait DEF SchedNext

\* The scheduler always has its type.
THEOREM SchedulerType == SchedSpec => []SchedTypeOK
<1>1. WaitInv => SchedTypeOK
  BY DEF WaitInv
<1> QED
  BY <1>1, InitWait, NextWait, PTL DEF SchedSpec

\* A runnable task is passed over fewer than TASKS times, for any TASKS.
THEOREM WaitingIsBounded == SchedSpec => []BoundedWaiting
<1>1. WaitInv => BoundedWaiting
  <2> SUFFICES ASSUME WaitInv, NEW t \in Tasks PROVE passed[t] < TASKS
    BY DEF BoundedWaiting
  <2>1. /\ TASKS \in Nat \ {0} /\ passed[t] \in Nat
        /\ Away(Start(sch), t) \in 0 .. TASKS - 1
    BY SchedulerSizes, DistanceBound DEF WaitInv, SchedTypeOK
  <2> QED
    BY <2>1 DEF WaitInv
<1> QED
  BY <1>1, InitWait, NextWait, PTL DEF SchedSpec

\* schedule idles only when no task can run, and picks only tasks that can.
THEOREM SchedulingIsWorkConserving == SchedSpec => ScheduleNeverIdlesWrongly
<1>1. WaitInv /\ [SchedNext]_schedVars =>
        [sch' = Schedule(sch) =>
           IF sch'.current = None THEN \A t \in Tasks : ~Is(sch, t, "Runnable")
           ELSE Is(sch, sch'.current, "Runnable")]_schedVars
  BY ChosenIsNearest DEF WaitInv, SchedTypeOK, Schedule
<1> QED
  BY <1>1, InitWait, NextWait, PTL DEF SchedSpec, ScheduleNeverIdlesWrongly

-----------------------------------------------------------------------------
(* Frames: addresses and indices are each other's inverses. *)

\* A multiple of d, and what lies i times d beyond it.
LEMMA Multiples ==
  ASSUME NEW n \in Nat, NEW d \in Nat \ {0}, n % d = 0, NEW i \in Nat
  PROVE  (n + i * d) % d = 0 /\ (n + i * d - n) \div d = i
<1> DEFINE q == n \div d
<1>1. q \in Nat /\ n = d * q + (n % d)
  BY Division
<1> HIDE DEF q
<1>2. n + i * d = d * (q + i) + 0 /\ q + i \in Nat /\ 0 \in 0 .. d - 1
  BY <1>1
<1>3. n + i * d - n = d * i + 0
  OBVIOUS
<1>4. (d * (q + i) + 0) % d = 0
  BY <1>2, DivisionUnique
<1>5. (d * i + 0) \div d = i
  BY <1>2, DivisionUnique
<1> QED
  BY <1>2, <1>3, <1>4, <1>5

\* The distance of two multiples of d is a multiple of d.
LEMMA Distance ==
  ASSUME NEW n \in Nat, NEW m \in Nat, NEW d \in Nat \ {0},
         n % d = 0, m % d = 0, n <= m
  PROVE  (m - n) \div d \in Nat /\ n + ((m - n) \div d) * d = m
<1> DEFINE q == n \div d
           p == m \div d
<1>1. q \in Nat /\ n = d * q + (n % d)
  BY Division
<1>2. p \in Nat /\ m = d * p + (m % d)
  BY Division
<1> HIDE DEF p, q
<1>3. q <= p
  BY <1>1, <1>2
<1>4. m - n = d * (p - q) + 0 /\ p - q \in Nat /\ 0 \in 0 .. d - 1
  BY <1>1, <1>2, <1>3
<1>5. (d * (p - q) + 0) \div d = p - q
  BY <1>4, DivisionUnique
<1>6. n + (p - q) * d = m
  BY <1>1, <1>2, <1>4
<1> QED
  BY <1>4, <1>5, <1>6

\* The base and the frames of the region in addresses: what new establishes
\* and no operation changes.
Placed(f) ==
  /\ f \in Allocator
  /\ f.base % PAGE_SIZE = 0
  /\ f.base + f.frame_count * PAGE_SIZE <= ADDRESSES

\* allocate turns an index into an address from which index_of gets the index
\* back.
LEMMA IndexOfAddress ==
  ASSUME NEW f, Placed(f), NEW i \in Frames(f)
  PROVE  /\ AddressOf(f, i) \in Address
         /\ HasIndex(f, AddressOf(f, i)) /\ IndexOf(f, AddressOf(f, i)) = i
<1>1. PAGE_SIZE \in Nat \ {0} /\ ADDRESSES \in Nat
  BY FrameSizes
<1>2. f.base \in Nat /\ f.frame_count \in Nat /\ i \in Nat /\ i < f.frame_count
  BY FrameSizes DEF Placed, Allocator, Address, Frames
<1>3. f.base + i * PAGE_SIZE < ADDRESSES
  <2>1. (i + 1) * PAGE_SIZE <= f.frame_count * PAGE_SIZE
    BY <1>1, <1>2
  <2> QED
    BY <2>1, <1>1, <1>2 DEF Placed
<1>4. AddressOf(f, i) = f.base + i * PAGE_SIZE /\ f.base + i * PAGE_SIZE \in Nat
  BY <1>1, <1>2, <1>3 DEF AddressOf
<1>5. /\ (f.base + i * PAGE_SIZE) % PAGE_SIZE = 0
      /\ (f.base + i * PAGE_SIZE - f.base) \div PAGE_SIZE = i
  BY <1>1, <1>2, Multiples, ZenonT(60) DEF Placed
<1> QED
  BY <1>1, <1>2, <1>3, <1>4, <1>5 DEF HasIndex, IndexOf, Address

\* An address index_of accepts is the address of that index, so two accepted
\* addresses never name the same frame.
LEMMA AddressOfIndex ==
  ASSUME NEW f, Placed(f), NEW a \in Address, HasIndex(f, a)
  PROVE  IndexOf(f, a) \in Frames(f) /\ AddressOf(f, IndexOf(f, a)) = a
<1>1. /\ PAGE_SIZE \in Nat \ {0} /\ ADDRESSES \in Nat /\ a \in Nat /\ f.base \in Nat
      /\ f.frame_count \in Nat
  BY FrameSizes DEF Placed, Allocator, Address
<1>2. (a - f.base) \div PAGE_SIZE \in Nat /\ f.base + ((a - f.base) \div PAGE_SIZE) * PAGE_SIZE = a
  BY <1>1, Distance, Zenon DEF Placed, HasIndex
<1>3. IndexOf(f, a) \in Nat /\ f.base + IndexOf(f, a) * PAGE_SIZE = a
      /\ IndexOf(f, a) < f.frame_count
  BY <1>2 DEF IndexOf, HasIndex
<1>4. a % ADDRESSES = a
  BY <1>1 DEF Address
<1> QED
  BY <1>1, <1>3, <1>4 DEF Frames, AddressOf

-----------------------------------------------------------------------------
(* allocate is first fit because no frame below the hint is free. *)

\* The hint is a frame, and the frames below it are used.
Hinted(f) ==
  /\ f.next_hint \in Frames(f)
  /\ \A i \in Frames(f) : i < f.next_hint => i \in f.used

\* Searching from the hint around the end finds the lowest free frame, and
\* fails only when there is none.
LEMMA PickIsLowest ==
  ASSUME NEW f, f \in Allocator, Hinted(f)
  PROVE  /\ FreeOffsets(f) = {} <=> FreeFrames(f) = {}
         /\ FreeFrames(f) # {} => /\ Pick(f) \in FreeFrames(f)
                                  /\ \A i \in FreeFrames(f) : Pick(f) <= i
<1> DEFINE n == f.frame_count
           h == f.next_hint
<1>1. n \in Nat \ {0} /\ h \in 0 .. n - 1
  BY FrameSizes DEF Allocator, Hinted, Frames
<1>2. \A o \in 0 .. n - 1 : Probe(f, o) = IF h + o < n THEN h + o ELSE h + o - n
  <2> TAKE o \in 0 .. n - 1
  <2>1. o \in 0 .. n
    BY <1>1
  <2> HIDE DEF n, h
  <2> QED
    BY <1>1, <2>1, Turn, Zenon DEF Probe, n, h
<1>3. \A o \in FreeOffsets(f) : Probe(f, o) = h + o /\ h + o \in FreeFrames(f)
  BY <1>1, <1>2 DEF FreeOffsets, FreeFrames, Frames, Hinted
<1>4. \A i \in FreeFrames(f) : i >= h /\ i - h \in FreeOffsets(f)
  BY <1>1, <1>2 DEF FreeOffsets, FreeFrames, Frames, Hinted
<1>5. FreeOffsets(f) = {} <=> FreeFrames(f) = {}
  BY <1>3, <1>4
<1>6. ASSUME FreeFrames(f) # {}
      PROVE  Pick(f) \in FreeFrames(f) /\ \A i \in FreeFrames(f) : Pick(f) <= i
  <2> DEFINE c == CHOOSE o \in FreeOffsets(f) : \A p \in FreeOffsets(f) : o <= p
  <2>1. FreeOffsets(f) \in SUBSET Nat /\ FreeOffsets(f) # {}
    BY <1>1, <1>5, <1>6 DEF FreeOffsets, Frames
  <2>2. \E o \in FreeOffsets(f) : \A p \in FreeOffsets(f) : o <= p
    BY <2>1, LeastElement
  <2>3. c \in FreeOffsets(f) /\ \A p \in FreeOffsets(f) : c <= p
    BY <2>2
  <2>4. Pick(f) = Probe(f, c)
    BY DEF Pick
  <2> HIDE DEF c
  <2>5. Pick(f) = h + c /\ c \in Nat
    BY <1>3, <2>1, <2>3, <2>4
  <2>6. \A i \in FreeFrames(f) : h + c <= i
    <3> TAKE i \in FreeFrames(f)
    <3>1. i \in Nat /\ i - h \in FreeOffsets(f)
      BY <1>4 DEF FreeFrames, Frames
    <3> QED
      BY <1>1, <2>3, <2>5, <3>1
  <2> QED
    BY <1>3, <2>3, <2>5, <2>6
<1> QED
  BY <1>5, <1>6

-----------------------------------------------------------------------------
(* The inductive invariant of the allocator and its callers. *)

\* The used frames of the region are the reserved and the held ones.
Accounted ==
  /\ reserved \subseteq {i \in Frames(fa) : i \in fa.used}
  /\ \A a \in held : HasIndex(fa, a) /\ IndexOf(fa, a) \in fa.used
  /\ \A i \in Frames(fa) : i \in fa.used => i \in reserved \/ AddressOf(fa, i) \in held

FrameInv == held \subseteq Address /\ Placed(fa) /\ Hinted(fa) /\ Accounted

\* The bitmap has a bit for each frame.
LEMMA FramesAreBits ==
  ASSUME NEW f \in Allocator
  PROVE  Frames(f) \subseteq Bits
  BY FrameSizes DEF Frames, Allocator, Bits

\* Two allocators of the same region: addresses and indices mean the same.
SameRegion(f, g) ==
  /\ Frames(g) = Frames(f)
  /\ \A a \in Address : /\ HasIndex(g, a) <=> HasIndex(f, a)
                        /\ IndexOf(g, a) = IndexOf(f, a)
  /\ \A i \in Bits : AddressOf(g, i) = AddressOf(f, i)

\* An operation that writes only the bitmap and the hint keeps the region.
LEMMA Rewrite ==
  ASSUME NEW f, Placed(f), NEW g \in Allocator,
         g.base = f.base, g.frame_count = f.frame_count
  PROVE  Placed(g) /\ SameRegion(f, g)
  BY DEF SameRegion, Frames, Placed, HasIndex, IndexOf, AddressOf

\* new makes an allocator that satisfies the invariant.
LEMMA InitFrames == Init => FrameInv
<1> SUFFICES ASSUME Init PROVE FrameInv
  OBVIOUS
<1>1. PICK r \in Regions : NewError(r[1], r[2]) = "Ok" /\ fa = New(r[1], r[2])
  BY DEF Init
<1> DEFINE count == r[2] \div PAGE_SIZE
<1>2. /\ PAGE_SIZE \in Nat \ {0} /\ CAPACITY \in Nat \ {0} /\ ADDRESSES \in Nat
      /\ r[1] \in Address /\ r[2] \in Nat /\ r[1] + r[2] <= ADDRESSES
  BY FrameSizes
<1>3. r[1] % PAGE_SIZE = 0 /\ r[2] % PAGE_SIZE = 0 /\ count \in 1 .. CAPACITY
  BY <1>1 DEF NewError
<1>4. count * PAGE_SIZE = r[2]
  <2>1. r[2] = PAGE_SIZE * count + (r[2] % PAGE_SIZE)
    BY <1>2, Division, Zenon
  <2> QED
    BY <1>2, <1>3, <2>1
<1>5. fa = [base |-> r[1], frame_count |-> count,
            used |-> count .. CAPACITY - 1, next_hint |-> 0]
  BY <1>1 DEF New
<1> HIDE DEF count
<1>6. Placed(fa)
  BY <1>2, <1>3, <1>4, <1>5 DEF Placed, Allocator, Bits
<1>7. Hinted(fa)
  BY <1>2, <1>3, <1>5 DEF Hinted, Frames
<1>8. Accounted
  BY <1>2, <1>3, <1>5 DEF Init, Accounted, Frames
<1> QED
  BY <1>6, <1>7, <1>8 DEF FrameInv, Init

\* allocate keeps the invariant: the frames up to the one it takes are used.
LEMMA AllocateFrames ==
  ASSUME FrameInv, DoAllocate, FreeOffsets(fa) # {}
  PROVE  FrameInv'
<1> DEFINE p == Pick(fa)
           n == fa.frame_count
           next == (p + 1) % n
<1>1. fa \in Allocator /\ Placed(fa) /\ Hinted(fa) /\ Accounted /\ held \subseteq Address
  BY DEF FrameInv, Placed
<1>2. p \in FreeFrames(fa) /\ \A i \in FreeFrames(fa) : p <= i
  BY <1>1, PickIsLowest
<1>3. fa' = [fa EXCEPT !.used = @ \cup {p}, !.next_hint = next]
  BY DEF DoAllocate, Allocate
<1>4. held' = held \cup {AddressOf(fa, p)} /\ reserved' = reserved
  BY DEF DoAllocate
<1>5. n \in Nat \ {0} /\ n <= CAPACITY /\ CAPACITY \in Nat /\ p \in 0 .. n - 1 /\ p \notin fa.used
  BY <1>1, <1>2, FrameSizes DEF Allocator, FreeFrames, Frames
<1> HIDE DEF p
<1>6. next = IF p + 1 < n THEN p + 1 ELSE 0
  <2> HIDE DEF n
  <2>1. 1 \in 0 .. n
    BY <1>5
  <2>2. (p + 1) % n = IF p + 1 < n THEN p + 1 ELSE p + 1 - n
    BY <1>5, <2>1, Turn, Zenon
  <2> QED
    BY <1>5, <2>2
<1>7. next \in 0 .. n - 1
  BY <1>5, <1>6
<1> HIDE DEF next
<1>8. fa.used \cup {p} \in SUBSET Bits /\ next \in Bits
  BY <1>1, <1>5, <1>7 DEF Allocator, Bits
<1>9. fa' = [fa EXCEPT !.used = fa.used \cup {p}, !.next_hint = next]
  BY <1>3
<1>10. /\ Placed(fa')
       /\ fa'.used = fa.used \cup {p} /\ fa'.next_hint = next
       /\ SameRegion(fa, fa')
  <2> DEFINE u == fa.used \cup {p}
             g == fa'
  <2>1. u \in SUBSET Bits /\ g = [fa EXCEPT !.used = u, !.next_hint = next]
    BY <1>1, <1>8, <1>9
  <2> HIDE DEF u, g
  <2>2. g \in Allocator
    BY <1>1, <1>8, <1>9, <2>1, Zenon DEF Allocator
  <2>3. /\ g.used = u /\ g.next_hint = next
        /\ g.base = fa.base /\ g.frame_count = fa.frame_count
    BY <1>1, <1>8, <1>9, <2>1 DEF Allocator
  <2>4. Placed(g) /\ SameRegion(fa, g)
    BY <1>1, <2>2, <2>3, Rewrite
  <2> QED
    BY <2>3, <2>4 DEF u, g
<1>11. Hinted(fa')
  <2>1. Frames(fa') = 0 .. n - 1 /\ Frames(fa) = 0 .. n - 1
    BY <1>10 DEF SameRegion, Frames
  <2> QED
    BY <1>2, <1>5, <1>6, <1>7, <1>10, <2>1 DEF Hinted, FreeFrames
<1>12. AddressOf(fa, p) \in Address /\ HasIndex(fa, AddressOf(fa, p)) /\ IndexOf(fa, AddressOf(fa, p)) = p
  BY <1>1, <1>5, IndexOfAddress DEF Frames
<1>13. Accounted'
  <2>1. p \notin reserved
    BY <1>1, <1>5 DEF Accounted
  <2> QED
    BY <1>1, <1>4, <1>10, <1>12, <2>1, FramesAreBits DEF Accounted, SameRegion
<1> QED
  BY <1>1, <1>4, <1>10, <1>11, <1>12, <1>13 DEF FrameInv

\* reserve keeps the invariant: it only adds used frames.
LEMMA ReserveFrames ==
  ASSUME FrameInv, NEW s \in Address, NEW k \in 0 .. MaxPages, DoReserve(s, k),
         ReserveError(fa, s, k) = "Ok"
  PROVE  FrameInv'
<1> DEFINE R == Reserved(fa, s, k)
<1>1. fa \in Allocator /\ Placed(fa) /\ Hinted(fa) /\ Accounted /\ held \subseteq Address
  BY DEF FrameInv, Placed
<1>2. R \subseteq Frames(fa)
  <2>1. HasIndex(fa, s) /\ IndexOf(fa, s) + k <= fa.frame_count
    <3>1. ~(IndexOf(fa, s) + k > fa.frame_count) /\ HasIndex(fa, s)
      BY DEF ReserveError
    <3>2. IndexOf(fa, s) \in Nat /\ fa.frame_count \in Nat /\ k \in Int
      BY <1>1, <3>1, AddressOfIndex, FrameSizes DEF Frames, Allocator
    <3> QED
      BY <3>1, <3>2
  <2>2. IndexOf(fa, s) \in Nat /\ fa.frame_count \in Nat
    BY <1>1, <2>1, AddressOfIndex, FrameSizes DEF Frames, Allocator
  <2> QED
    BY <2>1, <2>2 DEF Reserved, Frames
<1>3. Frames(fa) \subseteq Bits
  BY <1>1, FramesAreBits
<1>4. /\ fa' = [fa EXCEPT !.used = fa.used \cup R, !.next_hint = fa.next_hint]
      /\ held' = held
      /\ reserved' = reserved \cup R
  BY <1>1, Zenon DEF DoReserve, Reserve, Allocator
<1> HIDE DEF R
<1>5. fa.used \cup R \in SUBSET Bits /\ fa.next_hint \in Bits
  BY <1>1, <1>2, <1>3 DEF Allocator
<1>6. /\ Placed(fa')
      /\ fa'.used = fa.used \cup R /\ fa'.next_hint = fa.next_hint
      /\ SameRegion(fa, fa')
  <2> DEFINE u == fa.used \cup R
             g == fa'
  <2>1. u \in SUBSET Bits /\ g = [fa EXCEPT !.used = u, !.next_hint = fa.next_hint]
    BY <1>1, <1>4, <1>5
  <2> HIDE DEF u, g
  <2>2. g \in Allocator
    BY <1>1, <1>4, <1>5, <2>1, Zenon DEF Allocator
  <2>3. /\ g.used = u /\ g.next_hint = fa.next_hint
        /\ g.base = fa.base /\ g.frame_count = fa.frame_count
    BY <1>1, <1>4, <1>5, <2>1 DEF Allocator
  <2>4. Placed(g) /\ SameRegion(fa, g)
    BY <1>1, <2>2, <2>3, Rewrite
  <2> QED
    BY <2>3, <2>4 DEF u, g
<1>7. Hinted(fa')
  BY <1>1, <1>6 DEF Hinted, SameRegion
<1>8. Accounted'
  BY <1>1, <1>2, <1>3, <1>4, <1>6 DEF Accounted, SameRegion
<1> QED
  BY <1>1, <1>4, <1>6, <1>7, <1>8 DEF FrameInv

\* free of a used frame keeps the invariant: it ends the one allocation and the
\* reservation that its address stands for, and no other.
LEMMA FreeKeepsFrames ==
  ASSUME FrameInv, NEW a \in Address, DoFree(a), FreeError(fa, a) = "Ok"
  PROVE  FrameInv'
<1> DEFINE i == IndexOf(fa, a)
           h == IF i < fa.next_hint THEN i ELSE fa.next_hint
<1>1. fa \in Allocator /\ Placed(fa) /\ Hinted(fa) /\ Accounted /\ held \subseteq Address
  BY DEF FrameInv, Placed
<1>2. /\ HasIndex(fa, a) /\ i \in fa.used
      /\ i \in Frames(fa) /\ AddressOf(fa, i) = a
      /\ \A j \in Frames(fa) : AddressOf(fa, j) = a => j = i
  <2>1. HasIndex(fa, a) /\ i \in fa.used
    BY DEF FreeError
  <2> QED
    BY <1>1, <2>1, AddressOfIndex, IndexOfAddress
<1>3. /\ fa' = [fa EXCEPT !.used = fa.used \ {i}, !.next_hint = h]
      /\ held' = held \ {a} /\ reserved' = reserved \ {i}
  <2>1. {j \in Frames(fa) : AddressOf(fa, j) = a} = {i}
    BY <1>2
  <2> QED
    BY <2>1 DEF DoFree, Free
<1>4. fa.frame_count \in Nat /\ fa.frame_count <= CAPACITY /\ CAPACITY \in Nat
  BY <1>1, FrameSizes DEF Allocator
<1>5. h \in Frames(fa) /\ h \in Bits /\ h <= i /\ h <= fa.next_hint
  BY <1>1, <1>2, <1>4 DEF Hinted, Frames, Bits
<1> HIDE DEF i, h
<1>6. fa.used \ {i} \in SUBSET Bits
  BY <1>1 DEF Allocator
<1>7. /\ Placed(fa')
      /\ fa'.used = fa.used \ {i} /\ fa'.next_hint = h
      /\ SameRegion(fa, fa')
  <2> DEFINE u == fa.used \ {i}
             g == fa'
  <2>1. u \in SUBSET Bits /\ g = [fa EXCEPT !.used = u, !.next_hint = h]
    BY <1>1, <1>3, <1>5, <1>6
  <2> HIDE DEF u, g
  <2>2. g \in Allocator
    BY <1>1, <1>3, <1>5, <1>6, <2>1, Zenon DEF Allocator
  <2>3. /\ g.used = u /\ g.next_hint = h
        /\ g.base = fa.base /\ g.frame_count = fa.frame_count
    BY <1>1, <1>3, <1>5, <1>6, <2>1 DEF Allocator
  <2>4. Placed(g) /\ SameRegion(fa, g)
    BY <1>1, <2>2, <2>3, Rewrite
  <2> QED
    BY <2>3, <2>4 DEF u, g
<1>8. Hinted(fa')
  <2>1. \A j \in Frames(fa) : j < h => j \in fa.used /\ j # i
    BY <1>1, <1>2, <1>4, <1>5 DEF Hinted, Frames
  <2> QED
    BY <1>5, <1>7, <2>1 DEF Hinted, SameRegion
<1>9. \A b \in held : AddressOf(fa, IndexOf(fa, b)) = b
  BY <1>1, AddressOfIndex DEF Accounted
<1>10. Accounted'
  <2>1. \A b \in held \ {a} : IndexOf(fa, b) # i
    BY <1>2, <1>9
  <2>2. Frames(fa) \subseteq Bits /\ Frames(fa') = Frames(fa)
    BY <1>1, <1>7, FramesAreBits DEF SameRegion
  <2>3. \A b \in held' : HasIndex(fa', b) /\ IndexOf(fa', b) \in fa'.used
    BY <1>1, <1>3, <1>7, <2>1 DEF Accounted, SameRegion
  <2>4. \A j \in Frames(fa') : j \in fa'.used => j \in reserved' \/ AddressOf(fa', j) \in held'
    <3> SUFFICES ASSUME NEW j \in Frames(fa), j \in fa.used, j # i, j \notin reserved
                 PROVE  AddressOf(fa', j) \in held'
      BY <1>3, <1>7, <2>2
    <3>1. AddressOf(fa, j) \in held /\ AddressOf(fa', j) = AddressOf(fa, j)
      BY <1>1, <1>7, <2>2 DEF Accounted, SameRegion
    <3>2. AddressOf(fa, j) # a
      BY <1>1, IndexOfAddress DEF i
    <3> QED
      BY <1>3, <3>1, <3>2
  <2> QED
    BY <1>1, <1>2, <1>3, <1>7, <2>2, <2>3, <2>4 DEF Accounted
<1> QED
  BY <1>1, <1>3, <1>7, <1>8, <1>10 DEF FrameInv

\* A refused free was not for a frame that is held or reserved.
LEMMA RefusedFree ==
  ASSUME FrameInv, NEW a \in Address, DoFree(a), FreeError(fa, a) # "Ok"
  PROVE  UNCHANGED vars
<1>1. Placed(fa) /\ Accounted
  BY DEF FrameInv
<1>2. a \notin held
  BY <1>1 DEF Accounted, FreeError
<1>3. ASSUME NEW i \in Frames(fa), AddressOf(fa, i) = a PROVE i \notin reserved
  <2>1. HasIndex(fa, a) /\ IndexOf(fa, a) = i
    BY <1>1, <1>3, IndexOfAddress
  <2> QED
    BY <1>1, <2>1 DEF Accounted, FreeError
<1> QED
  BY <1>2, <1>3 DEF DoFree, vars

\* Every step keeps the invariant.
LEMMA NextFrames == FrameInv /\ [Next]_vars => FrameInv'
<1> SUFFICES ASSUME FrameInv, [Next]_vars PROVE FrameInv'
  OBVIOUS
<1>1. CASE UNCHANGED vars
  BY <1>1 DEF vars, FrameInv, Accounted
<1>2. CASE DoAllocate
  <2>1. FreeOffsets(fa) = {} => UNCHANGED vars
    BY <1>2 DEF DoAllocate, Allocate, vars
  <2> QED
    BY <1>1, <1>2, <2>1, AllocateFrames
<1>3. ASSUME NEW s \in Address, NEW k \in 0 .. MaxPages, DoReserve(s, k)
      PROVE  FrameInv'
  <2>1. ReserveError(fa, s, k) # "Ok" => UNCHANGED vars
    BY <1>3 DEF DoReserve, vars
  <2> QED
    BY <1>1, <1>3, <2>1, ReserveFrames
<1>4. ASSUME NEW a \in Address, DoFree(a)
      PROVE  FrameInv'
  BY <1>1, <1>4, FreeKeepsFrames, RefusedFree
<1> QED
  BY <1>1, <1>2, <1>3, <1>4 DEF Next

-----------------------------------------------------------------------------
(* The theorems about frames. *)

\* The inductive invariant holds in every reachable state: allocate, reserve
\* and free keep each used frame reserved or held, and the hint below every
\* free frame.
THEOREM FramesAccounted == Spec => []FrameInv
  BY InitFrames, NextFrames, PTL DEF Spec

\* Type correctness of the allocator and its callers.
THEOREM FramesType == Spec => []TypeOK
<1>1. FrameInv => TypeOK
  BY FrameSizes DEF FrameInv, Placed, Accounted, TypeOK, Frames, Allocator, Bits
<1> QED
  BY <1>1, FramesAccounted, PTL

\* For every region, a frame that allocate handed out stays marked used until
\* free is called with its address, whatever is freed and reserved besides, and
\* that call is accepted: the address leads back to its index.
THEOREM HoldersCanFree == Spec => []HeldFramesCanBeFreed
<1>1. FrameInv => HeldFramesCanBeFreed
  BY DEF FrameInv, Accounted, HeldFramesCanBeFreed, FreeError
<1> QED
  BY <1>1, FramesAccounted, PTL

\* For every region, OutOfMemory means that each frame is reserved or held: the
\* search from the hint looks at all of them.
THEOREM FramesNeverLost == Spec => []NoFrameLost
<1>1. FrameInv => NoFrameLost
  BY PickIsLowest DEF FrameInv, Placed, Accounted, NoFrameLost, FreeFrames
<1> QED
  BY <1>1, FramesAccounted, PTL

\* The address an allocation returns is that of the lowest free frame.
LEMMA NewlyHeld ==
  ASSUME FrameInv, [Next]_vars, NEW a \in held' \ held
  PROVE  /\ IndexOf(fa, a) \in FreeFrames(fa) /\ IndexOf(fa, a) \notin reserved
         /\ \A i \in FreeFrames(fa) : IndexOf(fa, a) <= i
<1>1. DoAllocate /\ FreeOffsets(fa) # {}
  BY DEF Next, DoAllocate, DoReserve, DoFree, vars
<1>2. a = AddressOf(fa, Pick(fa))
  BY <1>1 DEF DoAllocate
<1>3. Pick(fa) \in FreeFrames(fa) /\ \A i \in FreeFrames(fa) : Pick(fa) <= i
  BY <1>1, PickIsLowest DEF FrameInv, Placed
<1>4. IndexOf(fa, a) = Pick(fa)
  BY <1>2, <1>3, IndexOfAddress DEF FrameInv, FreeFrames
<1>5. Pick(fa) \notin reserved
  BY <1>3 DEF FrameInv, Accounted, FreeFrames
<1> QED
  BY <1>3, <1>4, <1>5

\* For every region and history of calls, allocate is first fit.
THEOREM AllocationIsFirstFit == Spec => FirstFit
<1>1. FrameInv /\ [Next]_vars =>
        [\A a \in held' \ held : /\ IndexOf(fa, a) \in FreeFrames(fa)
                                 /\ \A i \in FreeFrames(fa) : IndexOf(fa, a) <= i]_vars
  BY NewlyHeld
<1> QED
  BY <1>1, FramesAccounted, PTL DEF Spec, FirstFit

\* For every region, and although anybody may free any address, allocate never
\* returns a frame that was reserved and whose address was not freed since.
THEOREM ReservationsAreKept == Spec => ReservedNeverHandedOut
<1>1. FrameInv /\ [Next]_vars =>
        [\A a \in held' \ held : IndexOf(fa, a) \notin reserved]_vars
  BY NewlyHeld
<1> QED
  BY <1>1, FramesAccounted, PTL DEF Spec, ReservedNeverHandedOut

-----------------------------------------------------------------------------
(* The address-space map: a table walk determines the page. *)

\* Shifting by two index widths is shifting twice.
LEMMA NestedDivision ==
  ASSUME NEW n \in Nat, NEW d \in Nat \ {0}, NEW e \in Nat \ {0}
  PROVE  n \div (d * e) = (n \div d) \div e
<1> DEFINE q == n \div d
           r == n % d
           s == q \div e
           t == q % e
<1>1. q \in Nat /\ r \in 0 .. d - 1 /\ n = d * q + r
  BY Division, Zenon
<1> HIDE DEF q, r
<1>2. s \in Nat /\ t \in 0 .. e - 1 /\ q = e * s + t
  BY <1>1, Division, Zenon
<1> HIDE DEF s, t
<1>3. d * t <= d * (e - 1) /\ d * t \in Nat
  BY <1>2, SMT
<1>4. d * (e - 1) = d * e - d /\ d * e \in Nat \ {0}
  BY SMT
<1>5. d * t + r \in 0 .. (d * e) - 1
  BY <1>1, <1>3, <1>4
<1>6. n = (d * e) * s + (d * t + r)
  <2>1. d * (e * s + t) = (d * e) * s + d * t
    BY <1>2, SMT
  <2> QED
    BY <1>1, <1>2, <2>1
<1>7. ((d * e) * s + (d * t + r)) \div (d * e) = s
  BY <1>2, <1>4, <1>5, DivisionUnique
<1> QED
  BY <1>6, <1>7 DEF s, q

\* Numbers with the same remainder and the same quotient are equal.
LEMMA SameDigits ==
  ASSUME NEW m \in Nat, NEW n \in Nat, NEW d \in Nat \ {0},
         m \div d = n \div d, m % d = n % d
  PROVE  m = n
<1>1. m = d * (m \div d) + (m % d) /\ n = d * (n \div d) + (n % d)
  BY Division
<1> QED
  BY <1>1

\* A number below d * e has a quotient by d below e.
LEMMA QuotientBelow ==
  ASSUME NEW n \in Nat, NEW d \in Nat \ {0}, NEW e \in Nat, n < d * e
  PROVE  n \div d \in 0 .. e - 1
<1> DEFINE q == n \div d
<1>1. q \in Nat /\ n % d \in 0 .. d - 1 /\ n = d * q + (n % d)
  BY Division, Zenon
<1> HIDE DEF q
<1>2. q >= e => d * q >= d * e
  BY <1>1, SMT
<1>3. q < e
  BY <1>1, <1>2
<1> QED
  BY <1>1, <1>3 DEF q

\* Two page-aligned user addresses with the same index at every level are equal.
LEMMA WalkDetermines ==
  ASSUME NEW v \in Nat, NEW w \in Nat,
         v % PAGE_SIZE = 0, w % PAGE_SIZE = 0, v < USER_TOP, w < USER_TOP,
         \A level \in 0 .. 3 : LevelIndex(v, level) = LevelIndex(w, level)
  PROVE  v = w
<1> DEFINE P == PAGE_SIZE
           E == ENTRIES_PER_TABLE
           Q(n) == n \div P
           R(n) == Q(n) \div E
           S(n) == R(n) \div E
           T(n) == S(n) \div E
<1>1. P \in Nat \ {0} /\ E \in Nat \ {0}
  BY PagingSizes
<1>2. P * E \in Nat \ {0} /\ P * E * E \in Nat \ {0} /\ P * E * E * E \in Nat \ {0}
  <2>1. P * E \in Nat \ {0}
    BY <1>1, SMT
  <2>2. P * E * E \in Nat \ {0}
    BY <1>1, <2>1, SMT
  <2> QED
    BY <1>1, <2>1, <2>2, SMT
<1>3. \A n \in Nat : /\ Q(n) \in Nat /\ R(n) \in Nat /\ S(n) \in Nat /\ T(n) \in Nat
                     /\ n \div (P * E) = R(n)
                     /\ n \div (P * E * E) = S(n)
                     /\ n \div (P * E * E * E) = T(n)
  <2> TAKE n \in Nat
  <2>1. Q(n) \in Nat
    BY <1>1, Division, Zenon
  <2>2. R(n) \in Nat
    BY <1>1, <2>1, Division, Zenon
  <2>3. S(n) \in Nat
    BY <1>1, <2>2, Division, Zenon
  <2>4. T(n) \in Nat
    BY <1>1, <2>3, Division, Zenon
  <2>5. n \div (P * E) = R(n)
    BY <1>1, NestedDivision, Zenon
  <2>6. n \div (P * E * E) = S(n)
    <3> DEFINE D == P * E
    <3>1. n \div D = R(n) /\ D \in Nat \ {0}
      BY <1>2, <2>5
    <3> HIDE DEF D, R
    <3>2. n \div (D * E) = (n \div D) \div E
      BY <1>1, <3>1, NestedDivision, Zenon
    <3> QED
      BY <3>1, <3>2 DEF D
  <2>7. n \div (P * E * E * E) = T(n)
    <3> DEFINE D == P * E * E
    <3>1. n \div D = S(n) /\ D \in Nat \ {0}
      BY <1>2, <2>6
    <3> HIDE DEF D, S
    <3>2. n \div (D * E) = (n \div D) \div E
      BY <1>1, <3>1, NestedDivision, Zenon
    <3> QED
      BY <3>1, <3>2 DEF D
  <2> QED
    BY <2>1, <2>2, <2>3, <2>4, <2>5, <2>6, <2>7
<1>4. \A n \in Nat : n < USER_TOP => T(n) \in 0 .. E - 1
  <2> TAKE n \in Nat
  <2> HAVE n < USER_TOP
  <2>1. n < (P * E * E * E) * E
    BY <1>1, <1>2, PagingSizes DEF Reach
  <2>2. n \div (P * E * E * E) \in 0 .. E - 1
    BY <1>1, <1>2, <2>1, QuotientBelow, Zenon
  <2> QED
    BY <1>3, <2>2
<1>5. \A n \in Nat : /\ LevelIndex(n, 3) = Q(n) % E /\ LevelIndex(n, 2) = R(n) % E
                     /\ LevelIndex(n, 1) = S(n) % E /\ LevelIndex(n, 0) = T(n) % E
  BY <1>3 DEF LevelIndex, Reach
<1>6. /\ Q(v) % E = Q(w) % E /\ R(v) % E = R(w) % E
      /\ S(v) % E = S(w) % E /\ T(v) % E = T(w) % E
  <2>1. 0 \in 0 .. 3 /\ 1 \in 0 .. 3 /\ 2 \in 0 .. 3 /\ 3 \in 0 .. 3
    OBVIOUS
  <2> HIDE DEF Q, R, S, T
  <2> QED
    BY <1>5, <2>1
<1>7. \A n \in Nat : T(n) = S(n) \div E /\ S(n) = R(n) \div E /\ R(n) = Q(n) \div E
  OBVIOUS
<1> HIDE DEF Q, R, S, T
<1>8. T(v) \in 0 .. E - 1 /\ T(w) \in 0 .. E - 1
  BY <1>4
<1>9. \A t \in 0 .. E - 1 : t % E = t
  BY <1>1
<1>10. T(v) = T(w)
  BY <1>6, <1>8, <1>9
<1>11. S(v) = S(w)
  <2>1. S(v) \div E = S(w) \div E /\ S(v) % E = S(w) % E
    BY <1>6, <1>7, <1>10
  <2>2. S(v) \in Nat /\ S(w) \in Nat
    BY <1>3
  <2> QED
    BY <1>1, <2>1, <2>2, SameDigits
<1>12. R(v) = R(w)
  <2>1. R(v) \div E = R(w) \div E /\ R(v) % E = R(w) % E
    BY <1>6, <1>7, <1>11
  <2>2. R(v) \in Nat /\ R(w) \in Nat
    BY <1>3
  <2> QED
    BY <1>1, <2>1, <2>2, SameDigits
<1>13. Q(v) = Q(w)
  <2>1. Q(v) \div E = Q(w) \div E /\ Q(v) % E = Q(w) % E
    BY <1>6, <1>7, <1>12
  <2>2. Q(v) \in Nat /\ Q(w) \in Nat
    BY <1>3
  <2> QED
    BY <1>1, <2>1, <2>2, SameDigits
<1> QED
  BY <1>1, <1>13, SameDigits, Zenon DEF Q

-----------------------------------------------------------------------------
(* The invariant of the map. *)

\* What map has let through: aligned, below USER_TOP if it is the user's, never
\* both writable and executable, and no virtual address twice.
Admitted ==
  /\ \A i \in Present :
       /\ ~Unaligned(mappings[i])
       /\ mappings[i].permissions.user => mappings[i].virtual_address < USER_TOP
       /\ ~WriteExecute(mappings[i].permissions)
  /\ \A i, j \in Present :
       mappings[i].virtual_address = mappings[j].virtual_address => i = j

\* map puts the new mapping into the first vacant entry.
LEMMA SlotIsFirst ==
  ASSUME Vacant # {}
  PROVE  Slot \in Entries /\ Slot \in Vacant /\ \A j \in Vacant : Slot <= j
<1>1. Vacant \in SUBSET Nat /\ Vacant \in SUBSET Entries
  BY PagingSizes DEF Vacant, Entries
<1>2. \E i \in Vacant : \A j \in Vacant : i <= j
  BY <1>1, LeastElement
<1> QED
  BY <1>1, <1>2, Zenon DEF Slot

\* The type invariant and Admitted hold at the start ...
LEMMA AdmittedInit == MapInit => MapTypeOK /\ Admitted
  BY DEF MapInit, MapTypeOK, Admitted, Present

\* ... and every map call, accepted or refused, preserves them.
LEMMA AdmittedStep == MapTypeOK /\ Admitted /\ [MapNext]_mappings => MapTypeOK' /\ Admitted'
<1> SUFFICES ASSUME MapTypeOK, Admitted, [MapNext]_mappings PROVE MapTypeOK' /\ Admitted'
  OBVIOUS
<1>1. CASE UNCHANGED mappings
  BY <1>1 DEF MapTypeOK, Admitted, Present
<1>2. ASSUME NEW m \in Mapping, Map(m) PROVE MapTypeOK' /\ Admitted'
  <2>1. MapError(m) = "Ok" /\ mappings' = [mappings EXCEPT ![Slot] = m]
    BY <1>2 DEF Map
  <2>2. /\ ~Unaligned(m) /\ ~WriteExecute(m.permissions)
        /\ m.permissions.user => ~(m.virtual_address >= USER_TOP)
        /\ \A i \in Present : mappings[i].virtual_address # m.virtual_address
        /\ Vacant # {}
    BY <2>1 DEF MapError
  <2>3. Slot \in Entries /\ Slot \in Vacant /\ \A j \in Vacant : Slot <= j
    BY <2>2, SlotIsFirst
  <2>4. /\ mappings'[Slot] = m
        /\ \A i \in Entries : i # Slot => mappings'[i] = mappings[i]
        /\ mappings' \in [Entries -> Mapping \cup {None}]
    BY <2>1, <2>3 DEF MapTypeOK
  <2>5. m # None
    BY PagingNone
  <2>6. Present' = Present \cup {Slot} /\ Slot \notin Present
    BY <2>3, <2>4, <2>5 DEF Present, Vacant
  <2>7. MapTypeOK'
    <3>1. ASSUME NEW i \in Entries, NEW j \in Entries, i < j, mappings'[j] # None
          PROVE  mappings'[i] # None
      <4>1. CASE j = Slot
        <5>1. i \notin Vacant /\ i # Slot
          BY <2>3, <3>1, <4>1, PagingSizes DEF Entries
        <5> QED
          BY <2>4, <5>1 DEF Vacant, Present
      <4>2. CASE j # Slot
        BY <2>4, <2>5, <3>1, <4>2 DEF MapTypeOK
      <4> QED
        BY <4>1, <4>2
    <3> QED
      BY <2>4, <3>1 DEF MapTypeOK
  <2>8. m.virtual_address \in Nat
    BY PagingSizes, Zenon DEF Mapping
  <2>9. Admitted'
    <3>1. ASSUME NEW i \in Present'
          PROVE  /\ ~Unaligned(mappings'[i])
                 /\ mappings'[i].permissions.user =>
                      mappings'[i].virtual_address < USER_TOP
                 /\ ~WriteExecute(mappings'[i].permissions)
      <4>1. CASE i = Slot
        BY <2>2, <2>4, <2>8, <4>1, PagingSizes
      <4>2. CASE i # Slot
        BY <2>4, <2>6, <3>1, <4>2 DEF Admitted, Present
      <4> QED
        BY <4>1, <4>2
    <3>2. ASSUME NEW i \in Present', NEW j \in Present',
                 mappings'[i].virtual_address = mappings'[j].virtual_address
          PROVE  i = j
      BY <2>2, <2>4, <2>6, <3>2 DEF Admitted, Present
    <3> QED
      BY <3>1, <3>2 DEF Admitted
  <2> QED
    BY <2>7, <2>9
<1>3. ASSUME NEW m \in Mapping, MapRefused(m) PROVE MapTypeOK' /\ Admitted'
  BY <1>1, <1>3 DEF MapRefused
<1> QED
  BY <1>1, <1>2, <1>3 DEF MapNext

-----------------------------------------------------------------------------
(* The theorems about mappings. *)

\* The invariant for every reachable state.
LEMMA AdmittedAlways == MapSpec => [](MapTypeOK /\ Admitted)
  BY AdmittedInit, AdmittedStep, PTL DEF MapSpec

\* The array stays well-formed and is filled from the front.
THEOREM MapType == MapSpec => []MapTypeOK
  BY AdmittedAlways, PTL

\* What page_descriptor makes of permissions that are not both writable and
\* executable, in terms of what the MMU grants.
LEMMA AttributesFaithful ==
  ASSUME NEW p \in PagePermissions, ~WriteExecute(p)
  PROVE  LET bits == Attributes(p)
         IN /\ \A el, level \in {0, 1} : ~(Writes(el, bits) /\ Executes(level, bits))
            /\ Writes(0, bits) = (p.user /\ p.writable)
            /\ Executes(0, bits) = (p.user /\ p.executable)
            /\ Executes(1, bits) = (~p.user /\ p.executable)
<1>1. /\ p.user \in BOOLEAN /\ p.writable \in BOOLEAN
      /\ p.executable \in BOOLEAN /\ p.device \in BOOLEAN
  BY DEF PagePermissions
<1> DEFINE bits == Attributes(p)
<1>2. /\ "AP_READ_ONLY" \in bits <=> ~p.writable
      /\ "AP_USER" \in bits <=> p.user
      /\ "UXN" \in bits <=> (~p.executable \/ ~p.user)
      /\ "PXN" \in bits <=> (~p.executable \/ p.user)
  BY <1>1 DEF Attributes
<1> HIDE DEF bits
<1>3. /\ \A el, level \in {0, 1} : ~(Writes(el, bits) /\ Executes(level, bits))
      /\ Writes(0, bits) = (p.user /\ p.writable)
      /\ Executes(0, bits) = (p.user /\ p.executable)
      /\ Executes(1, bits) = (~p.user /\ p.executable)
  BY <1>1, <1>2 DEF Writes, Executes, WriteExecute
<1> QED
  BY <1>3 DEF bits

\* The mask keeps an aligned address exactly when it is below OUTPUT_TOP.
LEMMA MaskedFits ==
  ASSUME NEW pa \in Nat, pa % PAGE_SIZE = 0
  PROVE  Masked(pa) = pa <=> pa < OUTPUT_TOP
<1> DEFINE x == pa % OUTPUT_TOP
           y == x % PAGE_SIZE
<1>1. OUTPUT_TOP \in Nat \ {0} /\ PAGE_SIZE \in Nat \ {0}
  BY PagingSizes
<1>2. x \in 0 .. OUTPUT_TOP - 1 /\ (pa < OUTPUT_TOP => x = pa)
  BY <1>1
<1>3. y \in 0 .. PAGE_SIZE - 1 /\ (x = pa => y = 0)
  <2> HIDE DEF x
  <2> QED
    BY <1>1, <1>2
<1>4. Masked(pa) = x - y
  BY DEF Masked
<1> HIDE DEF x, y
<1> QED
  BY <1>1, <1>2, <1>3, <1>4

\* Every admitted mapping has a descriptor.  The descriptor grants what the
\* mapping says and never both write and execute, and leads to the page the
\* mapping names exactly when that page is below OUTPUT_TOP.
THEOREM DescriptorsAreFaithful == MapSpec => []DescriptorsFaithful
<1>1. MapTypeOK /\ Admitted => DescriptorsFaithful
  <2> SUFFICES ASSUME MapTypeOK, Admitted, NEW i \in Present
               PROVE  LET m == mappings[i]
                          p == m.permissions
                          d == PageDescriptor(m.physical_address, p)
                      IN /\ HasDescriptor(PAGE_SIZE, m.physical_address, p)
                         /\ d.output = m.physical_address <=> m.physical_address < OUTPUT_TOP
                         /\ \A el, level \in {0, 1} :
                              ~(Writes(el, d.bits) /\ Executes(level, d.bits))
                         /\ Writes(0, d.bits) = (p.user /\ p.writable)
                         /\ Executes(0, d.bits) = (p.user /\ p.executable)
                         /\ Executes(1, d.bits) = (~p.user /\ p.executable)
    BY DEF DescriptorsFaithful
  <2> DEFINE m == mappings[i]
             p == m.permissions
             d == PageDescriptor(m.physical_address, p)
  <2>1. m \in Mapping
    BY DEF MapTypeOK, Present
  <2>2. p \in PagePermissions /\ m.physical_address \in Nat
    BY <2>1, PagingSizes, Zenon DEF Mapping
  <2>3. ~Unaligned(m) /\ ~WriteExecute(p)
    BY DEF Admitted
  <2>4. HasDescriptor(PAGE_SIZE, m.physical_address, p)
    BY <2>3 DEF HasDescriptor, Unaligned, WriteExecute
  <2>5. /\ d.output = m.physical_address <=> m.physical_address < OUTPUT_TOP
        /\ d.bits = Attributes(p)
    <3>1. m.physical_address % PAGE_SIZE = 0
      BY <2>3 DEF Unaligned
    <3>2. Masked(m.physical_address) = m.physical_address <=> m.physical_address < OUTPUT_TOP
      BY <2>2, <3>1, MaskedFits
    <3> QED
      BY <3>2 DEF PageDescriptor
  <2> DEFINE bits == Attributes(p)
  <2>6. /\ \A el, level \in {0, 1} : ~(Writes(el, bits) /\ Executes(level, bits))
        /\ Writes(0, bits) = (p.user /\ p.writable)
        /\ Executes(0, bits) = (p.user /\ p.executable)
        /\ Executes(1, bits) = (~p.user /\ p.executable)
    <3> HIDE DEF p
    <3> QED
      BY <2>2, <2>3, AttributesFaithful
  <2> QED
    BY <2>4, <2>5, <2>6, Zenon
<1> QED
  BY <1>1, AdmittedAlways, PTL

\* Two different user mappings part ways at some level of the page tables.
THEOREM WalksAreDisjoint == MapSpec => []WalksDisjoint
<1>1. MapTypeOK /\ Admitted => WalksDisjoint
  <2> SUFFICES ASSUME MapTypeOK, Admitted, NEW i \in Present, NEW j \in Present,
                      mappings[i].permissions.user, mappings[j].permissions.user,
                      \A level \in 0 .. 3 :
                        LevelIndex(mappings[i].virtual_address, level)
                          = LevelIndex(mappings[j].virtual_address, level)
               PROVE  i = j
    BY DEF WalksDisjoint
  <2> DEFINE v == mappings[i].virtual_address
             w == mappings[j].virtual_address
  <2>1. mappings[i] \in Mapping /\ mappings[j] \in Mapping
    BY DEF MapTypeOK, Present
  <2>2. v \in Nat /\ w \in Nat
    BY <2>1, PagingSizes, Zenon DEF Mapping
  <2>3. v % PAGE_SIZE = 0 /\ w % PAGE_SIZE = 0 /\ v < USER_TOP /\ w < USER_TOP
    BY DEF Admitted, Unaligned
  <2>4. v = w
    BY <2>2, <2>3, WalkDetermines
  <2> QED
    BY <2>4 DEF Admitted
<1> QED
  BY <1>1, AdmittedAlways, PTL

\* A mapping stays what mapping_at answers.
THEOREM MappingsAreKept == MapSpec => MappingsStay
<1> DEFINE Kept == \A va \in Virtual : MappingAt(mappings, va) # None =>
                     MappingAt(mappings', va) = MappingAt(mappings, va)
<1>1. MapTypeOK /\ Admitted /\ [MapNext]_mappings => [Kept]_mappings
  <2> SUFFICES ASSUME MapTypeOK, MapNext, NEW va \in Virtual, MappingAt(mappings, va) # None
               PROVE  MappingAt(mappings', va) = MappingAt(mappings, va)
    OBVIOUS
  <2>1. CASE UNCHANGED mappings
    BY <2>1
  <2>2. ASSUME NEW m \in Mapping, Map(m)
        PROVE  MappingAt(mappings', va) = MappingAt(mappings, va)
    <3> DEFINE Found(array) ==
          {i \in Entries : array[i] # None /\ array[i].virtual_address = va}
    <3>1. Vacant # {} /\ \A i \in Present : mappings[i].virtual_address # m.virtual_address
      BY <2>2 DEF Map, MapError
    <3>2. Slot \in Entries /\ mappings[Slot] = None
      BY <3>1, SlotIsFirst DEF Vacant, Present
    <3>3. /\ mappings'[Slot] = m
          /\ \A i \in Entries : i # Slot => mappings'[i] = mappings[i]
      BY <2>2, <3>2 DEF Map, MapTypeOK
    <3>4. Found(mappings) # {}
      BY DEF MappingAt
    <3>5. PICK k \in Entries : mappings[k] # None /\ mappings[k].virtual_address = va
      BY <3>4
    <3>6. m.virtual_address # va
      BY <3>1, <3>5 DEF Present
    <3>7. Found(mappings') = Found(mappings)
      BY <3>2, <3>3, <3>6
    <3>8. \A i \in Found(mappings) : mappings'[i] = mappings[i]
      BY <3>2, <3>3
    <3> DEFINE first == CHOOSE i \in Found(mappings) : \A j \in Found(mappings) : i <= j
    <3>9. first \in Found(mappings)
      <4>1. Found(mappings) \in SUBSET Nat
        BY PagingSizes DEF Entries
      <4> HIDE DEF Found
      <4>2. \E i \in Found(mappings) : \A j \in Found(mappings) : i <= j
        BY <3>4, <4>1, LeastElement
      <4> QED
        BY <4>2
    <3>10. MappingAt(mappings, va) = mappings[first]
      BY <3>4 DEF MappingAt
    <3>11. MappingAt(mappings', va) = mappings'[first]
      BY <3>4, <3>7, Zenon DEF MappingAt
    <3> HIDE DEF first
    <3> QED
      BY <3>8, <3>9, <3>10, <3>11
  <2> QED
    BY <2>1, <2>2 DEF MapNext, MapRefused
<1> QED
  BY <1>1, AdmittedAlways, PTL DEF MapSpec, MappingsStay

=============================================================================
