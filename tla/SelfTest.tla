------------------------------- MODULE SelfTest ------------------------------
(***************************************************************************)
(* The self-tests kernel_main runs before it enables interrupts, on stores *)
(* of their own, with the sizes and values of src/main.rs.  Each ends in a *)
(* line of the boot transcript; an unwrap that fails is a panic.           *)
(***************************************************************************)
EXTENDS Integers, Option, Descriptors

REGION == 1090519040    \* 0x4100_0000
PAGE == 4096

\* FrameAllocator::<1>; the address space ends beyond the region.
TestFrames == INSTANCE FrameAllocator WITH PAGE_SIZE <- PAGE, CAPACITY <- 64,
       ADDRESSES <- REGION + 64 * PAGE, Regions <- {<<REGION, 8 * PAGE>>}

\* CapabilitySystem::<4, 8, 16>
TestCaps == INSTANCE Grants WITH TASKS <- 4, SLOTS <- 8, NODES <- 16,
       GENERATIONS <- 65536, EmptyObject <- "empty", Objects <- {"empty"}

\* RendezvousIpc::<4, 2>
TestIpc == INSTANCE Rendezvous WITH THREADS <- 4, ENDPOINTS <- 2,
       Messages <- {"default", "message"}, DefaultMessage <- "default"

\* Scheduler::<4>
TestTasks == INSTANCE RoundRobin WITH TASKS <- 4, TICKS <- 2, Contexts <- {"empty"},
       EmptyContext <- "empty"

FramesNew == TestFrames!New(REGION, 8 * PAGE)
FramesReserved == TestFrames!Reserve(FramesNew, REGION, 2)

MemoryTest ==
  /\ TestFrames!AddressOf(FramesReserved, TestFrames!Pick(FramesReserved)) = REGION + 2 * PAGE
  /\ HasDescriptor(PAGE, REGION + 2 * PAGE, USER_DATA)

\* authorize_endpoint compares the endpoint too, there is one object of the type.
SyscallTest ==
  /\ TestCaps!AuthorizeError(TestCaps!Granted, 2, 1, {"WRITE"}, "Endpoint") = "Ok"
  /\ TestCaps!AuthorizeError(TestCaps!Granted, 2, 0, {"WRITE"}, "Endpoint") # "Ok"

IpcTest ==
  LET send == TestIpc!Send(TestIpc!EmptyIpc, 2, 0, "message")
      receive == TestIpc!Receive(send.ipc, 1, 0)
  IN /\ send.out = TestIpc!Blocked
     /\ receive.out = TestIpc!Delivered(2)
     /\ receive.ipc.threads[1].inbox = "message"

SpawnedOnce == TestTasks!Spawn(TestTasks!EmptyScheduler, "empty")
SpawnedTwice == TestTasks!Spawn(SpawnedOnce, "empty")

SchedulerTest ==
  LET first == TestTasks!Schedule(SpawnedTwice)
      second == TestTasks!Schedule(first)
  IN /\ first.current = TestTasks!FirstUnused(TestTasks!EmptyScheduler)
     /\ second.current = TestTasks!FirstUnused(SpawnedOnce)
     /\ TestTasks!Schedule(second).current = TestTasks!FirstUnused(TestTasks!EmptyScheduler)

\* No unwrap on the way panics.
UnwrapsSucceed ==
  /\ TestFrames!NewError(REGION, 8 * PAGE) = "Ok"
  /\ TestFrames!ReserveError(FramesNew, REGION, 2) = "Ok"
  /\ TestFrames!FreeOffsets(FramesReserved) # {}
  /\ TestCaps!GrantsSucceed
  /\ TestTasks!Unused(TestTasks!EmptyScheduler) # {} /\ TestTasks!Unused(SpawnedOnce) # {}

\* The lines of the transcript.
Transcript ==
  [memory |-> MemoryTest,
   console |-> TestCaps!ResolveError(TestCaps!Granted, 1, 0, {"WRITE"}) = "Ok",
   sandbox |-> TestCaps!ResolveError(TestCaps!Granted, 2, 0, {"WRITE"}) = "Ok",
   ipc |-> IpcTest, syscall |-> SyscallTest, sched |-> SchedulerTest]

=============================================================================
