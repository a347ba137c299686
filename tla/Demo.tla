-------------------------------- MODULE Demo ---------------------------------
(***************************************************************************)
(* The kernel running the EL0 programs of src/user.S: task A, the task B   *)
(* it is preempted by, and the console server.  An EL0 step is an          *)
(* instruction, or several that touch registers only.                      *)
(***************************************************************************)
EXTENDS Kernel

CONSTANT LetterA    \* the byte of the first call, #65

ASSUME LetterAssumption == LetterA \in Bytes

VARIABLE flag       \* the word at the top of stack A that B sets

vars == <<kernelVars, flag>>

Init == KernelInit /\ flag \in {0, 1}

\* The program is at `from`; the frame a trap would see is at `to`.
At(from) == main = "user" /\ cpu.pc = from
To(pc) == [cpu EXCEPT !.pc = pc]

\* An instruction that does not trap.
Runs(from, registers) ==
  /\ At(from)
  /\ cpu' = registers
  /\ UNCHANGED <<main, report, timer, ticks, spurious, late, sched, switches, rt, uart>>

\* A store to a page of the boot tables, which may keep it from EL0; to the
\* UART's it writes the byte 0x41.
Stores(from, to, page) ==
  /\ At(from)
  /\ IF Writes(0, BootTable[page])
     THEN /\ cpu' = To(to)
          /\ uart' = IF page = "device" THEN Append(uart, LetterA) ELSE uart
          /\ UNCHANGED <<main, report, timer, ticks, spurious, late, sched, switches, rt>>
     ELSE DataAbort(To(to))

\* mov x19, #0x19 ... ldr x24
SeedA == Runs("a.seed", [To("a.clear") EXCEPT !.x19 = "A"]) /\ UNCHANGED flag

\* str xzr, [x24]
ClearFlag == Stores("a.clear", "a.wait", "stackA") /\ flag' = 0

\* ldr x25, [x24]; cbnz x25
WaitFlag ==
  Runs("a.wait", To(IF flag # 0 THEN "a.svc0" ELSE "a.wait")) /\ UNCHANGED flag

SeedB == Runs("b.seed", [To("b.store") EXCEPT !.x19 = "B"]) /\ UNCHANGED flag

SetFlag == Stores("b.store", "b.spin", "stackA") /\ flag' = 1

\* Task B's endless loop
Spin == Runs("b.spin", cpu) /\ UNCHANGED flag

Yield == At("a.svc0") /\ NoService(To("a.svc10")) /\ UNCHANGED flag

FirstCall == At("a.svc10") /\ CallService(To("a.svc12"), LetterA) /\ UNCHANGED flag

ServerReply == At("c.svc11") /\ ReplyService(To("c.idle")) /\ UNCHANGED flag

SecondCall == At("a.svc12") /\ RetryService(To("a.store")) /\ UNCHANGED flag

\* str w0, [x1]
TouchUart == Stores("a.store", "a.svc2", "device") /\ UNCHANGED flag

Finish == At("a.svc2") /\ Halt /\ UNCHANGED flag

\* In launch_user_demo EL0 comes to msr spsr_el1, an undefined instruction there.
Undefined == At("wild") /\ Report /\ UNCHANGED flag

UserStep ==
  \/ SeedA \/ ClearFlag \/ WaitFlag \/ SeedB \/ SetFlag \/ Spin
  \/ Yield \/ FirstCall \/ ServerReply \/ SecondCall \/ TouchUart \/ Finish
  \/ Undefined

Next ==
  \/ KernelMain /\ UNCHANGED flag
  \/ TimerExpires /\ UNCHANGED flag
  \/ Interrupts /\ UNCHANGED flag
  \/ UnknownInterrupt /\ UNCHANGED flag
  \/ UserStep

\* The processor executes instructions, a running timer expires, and a pending
\* interrupt is taken once it is not masked.  Nothing says when.
Fairness ==
  /\ WF_vars(KernelMain /\ UNCHANGED flag)
  /\ WF_vars(UserStep)
  /\ WF_vars(TimerExpires /\ UNCHANGED flag)
  /\ WF_vars(Interrupts /\ UNCHANGED flag)

Spec == Init /\ [][Next]_vars /\ Fairness

-----------------------------------------------------------------------------
(* Properties. *)

\* README.md, expected serial output: the self-tests pass, the console has the
\* UART and the sandbox does not, and no unwrap or assertion of the boot panics,
\* whatever the sizes the capability store, the IPC and the scheduler have there.
BootPasses ==
  main # "selftest" =>
    /\ main # "panicked"
    /\ report = [memory |-> TRUE, console |-> TRUE, sandbox |-> FALSE,
                 ipc |-> TRUE, syscall |-> TRUE, sched |-> TRUE]

\* "[preempt] callee-saved register integrity: PASS": whenever task A makes its
\* first system call it has been preempted and resumed and its registers have
\* come back, although B has overwritten them and the switch may have come
\* before A had set them.  Unless a stop of the timer came too late, that has
\* happened exactly once.
RegistersIntact ==
  At("a.svc0") =>
    /\ cpu.x19 = "A" /\ sched.current = PREEMPT_TASK_A
    /\ switches >= 2 /\ switches % 2 = 0
    /\ late = 0 => switches = 2

\* Task A runs on stack A, and task B and the console on stack B, through
\* preemption (which swaps whole contexts) and the hand-overs of IPC (which set
\* pc and stack by hand).  The boot tables give the stacks and the code the
\* attributes that the policy of paging.rs has for user pages, and let EL0 read
\* no other page and write the stacks only.
OwnStack ==
  main = "user" =>
    /\ cpu.sp = IF cpu.pc \in {"b.seed", "b.store", "b.spin", "c.svc11", "c.idle"}
                THEN "B" ELSE "A"
    /\ BootTable[IF cpu.sp = "A" THEN "stackA" ELSE "stackB"] = Attributes(USER_DATA)
    /\ BootTable["text"] = Attributes(USER_CODE)
    /\ \A p \in Pages :
         /\ "AP_USER" \in BootTable[p] => p \in {"text", "stackA", "stackB"}
         /\ Writes(0, BootTable[p]) => p \in {"stackA", "stackB"}

\* "The proof stops the timer before resuming the syscall demonstration": unless
\* a stop of the timer came too late, no interrupt can come while the programs
\* use the runtime, whose task and the scheduler's are then different ones.
QuietDuringSyscalls ==
  late = 0 /\ main = "user" =>
    (timer # "off" => cpu.pc \in {"wild", "a.seed", "a.clear", "a.wait",
                                  "b.seed", "b.store", "b.spin"})

\* When the demonstration is over, the app's byte has been written once, by the
\* console and not by the app's own store to the UART, and the app is not left
\* waiting; also when a late tick has switched tasks between the system calls.
EndsWithOneByte ==
  main = "halted" => /\ uart = <<LetterA>>
                     /\ rt.ipc.threads[APP_TASK].state = Runnable

\* Where task A is, whether it runs or is preempted.
PlaceOfA ==
  IF sched.current = PREEMPT_TASK_A THEN cpu.pc
  ELSE sched.tasks[PREEMPT_TASK_A].context.pc

\* Once B's flag is set and A is past clearing it, A comes to see it and the
\* demonstration runs to its end, unless an interrupt the kernel does not know
\* has stopped the timer.
FlagIsSeen ==
  (main = "user" /\ flag = 1 /\ PlaceOfA = "a.wait")
    ~> (main = "halted" \/ spurious > 0)

\* README.md, expected serial output: "[el0] entering sandbox with isolated code
\* and stack pages" follows "[timer] EL1 IRQ delivery: PASS (3 ticks)": the
\* third tick gets kernel_main out of its wait.
BootGoesOn == <>(main = "launch")

\* README.md, expected serial output: once "[el0] entering sandbox" is printed,
\* EL0 is entered, at the sandbox's first instruction.
SandboxEntered == (main = "launch") ~> At("a.seed")

\* docs/ARCHITECTURE.md, "keeping the transcript deterministic": once task A starts,
\* the demonstration reaches its end.
DemoEnds == At("a.seed") ~> (main = "halted")

=============================================================================
