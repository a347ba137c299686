----------------------------- MODULE DemoProofs ------------------------------
(***************************************************************************)
(* The boot and the programs of src/user.S on the live kernel, for every   *)
(* size Runtime and Kernel allow and any number of late and foreign        *)
(* interrupts.                                                             *)
(***************************************************************************)
EXTENDS Demo, KernelProofs

-----------------------------------------------------------------------------
(* The inductive invariant: where the two tasks are together. *)

\* The contexts of task A, which makes the system calls, and of task B: on the
\* processor or saved.
ContextOfA == IF sched.current = PREEMPT_TASK_A THEN cpu
              ELSE sched.tasks[PREEMPT_TASK_A].context
ContextOfB == IF sched.current = PREEMPT_TASK_B THEN cpu
              ELSE sched.tasks[PREEMPT_TASK_B].context

Unseeded == {"a.seed", "wild"}
BeforeFlag == Unseeded \cup {"a.clear", "a.wait"}
BeforeCall == {"a.svc0", "a.svc10"}
AfterCall == {"a.svc12", "a.store", "a.svc2"}

\* Task A, or the console it has called, and its registers once it has set them.
SoundA(ctx) ==
  /\ ctx \in Contexts
  /\ ctx.pc \in BeforeFlag \cup BeforeCall \cup {"c.svc11"} \cup AfterCall
  /\ ctx.sp = IF ctx.pc = "c.svc11" THEN "B" ELSE "A"
  /\ ctx.pc \notin Unseeded => ctx.x19 = "A"

SoundB(ctx) ==
  /\ ctx \in Contexts
  /\ ctx.pc \in {"b.seed", "b.store", "b.spin"}
  /\ ctx.sp = "B"
  /\ ctx.pc # "b.seed" => ctx.x19 = "B"

\* What EL0 is entered with: task A's entry, or an address of launch_user_demo.
Entries == {[UserContext(pc, "A") EXCEPT !.x19 = "junk"] : pc \in Unseeded}

\* What the runtime and the UART are when task A is at pc.
Progress(pc, r, bytes) ==
  \/ pc \in BeforeFlag \cup BeforeCall /\ Ready(r) /\ bytes = <<>>
  \/ /\ pc = "c.svc11" /\ Serving(r) /\ r.pending_byte = LetterA
     /\ bytes = <<>>
  \/ pc \in AfterCall /\ Served(r) /\ bytes = <<LetterA>>

\* Who runs is a matter of how often was switched, and task A gets past its loop
\* only after task B has run.
Switching(a, current, n, set) ==
  /\ n % 2 = current
  /\ a.pc \notin BeforeFlag \/ (a.pc = "a.wait" /\ set = 1) => n >= 1

\* A timer that is stopped in time lets two switches happen.
InTime(n, alarm, overtaken) ==
  overtaken = 0 => n <= 2 /\ (n = 2 => alarm = "off")

\* Through boot, launch and demonstration: the two tasks, on the processor or saved,
\* the exchange as far as task A has come with it, the switches and the timer.
DemoInv ==
  /\ KernelInv
  /\ flag \in {0, 1}
  /\ main \in Launching =>
       /\ switches = 0 /\ sched.current = PREEMPT_TASK_A
       /\ sched.tasks[PREEMPT_TASK_B].context = UserContext("b.seed", "B")
  /\ main \in {"spsr", "eret"} => cpu \in Entries
  /\ main \in Running =>
       /\ SoundA(ContextOfA) /\ SoundB(ContextOfB)
       /\ Progress(ContextOfA.pc, rt, uart)
       /\ Switching(ContextOfA, sched.current, switches, flag)
       /\ InTime(switches, timer, late)
  /\ main = "halted" => cpu.pc = "a.svc2"

-----------------------------------------------------------------------------
(* One step of one of the programs. *)

\* The stacks and the code of EL0 have the attributes paging.rs has for them;
\* EL0 can write to the stacks and to nothing else, and read no page but these.
LEMMA BootAttributes ==
  /\ BootTable["stackA"] = Attributes(USER_DATA)
  /\ BootTable["stackB"] = Attributes(USER_DATA)
  /\ BootTable["text"] = Attributes(USER_CODE)
  /\ Writes(0, BootTable["stackA"]) /\ ~Writes(0, BootTable["device"])
  /\ \A p \in Pages :
       /\ "AP_USER" \in BootTable[p] => p \in {"text", "stackA", "stackB"}
       /\ Writes(0, BootTable[p]) => p \in {"stackA", "stackB"}
<1>1. /\ BootTable["stackA"] = KernelPage \cup {"AP_USER", "PXN", "UXN"}
      /\ BootTable["stackB"] = KernelPage \cup {"AP_USER", "PXN", "UXN"}
      /\ BootTable["text"] = KernelPage \cup {"AP_USER", "AP_READ_ONLY", "PXN"}
      /\ BootTable["device"] = DeviceBlock /\ BootTable["upper"] = UpperBlock
      /\ BootTable["kernel"] = KernelPage
  <2>1. /\ DOMAIN FirstPass = Pages /\ FirstPass["device"] = DeviceBlock
        /\ FirstPass["upper"] = UpperBlock /\ FirstPass["kernel"] = KernelPage
    BY DEF FirstPass, Pages
  <2> DEFINE code == KernelPage \cup {"AP_USER", "AP_READ_ONLY", "PXN"}
             data == KernelPage \cup {"AP_USER", "PXN", "UXN"}
  <2>2. BootTable
          = [FirstPass EXCEPT !["text"] = code, !["stackA"] = data, !["stackB"] = data]
    BY Zenon DEF BootTable
  <2> HIDE DEF code, data
  <2>3. /\ BootTable["stackA"] = data /\ BootTable["stackB"] = data
        /\ BootTable["text"] = code /\ BootTable["device"] = FirstPass["device"]
        /\ BootTable["upper"] = FirstPass["upper"]
        /\ BootTable["kernel"] = FirstPass["kernel"]
    BY <2>1, <2>2 DEF Pages
  <2> QED
    BY <2>1, <2>3, Zenon DEF code, data
<1>2. /\ Attributes(USER_DATA) = KernelPage \cup {"AP_USER", "PXN", "UXN"}
      /\ Attributes(USER_CODE) = KernelPage \cup {"AP_USER", "AP_READ_ONLY", "PXN"}
  BY DEF Attributes, USER_DATA, USER_CODE, KernelPage
<1>3. Writes(0, KernelPage \cup {"AP_USER", "PXN", "UXN"}) /\ ~Writes(0, DeviceBlock)
  BY DEF Writes, KernelPage, DeviceBlock
<1>4. ASSUME NEW p \in Pages
      PROVE  /\ "AP_USER" \in BootTable[p] => p \in {"text", "stackA", "stackB"}
             /\ Writes(0, BootTable[p]) => p \in {"stackA", "stackB"}
  BY <1>1 DEF Pages, Writes, KernelPage, DeviceBlock, UpperBlock
<1> QED
  BY <1>1, <1>2, <1>3, <1>4, Zenon

PcOfA == BeforeFlag \cup BeforeCall \cup {"c.svc11"} \cup AfterCall
PcOfB == {"b.seed", "b.store", "b.spin"}

\* A context of one program is none of the other's.
LEMMA ProgramsApart ==
  /\ PcOfA \cap PcOfB = {} /\ PcOfA \cup PcOfB \subseteq Labels
  /\ \A pc \in BeforeFlag \cup BeforeCall : pc # "c.svc11" /\ pc \notin AfterCall
  /\ \A pc \in BeforeFlag : pc \notin BeforeCall
  /\ "c.svc11" \notin AfterCall
  BY DEF PcOfA, PcOfB, BeforeFlag, Unseeded, BeforeCall, AfterCall, Labels

\* What DemoInv says while task A, or the console, is on the processor.
LEMMA AOnProcessor ==
  ASSUME DemoInv, main \in Running, cpu.pc \notin PcOfB
  PROVE  /\ sched.current = PREEMPT_TASK_A /\ ContextOfA = cpu
         /\ SoundA(cpu) /\ Progress(cpu.pc, rt, uart)
         /\ Switching(cpu, PREEMPT_TASK_A, switches, flag)
         /\ InTime(switches, timer, late)
         /\ SoundB(sched.tasks[PREEMPT_TASK_B].context)
<1>1. /\ SoundA(ContextOfA) /\ SoundB(ContextOfB)
      /\ Progress(ContextOfA.pc, rt, uart)
      /\ Switching(ContextOfA, sched.current, switches, flag)
      /\ InTime(switches, timer, late) /\ KernelInv
  BY Zenon DEF DemoInv
<1>2. sched.current \in {PREEMPT_TASK_A, PREEMPT_TASK_B}
  BY <1>1, Zenon DEF KernelInv, Paired, Running, Booting
<1>3. sched.current # PREEMPT_TASK_B
  BY <1>1, Zenon DEF ContextOfB, SoundB, PcOfB
<1>4. sched.current = PREEMPT_TASK_A
  BY <1>2, <1>3
<1>5. ContextOfA = cpu /\ ContextOfB = sched.tasks[PREEMPT_TASK_B].context
  BY <1>3, <1>4, Zenon DEF ContextOfA, ContextOfB
<1> QED
  BY <1>1, <1>4, <1>5, Zenon

\* The same for task B.
LEMMA BOnProcessor ==
  ASSUME DemoInv, main \in Running, cpu.pc \in PcOfB
  PROVE  /\ sched.current = PREEMPT_TASK_B /\ ContextOfB = cpu /\ SoundB(cpu)
         /\ SoundA(sched.tasks[PREEMPT_TASK_A].context)
         /\ Progress(sched.tasks[PREEMPT_TASK_A].context.pc, rt, uart)
         /\ Switching(sched.tasks[PREEMPT_TASK_A].context, PREEMPT_TASK_B, switches, flag)
         /\ InTime(switches, timer, late)
<1>1. /\ SoundA(ContextOfA) /\ SoundB(ContextOfB)
      /\ Progress(ContextOfA.pc, rt, uart)
      /\ Switching(ContextOfA, sched.current, switches, flag)
      /\ InTime(switches, timer, late) /\ KernelInv
  BY Zenon DEF DemoInv
<1>2. sched.current \in {PREEMPT_TASK_A, PREEMPT_TASK_B}
  BY <1>1, Zenon DEF KernelInv, Paired, Running, Booting
<1>3. sched.current # PREEMPT_TASK_A
  <2> SUFFICES ASSUME sched.current = PREEMPT_TASK_A PROVE FALSE
    OBVIOUS
  <2>1. cpu.pc \in PcOfA
    BY <1>1, Zenon DEF ContextOfA, SoundA, PcOfA
  <2> QED
    BY <2>1, ProgramsApart
<1>4. sched.current = PREEMPT_TASK_B
  BY <1>2, <1>3
<1>5. ContextOfB = cpu /\ ContextOfA = sched.tasks[PREEMPT_TASK_A].context
  BY <1>3, <1>4, Zenon DEF ContextOfA, ContextOfB
<1> QED
  BY <1>1, <1>4, <1>5, Zenon

\* What a step of a program leaves alone.
Undisturbed == UNCHANGED <<timer, late, sched, switches>>

\* A step of task A or of the console.
LEMMA StepOfA ==
  ASSUME DemoInv, main \in Running, cpu.pc \notin PcOfB, KernelInv', Undisturbed,
         main' \in Running, flag' \in {0, 1}, SoundA(cpu'),
         Progress(cpu'.pc, rt', uart'), main' = "halted" => cpu'.pc = "a.svc2",
         cpu'.pc \notin BeforeFlag \/ (cpu'.pc = "a.wait" /\ flag' = 1) => switches >= 1
  PROVE  DemoInv'
<1>1. /\ timer' = timer /\ late' = late /\ sched' = sched /\ switches' = switches
  BY DEF Undisturbed
<1>2. /\ sched.current = PREEMPT_TASK_A
      /\ Switching(cpu, PREEMPT_TASK_A, switches, flag)
      /\ InTime(switches, timer, late)
      /\ SoundB(sched.tasks[PREEMPT_TASK_B].context)
  BY AOnProcessor, Zenon
<1>3. sched'.current = PREEMPT_TASK_A /\ PREEMPT_TASK_A # PREEMPT_TASK_B
  BY <1>1, <1>2, TwoTasks
<1>4. ContextOfA' = cpu' /\ ContextOfB' = sched.tasks[PREEMPT_TASK_B].context
  BY <1>1, <1>3 DEF ContextOfA, ContextOfB, PREEMPT_TASK_A, PREEMPT_TASK_B
<1>5. SoundA(ContextOfA)' /\ SoundB(ContextOfB)'
  BY <1>2, <1>4 DEF SoundA, SoundB
<1>6. Progress(ContextOfA.pc, rt, uart)'
  BY <1>4 DEF Progress, Ready, Serving, Served
<1>7. Switching(ContextOfA, sched.current, switches, flag)'
  BY <1>1, <1>2, <1>3, <1>4 DEF Switching
<1>8. InTime(switches, timer, late)'
  BY <1>1, <1>2 DEF InTime
<1>9. main' \notin Launching /\ main' \notin {"spsr", "eret"}
  BY DEF Running, Launching
<1> QED
  BY <1>5, <1>6, <1>7, <1>8, <1>9, Zenon DEF DemoInv

\* A step of task B.
LEMMA StepOfB ==
  ASSUME DemoInv, main \in Running, cpu.pc \in PcOfB, KernelInv', Undisturbed,
         main' = "user", flag' \in {0, 1}, SoundB(cpu'), rt' = rt, uart' = uart
  PROVE  DemoInv'
<1>1. /\ timer' = timer /\ late' = late /\ sched' = sched /\ switches' = switches
  BY DEF Undisturbed
<1> DEFINE a == sched.tasks[PREEMPT_TASK_A].context
<1>2. /\ sched.current = PREEMPT_TASK_B
      /\ Switching(a, PREEMPT_TASK_B, switches, flag)
      /\ InTime(switches, timer, late)
      /\ SoundA(a) /\ Progress(a.pc, rt, uart)
  BY BOnProcessor, Zenon
<1>3. sched'.current = PREEMPT_TASK_B /\ PREEMPT_TASK_A # PREEMPT_TASK_B
  BY <1>1, <1>2, TwoTasks
<1>4. ContextOfB' = cpu' /\ ContextOfA' = a
  BY <1>1, <1>3 DEF ContextOfA, ContextOfB, PREEMPT_TASK_A, PREEMPT_TASK_B
<1> HIDE DEF a
<1>5. SoundA(ContextOfA)' /\ SoundB(ContextOfB)'
  BY <1>2, <1>4 DEF SoundA, SoundB
<1>6. Progress(ContextOfA.pc, rt, uart)'
  BY <1>2, <1>4 DEF Progress, Ready, Serving, Served
<1>7. Switching(ContextOfA, sched.current, switches, flag)'
  <2>1. switches \in Nat
    BY Zenon DEF DemoInv, KernelInv, KernelType
  <2>2. switches % 2 = PREEMPT_TASK_B
    BY <1>2, Zenon DEF Switching
  <2>3. switches >= 1
    BY <2>1, <2>2, TwoTasks
  <2> QED
    BY <1>1, <1>3, <1>4, <2>2, <2>3 DEF Switching
<1>8. InTime(switches, timer, late)'
  BY <1>1, <1>2 DEF InTime
<1>9. main' \notin Launching /\ main' \notin {"spsr", "eret"} /\ main' # "halted"
  BY DEF Launching
<1> QED
  BY <1>5, <1>6, <1>7, <1>8, <1>9, Zenon DEF DemoInv

\* The context at another place of the program.
LEMMA Moves ==
  ASSUME cpu \in Contexts, NEW pc \in Labels
  PROVE  /\ To(pc) \in Contexts /\ To(pc).pc = pc
         /\ To(pc).sp = cpu.sp /\ To(pc).x19 = cpu.x19
  BY DEF To, Contexts

\* The context with which the runtime lets the other task go on.
Handed(f, pc, sp) == [f EXCEPT !.pc = pc, !.sp = sp]

\* It keeps the registers of the task that made the call.
LEMMA HandsTo ==
  ASSUME NEW f \in Contexts, NEW pc \in Labels, NEW sp \in {"A", "B"}
  PROVE  /\ Handed(f, pc, sp) \in Contexts /\ Handed(f, pc, sp).pc = pc
         /\ Handed(f, pc, sp).sp = sp /\ Handed(f, pc, sp).x19 = f.x19
<1> DEFINE g == [f EXCEPT !.pc = pc]
<1>1. g \in Contexts /\ g.pc = pc /\ g.x19 = f.x19
  BY DEF Contexts
<1>2. Handed(f, pc, sp) = [g EXCEPT !.sp = sp]
  BY DEF Handed
<1> HIDE DEF g
<1> QED
  BY <1>1, <1>2 DEF Contexts

\* A service made by a program, or one of its instructions, which for the kernel
\* is the same as a call that does nothing.
LEMMA ProgramStep ==
  ASSUME DemoInv, main = "user", NEW frame, frame \in Contexts,
         Service(frame, LetterA)
  PROVE  KernelInv' /\ Undisturbed /\ main' \in Running
<1>1. KernelInv
  BY Zenon DEF DemoInv
<1>2. LetterA \in Nat
  BY LetterAssumption, RuntimeSizes DEF Bytes
<1>3. KernelInv'
  BY <1>1, <1>2, ServiceKeeps
<1>4. Undisturbed /\ main' \in Running
  BY DEF Undisturbed, Running, Service, CallService, ReplyService, RetryService,
         NoService, DataAbort, Halt, Report
<1> QED
  BY <1>3, <1>4

\* An instruction that moves task A on within a part of its program.
LEMMA InstructionOfA ==
  ASSUME DemoInv, main = "user", cpu.pc \notin PcOfB, NoService(cpu'),
         cpu' \in Contexts, cpu'.sp = "A", cpu'.x19 = "A", flag' \in {0, 1},
         \/ cpu.pc \in BeforeFlag /\ cpu'.pc \in BeforeFlag
              /\ (cpu'.pc = "a.wait" /\ flag' = 1 => switches >= 1)
         \/ cpu.pc \in BeforeFlag \cup BeforeCall /\ cpu'.pc \in BeforeCall
              /\ switches >= 1
  PROVE  DemoInv'
<1>1. KernelInv' /\ Undisturbed /\ main' \in Running
  <2>1. Service(cpu', LetterA)
    BY Zenon DEF Service
  <2> QED
    BY <2>1, ProgramStep
<1>2. main' = "user" /\ rt' = rt /\ uart' = uart
  BY DEF NoService
<1>3. main \in Running
  BY DEF Running
<1>4. Progress(cpu.pc, rt, uart)
  BY <1>3, AOnProcessor, Zenon
<1>5. Ready(rt) /\ uart = <<>>
  BY <1>4, ProgramsApart, Zenon DEF Progress
<1>6. cpu'.pc \in BeforeFlag \cup BeforeCall
  OBVIOUS
<1>7. Progress(cpu'.pc, rt', uart')
  BY <1>2, <1>5, <1>6, Zenon DEF Progress
<1>8. SoundA(cpu')
  BY <1>6, ProgramsApart DEF SoundA
<1>9. main' # "halted"
  BY <1>2
<1>10. cpu'.pc \notin BeforeFlag \/ (cpu'.pc = "a.wait" /\ flag' = 1) => switches >= 1
  BY Zenon
<1> QED
  BY <1>1, <1>3, <1>7, <1>8, <1>9, <1>10, StepOfA

\* An instruction of task B.
LEMMA InstructionOfB ==
  ASSUME DemoInv, main = "user", cpu.pc \in PcOfB, NoService(cpu'),
         cpu' \in Contexts, cpu'.pc \in PcOfB, cpu'.sp = "B",
         cpu'.pc = "b.seed" \/ cpu'.x19 = "B", flag' \in {0, 1}
  PROVE  DemoInv'
<1>1. KernelInv' /\ Undisturbed
  <2>1. Service(cpu', LetterA)
    BY Zenon DEF Service
  <2> QED
    BY <2>1, ProgramStep
<1>2. main' = "user" /\ rt' = rt /\ uart' = uart
  BY DEF NoService
<1>3. main \in Running
  BY DEF Running
<1>4. SoundB(cpu')
  BY DEF SoundB, PcOfB
<1> QED
  BY <1>1, <1>2, <1>3, <1>4, StepOfB

\* The loops and stores of both tasks.
LEMMA InstructionKeeps ==
  ASSUME DemoInv,
         SeedA \/ ClearFlag \/ WaitFlag \/ SeedB \/ SetFlag \/ Spin \/ Yield
  PROVE  DemoInv'
<1>1. cpu \in Contexts /\ flag \in {0, 1} /\ switches \in Nat
  BY Zenon DEF DemoInv, KernelInv, KernelType
<1>2. ASSUME NEW pc \in Labels
      PROVE  /\ To(pc) \in Contexts /\ To(pc).pc = pc
             /\ To(pc).sp = cpu.sp /\ To(pc).x19 = cpu.x19
  BY <1>1, Moves
<1>3. /\ "a.clear" \in Labels /\ "a.wait" \in Labels /\ "a.svc0" \in Labels
      /\ "a.svc10" \in Labels /\ "b.store" \in Labels /\ "b.spin" \in Labels
  BY DEF Labels
<1>4. ASSUME main = "user", cpu.pc \in BeforeFlag \cup BeforeCall
      PROVE  /\ cpu.pc \notin PcOfB /\ cpu.sp = "A"
             /\ cpu.pc \notin Unseeded => cpu.x19 = "A"
             /\ Switching(cpu, PREEMPT_TASK_A, switches, flag)
  <2>1. cpu.pc \notin PcOfB /\ cpu.pc # "c.svc11"
    BY <1>4, ProgramsApart DEF PcOfA
  <2>2. main \in Running
    BY <1>4 DEF Running
  <2> QED
    BY <2>1, <2>2, AOnProcessor, Zenon DEF SoundA
<1>5. ASSUME main = "user", cpu.pc \in PcOfB
      PROVE  cpu.sp = "B" /\ (cpu.pc # "b.seed" => cpu.x19 = "B")
  <2>1. main \in Running
    BY <1>5 DEF Running
  <2> QED
    BY <1>5, <2>1, BOnProcessor, Zenon DEF SoundB
<1>6. CASE SeedA
  <2> DEFINE f == To("a.clear")
  <2>1. main = "user" /\ cpu.pc = "a.seed" /\ cpu' = [f EXCEPT !.x19 = "A"] /\ flag' = flag
    BY <1>6, Zenon DEF SeedA, Runs, At
  <2>2. NoService(cpu')
    BY <1>6, Zenon DEF SeedA, Runs, NoService
  <2>3. f \in Contexts /\ f.pc = "a.clear" /\ f.sp = cpu.sp
    BY <1>2, <1>3, Zenon
  <2> HIDE DEF f
  <2>4. cpu' \in Contexts /\ cpu'.pc = "a.clear" /\ cpu'.sp = cpu.sp /\ cpu'.x19 = "A"
    BY <2>1, <2>3 DEF Contexts
  <2>5. cpu.pc \in BeforeFlag /\ cpu'.pc \in BeforeFlag /\ cpu'.pc # "a.wait"
    BY <2>1, <2>4 DEF BeforeFlag, Unseeded
  <2>6. cpu.pc \notin PcOfB /\ cpu.sp = "A"
    BY <1>4, <2>1, <2>5, Zenon
  <2> QED
    BY <1>1, <2>1, <2>2, <2>4, <2>5, <2>6, InstructionOfA
<1>7. CASE ClearFlag
  <2>1. main = "user" /\ cpu.pc = "a.clear" /\ flag' = 0
    BY <1>7, Zenon DEF ClearFlag, Stores, At
  <2>2. NoService(cpu') /\ cpu' = To("a.wait")
    BY <1>7, BootAttributes DEF ClearFlag, Stores, NoService
  <2>3. /\ cpu' \in Contexts /\ cpu'.pc = "a.wait"
        /\ cpu'.sp = cpu.sp /\ cpu'.x19 = cpu.x19
    BY <1>2, <1>3, <2>2, Zenon
  <2>4. cpu.pc \in BeforeFlag /\ cpu'.pc \in BeforeFlag /\ cpu.pc \notin Unseeded
    BY <2>1, <2>3 DEF BeforeFlag, Unseeded
  <2>5. cpu.pc \notin PcOfB /\ cpu.sp = "A" /\ cpu.x19 = "A"
    BY <1>4, <2>1, <2>4, Zenon
  <2>6. flag' \in {0, 1} /\ flag' # 1
    BY <2>1
  <2> QED
    BY <2>1, <2>2, <2>3, <2>4, <2>5, <2>6, InstructionOfA
<1>8. CASE WaitFlag
  <2> DEFINE pc == IF flag # 0 THEN "a.svc0" ELSE "a.wait"
  <2>1. main = "user" /\ cpu.pc = "a.wait" /\ cpu' = To(pc) /\ flag' = flag
    BY <1>8, Zenon DEF WaitFlag, Runs, At
  <2>2. NoService(cpu')
    BY <1>8, Zenon DEF WaitFlag, Runs, NoService
  <2>3. pc \in Labels
    BY <1>3
  <2>4. /\ cpu' \in Contexts /\ cpu'.pc = pc
        /\ cpu'.sp = cpu.sp /\ cpu'.x19 = cpu.x19
    BY <1>2, <2>1, <2>3, Zenon
  <2>5. cpu.pc \in BeforeFlag /\ cpu.pc \notin Unseeded
    BY <2>1 DEF BeforeFlag, Unseeded
  <2>6. /\ cpu.pc \notin PcOfB /\ cpu.sp = "A" /\ cpu.x19 = "A"
        /\ Switching(cpu, PREEMPT_TASK_A, switches, flag)
    BY <1>4, <2>1, <2>5, Zenon
  <2>7. CASE flag = 0
    <3>1. cpu'.pc \in BeforeFlag /\ flag' # 1
      BY <2>1, <2>4, <2>7 DEF BeforeFlag, Unseeded
    <3> QED
      BY <1>1, <2>1, <2>2, <2>4, <2>5, <2>6, <3>1, InstructionOfA
  <2>8. CASE flag = 1
    <3>1. cpu'.pc \in BeforeCall
      BY <2>4, <2>8 DEF BeforeCall
    <3>2. switches >= 1
      BY <2>1, <2>6, <2>8, Zenon DEF Switching
    <3> QED
      BY <1>1, <2>1, <2>2, <2>4, <2>5, <2>6, <3>1, <3>2, InstructionOfA
  <2> QED
    BY <1>1, <2>7, <2>8
<1>9. CASE SeedB
  <2> DEFINE f == To("b.store")
  <2>1. main = "user" /\ cpu.pc = "b.seed" /\ cpu' = [f EXCEPT !.x19 = "B"] /\ flag' = flag
    BY <1>9, Zenon DEF SeedB, Runs, At
  <2>2. NoService(cpu')
    BY <1>9, Zenon DEF SeedB, Runs, NoService
  <2>3. f \in Contexts /\ f.pc = "b.store" /\ f.sp = cpu.sp
    BY <1>2, <1>3, Zenon
  <2> HIDE DEF f
  <2>4. cpu' \in Contexts /\ cpu'.pc = "b.store" /\ cpu'.sp = cpu.sp /\ cpu'.x19 = "B"
    BY <2>1, <2>3 DEF Contexts
  <2>5. cpu.pc \in PcOfB /\ cpu'.pc \in PcOfB
    BY <2>1, <2>4 DEF PcOfB
  <2>6. cpu.sp = "B"
    BY <1>5, <2>1, <2>5, Zenon
  <2> QED
    BY <1>1, <2>1, <2>2, <2>4, <2>5, <2>6, InstructionOfB
<1>10. CASE SetFlag
  <2>1. main = "user" /\ cpu.pc = "b.store" /\ flag' = 1
    BY <1>10, Zenon DEF SetFlag, Stores, At
  <2>2. NoService(cpu') /\ cpu' = To("b.spin")
    BY <1>10, BootAttributes DEF SetFlag, Stores, NoService
  <2>3. /\ cpu' \in Contexts /\ cpu'.pc = "b.spin"
        /\ cpu'.sp = cpu.sp /\ cpu'.x19 = cpu.x19
    BY <1>2, <1>3, <2>2, Zenon
  <2>4. cpu.pc \in PcOfB /\ cpu'.pc \in PcOfB /\ cpu.pc # "b.seed"
    BY <2>1, <2>3 DEF PcOfB
  <2>5. cpu.sp = "B" /\ cpu.x19 = "B"
    BY <1>5, <2>1, <2>4, Zenon
  <2>6. flag' \in {0, 1}
    BY <2>1
  <2> QED
    BY <2>1, <2>2, <2>3, <2>4, <2>5, <2>6, InstructionOfB
<1>11. CASE Spin
  <2>1. main = "user" /\ cpu.pc = "b.spin" /\ cpu' = cpu /\ flag' = flag
    BY <1>11, Zenon DEF Spin, Runs, At
  <2>2. NoService(cpu')
    BY <1>11, Zenon DEF Spin, Runs, NoService
  <2>3. cpu.pc \in PcOfB /\ cpu.pc # "b.seed"
    BY <2>1 DEF PcOfB
  <2>4. cpu.sp = "B" /\ cpu.x19 = "B"
    BY <1>5, <2>1, <2>3, Zenon
  <2> QED
    BY <1>1, <2>1, <2>2, <2>3, <2>4, InstructionOfB
<1>12. CASE Yield
  <2>1. /\ main = "user" /\ cpu.pc = "a.svc0" /\ cpu' = To("a.svc10") /\ flag' = flag
        /\ NoService(cpu')
    BY <1>12, Zenon DEF Yield, At, NoService
  <2>2. /\ cpu' \in Contexts /\ cpu'.pc = "a.svc10"
        /\ cpu'.sp = cpu.sp /\ cpu'.x19 = cpu.x19
    BY <1>2, <1>3, <2>1, Zenon
  <2>3. cpu.pc \in BeforeCall /\ cpu'.pc \in BeforeCall /\ cpu.pc \notin Unseeded
        /\ cpu.pc \notin BeforeFlag
    BY <2>1, <2>2 DEF BeforeCall, BeforeFlag, Unseeded
  <2>4. /\ cpu.pc \notin PcOfB /\ cpu.sp = "A" /\ cpu.x19 = "A"
        /\ Switching(cpu, PREEMPT_TASK_A, switches, flag)
    BY <1>4, <2>1, <2>3, Zenon
  <2>5. switches >= 1
    BY <2>3, <2>4, Zenon DEF Switching
  <2> QED
    BY <1>1, <2>1, <2>2, <2>3, <2>4, <2>5, InstructionOfA
<1> QED
  BY <1>6, <1>7, <1>8, <1>9, <1>10, <1>11, <1>12

\* The system calls of task A and of the console, and the store to the UART.
LEMMA ServicesKeep ==
  ASSUME DemoInv, FirstCall \/ ServerReply \/ SecondCall \/ TouchUart \/ Finish
  PROVE  DemoInv'
<1>1. /\ cpu \in Contexts /\ flag \in {0, 1} /\ switches \in Nat
      /\ flag' = flag /\ main = "user"
  <2>1. cpu \in Contexts /\ flag \in {0, 1} /\ switches \in Nat
    BY Zenon DEF DemoInv, KernelInv, KernelType
  <2>2. flag' = flag /\ main = "user"
    BY Zenon DEF FirstCall, ServerReply, SecondCall, TouchUart, Finish, Stores, At
  <2> QED
    BY <2>1, <2>2
<1>2. cpu.pc \in {"a.svc10", "c.svc11", "a.svc12", "a.store", "a.svc2"}
  BY Zenon DEF FirstCall, ServerReply, SecondCall, TouchUart, Finish, Stores, At
<1>3. cpu.pc \notin PcOfB /\ cpu.pc \notin BeforeFlag /\ cpu.pc \notin Unseeded /\ main \in Running
  BY <1>1, <1>2 DEF PcOfB, BeforeFlag, Unseeded, Running
<1>4. /\ SoundA(cpu) /\ Progress(cpu.pc, rt, uart)
      /\ Switching(cpu, PREEMPT_TASK_A, switches, flag)
  BY <1>3, AOnProcessor, Zenon
<1>5. switches >= 1 /\ cpu.x19 = "A"
  BY <1>3, <1>4, Zenon DEF Switching, SoundA
<1>6. ASSUME NEW frame, frame \in Contexts, Service(frame, LetterA), SoundA(cpu'),
             Progress(cpu'.pc, rt', uart'), main' = "halted" => cpu'.pc = "a.svc2"
      PROVE  DemoInv'
  <2>1. KernelInv' /\ Undisturbed /\ main' \in Running
    BY <1>1, <1>6, ProgramStep
  <2> QED
    BY <1>1, <1>3, <1>5, <1>6, <2>1, StepOfA
<1>7. ASSUME NEW pc \in Labels
      PROVE  /\ To(pc) \in Contexts /\ To(pc).pc = pc
             /\ To(pc).sp = cpu.sp /\ To(pc).x19 = cpu.x19
  BY <1>1, Moves
<1>8. /\ "a.svc12" \in Labels /\ "a.store" \in Labels /\ "c.idle" \in Labels
      /\ "a.svc2" \in Labels /\ "c.svc11" \in Labels
  BY DEF Labels
<1>9. ASSUME NEW ctx, ctx \in Contexts, NEW pc, pc \in AfterCall, ctx.pc = pc,
             ctx.sp = "A", ctx.x19 = "A"
      PROVE  SoundA(ctx)
  BY <1>9, ProgramsApart DEF SoundA
<1>10. CASE FirstCall
  <2> DEFINE f == To("a.svc12")
             r == AppCall(rt, LetterA % BYTES)
  <2>1. /\ cpu.pc = "a.svc10" /\ CallService(f, LetterA)
        /\ rt' = r.rt /\ main' = main /\ uart' = uart
        /\ cpu' = IF r.out = "Ok" THEN [f EXCEPT !.pc = "c.svc11", !.sp = "B"] ELSE f
    BY <1>10, Zenon DEF FirstCall, At, CallService
  <2>2. Ready(rt) /\ uart = <<>>
    <3>1. cpu.pc \notin AfterCall /\ cpu.pc # "c.svc11"
      BY <2>1 DEF AfterCall
    <3> QED
      BY <1>4, <3>1, Zenon DEF Progress
  <2>3. LetterA % BYTES = LetterA /\ LetterA \in Bytes
    BY LetterAssumption, RuntimeSizes DEF Bytes
  <2>4. f \in Contexts /\ f.x19 = "A"
    BY <1>5, <1>7, <1>8, Zenon
  <2>5. r.out = "Ok" /\ Serving(r.rt) /\ r.rt.pending_byte = LetterA
    BY <2>2, <2>3, CallServed
  <2> HIDE DEF f, r
  <2>6. cpu' = Handed(f, "c.svc11", "B")
    BY <2>1, <2>5, Zenon DEF Handed
  <2>7. cpu' \in Contexts /\ cpu'.pc = "c.svc11" /\ cpu'.sp = "B" /\ cpu'.x19 = "A"
    <3> DEFINE pc == "c.svc11"
               sp == "B"
    <3>1. pc \in Labels /\ sp \in {"A", "B"}
      BY <1>8
    <3>2. cpu' = Handed(f, pc, sp)
      BY <2>6
    <3> HIDE DEF pc, sp
    <3>3. cpu' \in Contexts /\ cpu'.pc = pc /\ cpu'.sp = sp /\ cpu'.x19 = f.x19
      BY <2>4, <3>1, <3>2, HandsTo
    <3> QED
      BY <2>4, <3>3 DEF pc, sp
  <2>8. SoundA(cpu')
    BY <2>7 DEF SoundA
  <2>9. Progress(cpu'.pc, rt', uart')
    BY <2>1, <2>2, <2>5, <2>7, Zenon DEF Progress
  <2>10. Service(f, LetterA) /\ main' # "halted"
    BY <1>1, <2>1 DEF Service
  <2> QED
    BY <1>6, <2>4, <2>8, <2>9, <2>10, Zenon
<1>11. CASE ServerReply
  <2> DEFINE f == To("c.idle")
             r == ConsoleReplyAndRevoke(rt)
  <2>1. /\ cpu.pc = "c.svc11" /\ ReplyService(f) /\ rt' = r.rt /\ main' = main
        /\ uart' = IF r.out = "Ok" THEN Append(uart, rt.pending_byte) ELSE uart
        /\ cpu' = IF r.out = "Ok" THEN [f EXCEPT !.pc = "a.svc12", !.sp = "A"] ELSE f
    BY <1>11, Zenon DEF ServerReply, At, ReplyService
  <2>2. Serving(rt) /\ uart = <<>> /\ rt.pending_byte = LetterA
    <3>1. cpu.pc \notin AfterCall /\ cpu.pc \notin BeforeFlag \cup BeforeCall
      BY <2>1 DEF AfterCall, BeforeFlag, Unseeded, BeforeCall
    <3> QED
      BY <1>4, <3>1, Zenon DEF Progress
  <2>3. f \in Contexts /\ f.x19 = "A"
    BY <1>5, <1>7, <1>8, Zenon
  <2>4. r.out = "Ok" /\ Served(r.rt)
    BY <2>2, RepliesAndRevokes
  <2> HIDE DEF f, r
  <2>5. cpu' = Handed(f, "a.svc12", "A") /\ uart' = Append(<<>>, LetterA)
    BY <2>1, <2>2, <2>4, Zenon DEF Handed
  <2>6. cpu' \in Contexts /\ cpu'.pc = "a.svc12" /\ cpu'.sp = "A" /\ cpu'.x19 = "A"
    <3> DEFINE pc == "a.svc12"
               sp == "A"
    <3>1. pc \in Labels /\ sp \in {"A", "B"}
      BY <1>8
    <3>2. cpu' = Handed(f, pc, sp)
      BY <2>5
    <3> HIDE DEF pc, sp
    <3>3. cpu' \in Contexts /\ cpu'.pc = pc /\ cpu'.sp = sp /\ cpu'.x19 = f.x19
      BY <2>3, <3>1, <3>2, HandsTo
    <3> QED
      BY <2>3, <3>3 DEF pc, sp
  <2>7. uart' = <<LetterA>>
    BY <2>5
  <2>8. "a.svc12" \in AfterCall
    BY DEF AfterCall
  <2>9. SoundA(cpu') /\ Progress(cpu'.pc, rt', uart')
    BY <1>9, <2>1, <2>4, <2>6, <2>7, <2>8, Zenon DEF Progress
  <2>10. Service(f, LetterA) /\ main' # "halted"
    BY <1>1, <2>1 DEF Service
  <2> QED
    BY <1>6, <2>3, <2>9, <2>10, Zenon
<1>12. cpu.pc \in AfterCall => Served(rt) /\ uart = <<LetterA>> /\ cpu.sp = "A"
  <2>1. cpu.pc \in AfterCall => cpu.pc # "c.svc11" /\ cpu.pc \notin BeforeFlag \cup BeforeCall
    BY DEF AfterCall, BeforeFlag, Unseeded, BeforeCall
  <2> QED
    BY <1>4, <2>1, Zenon DEF Progress, SoundA
<1>13. CASE SecondCall
  <2> DEFINE f == To("a.store")
             r == AppCall(rt, LetterB)
  <2>1. /\ cpu.pc = "a.svc12" /\ RetryService(f) /\ rt' = r.rt /\ main' = main
        /\ uart' = uart /\ cpu' = f
    BY <1>13, Zenon DEF SecondCall, At, RetryService
  <2>2. cpu.pc \in AfterCall /\ "a.store" \in AfterCall
    BY <2>1 DEF AfterCall
  <2>3. Served(rt) /\ uart = <<LetterA>> /\ cpu.sp = "A"
    BY <1>12, <2>2
  <2>4. f \in Contexts /\ f.pc = "a.store" /\ f.sp = "A" /\ f.x19 = "A"
    BY <1>5, <1>7, <1>8, <2>3, Zenon
  <2>5. r.rt = rt
    BY <2>3, CallRefused
  <2> HIDE DEF f, r
  <2>6. SoundA(cpu') /\ Progress(cpu'.pc, rt', uart')
    BY <1>9, <2>1, <2>2, <2>3, <2>4, <2>5, Zenon DEF Progress
  <2>7. Service(f, LetterA) /\ main' # "halted"
    BY <1>1, <2>1 DEF Service
  <2> QED
    BY <1>6, <2>4, <2>6, <2>7, Zenon
<1>14. CASE TouchUart
  <2> DEFINE f == To("a.svc2")
  <2>1. cpu.pc = "a.store" /\ DataAbort(f)
    BY <1>14, BootAttributes, Zenon DEF TouchUart, Stores, At
  <2>2. cpu.pc \in AfterCall /\ "a.svc2" \in AfterCall
    BY <2>1 DEF AfterCall
  <2>3. Served(rt) /\ uart = <<LetterA>> /\ cpu.sp = "A"
    BY <1>12, <2>2
  <2>4. f \in Contexts /\ f.sp = "A" /\ f.x19 = "A"
    BY <1>5, <1>7, <1>8, <2>3, Zenon
  <2> HIDE DEF f
  <2>5. cpu' = [f EXCEPT !.pc = "a.svc2"] /\ rt' = rt /\ main' = main /\ uart' = uart
    BY <2>1 DEF DataAbort
  <2>6. cpu' \in Contexts /\ cpu'.pc = "a.svc2" /\ cpu'.sp = "A" /\ cpu'.x19 = "A"
    BY <1>8, <2>4, <2>5 DEF Contexts
  <2>7. SoundA(cpu') /\ Progress(cpu'.pc, rt', uart')
    BY <1>9, <2>2, <2>3, <2>5, <2>6, Zenon DEF Progress
  <2>8. Service(f, LetterA)
    BY <2>1, Zenon DEF Service
  <2> QED
    BY <1>6, <2>4, <2>6, <2>7, <2>8, Zenon
<1>15. CASE Finish
  <2>1. cpu.pc = "a.svc2" /\ Halt
    BY <1>15, Zenon DEF Finish, At
  <2>2. cpu' = cpu /\ rt' = rt /\ uart' = uart
    BY <2>1 DEF Halt
  <2>3. Service(cpu, LetterA)
    BY <2>1, Zenon DEF Service
  <2>4. SoundA(cpu') /\ Progress(cpu'.pc, rt', uart') /\ cpu'.pc = "a.svc2"
    BY <1>4, <2>1, <2>2
  <2> QED
    BY <1>1, <1>6, <2>3, <2>4, Zenon
<1> QED
  BY <1>10, <1>11, <1>13, <1>14, <1>15

\* The end of an entry at an address of launch_user_demo.
LEMMA UndefinedKeeps ==
  ASSUME DemoInv, Undefined
  PROVE  DemoInv'
<1>1. main = "user" /\ cpu.pc = "wild" /\ Report /\ flag' = flag
  BY Zenon DEF Undefined, At
<1>2. cpu' = cpu /\ rt' = rt /\ uart' = uart /\ main' = "reported"
  BY <1>1 DEF Report
<1>3. main \in Running /\ main' \in Running /\ main' # "halted" /\ cpu.pc \notin PcOfB
      /\ cpu.pc \in BeforeFlag /\ cpu.pc # "a.wait"
  BY <1>1, <1>2 DEF Running, PcOfB, BeforeFlag, Unseeded
<1>4. cpu \in Contexts /\ flag' \in {0, 1}
  BY <1>1, Zenon DEF DemoInv, KernelInv, KernelType
<1>5. KernelInv' /\ Undisturbed
  <2>1. Service(cpu, LetterA)
    BY <1>1, Zenon DEF Service
  <2> QED
    BY <1>1, <1>4, <2>1, ProgramStep
<1>6. SoundA(cpu) /\ Progress(cpu.pc, rt, uart)
  BY <1>3, AOnProcessor, Zenon
<1>7. SoundA(cpu') /\ Progress(cpu'.pc, rt', uart')
  BY <1>2, <1>6
<1> QED
  BY <1>2, <1>3, <1>4, <1>5, <1>7, StepOfA

-----------------------------------------------------------------------------
(* The steps of the kernel. *)

\* Before the scheduler is set up there is nothing to keep.
LEMMA BootsOn ==
  ASSUME KernelInv', flag' \in {0, 1}, main' \in Booting
  PROVE  DemoInv'
<1>1. /\ main' \notin Launching /\ main' \notin {"spsr", "eret"}
      /\ main' \notin Running /\ main' # "halted"
  BY DEF Booting, Launching, Running
<1> QED
  BY <1>1, Zenon DEF DemoInv

\* Both ways to enter EL0 have task A's stack.
LEMMA EntryContexts ==
  \A e \in Entries :
    /\ e \in Contexts /\ e.pc \in Unseeded /\ e.sp = "A"
    /\ [e EXCEPT !.pc = "wild"] \in Entries
  BY DEF Entries, Unseeded, UserContext, Contexts, Labels

\* Until EL0 is entered the scheduler stays as it was set up.
LEMMA LaunchesOn ==
  ASSUME DemoInv, KernelInv', main \in Launching, main' \in Launching,
         UNCHANGED <<sched, switches, flag>>,
         main' \in {"spsr", "eret"} => cpu' \in Entries
  PROVE  DemoInv'
<1>1. /\ switches = 0 /\ sched.current = PREEMPT_TASK_A
      /\ sched.tasks[PREEMPT_TASK_B].context = UserContext("b.seed", "B")
      /\ flag \in {0, 1}
  BY Zenon DEF DemoInv
<1>2. switches' = switches /\ sched' = sched /\ flag' = flag
  OBVIOUS
<1>3. /\ switches' = 0 /\ sched'.current = PREEMPT_TASK_A
      /\ sched'.tasks[PREEMPT_TASK_B].context = UserContext("b.seed", "B")
      /\ flag' \in {0, 1}
  BY <1>1, <1>2
<1>4. (sched.current = PREEMPT_TASK_A)'
      /\ (sched.tasks[PREEMPT_TASK_B].context = UserContext("b.seed", "B"))'
  BY <1>3 DEF PREEMPT_TASK_A, PREEMPT_TASK_B, UserContext
<1>5. main' \notin Running /\ main' # "halted"
  BY DEF Launching, Running
<1>6. (main \in {"spsr", "eret"} => cpu \in Entries)'
  BY Zenon DEF Entries, Unseeded, UserContext
<1> QED
  BY <1>3, <1>4, <1>5, <1>6, Zenon DEF DemoInv

\* Once EL0 runs, the timer may do anything but run again after it was stopped in
\* time.
LEMMA RunsOn ==
  ASSUME DemoInv, KernelInv', main \in Running, main' = main,
         UNCHANGED <<late, cpu, sched, switches, rt, uart, flag>>,
         late = 0 /\ switches = 2 => timer' = "off"
  PROVE  DemoInv'
<1>1. /\ SoundA(ContextOfA) /\ SoundB(ContextOfB)
      /\ Progress(ContextOfA.pc, rt, uart)
      /\ Switching(ContextOfA, sched.current, switches, flag)
      /\ InTime(switches, timer, late) /\ flag \in {0, 1}
      /\ main = "halted" => cpu.pc = "a.svc2"
  BY Zenon DEF DemoInv
<1>2. /\ late' = late /\ cpu' = cpu /\ sched' = sched /\ switches' = switches
      /\ rt' = rt /\ uart' = uart /\ flag' = flag
  OBVIOUS
<1>3. ContextOfA' = ContextOfA /\ ContextOfB' = ContextOfB
  BY <1>2 DEF ContextOfA, ContextOfB, PREEMPT_TASK_A, PREEMPT_TASK_B
<1>4. SoundA(ContextOfA)' /\ SoundB(ContextOfB)'
  BY <1>1, <1>3 DEF SoundA, SoundB
<1>5. Progress(ContextOfA.pc, rt, uart)'
  BY <1>1, <1>2, <1>3 DEF Progress, Ready, Serving, Served
<1>6. Switching(ContextOfA, sched.current, switches, flag)'
  BY <1>1, <1>2, <1>3 DEF Switching
<1>7. InTime(switches, timer, late)'
  BY <1>1, <1>2 DEF InTime
<1>8. main' \notin Launching /\ main' \notin {"spsr", "eret"}
  BY DEF Running, Launching
<1>9. (main = "halted" => cpu.pc = "a.svc2")' /\ flag' \in {0, 1}
  BY <1>1, <1>2
<1> QED
  BY <1>4, <1>5, <1>6, <1>7, <1>8, <1>9, Zenon DEF DemoInv

\* eret to EL0.
LEMMA EnterKeeps ==
  ASSUME DemoInv, KernelInv', EnterUser, flag' = flag
  PROVE  DemoInv'
<1>1. /\ main = "eret" /\ main' = "user" /\ cpu' = cpu /\ sched' = sched
      /\ switches' = switches /\ rt' = rt /\ uart' = uart
  BY DEF EnterUser
<1>2. main \in Launching /\ main \in {"spsr", "eret"} /\ main' \notin Launching
      /\ main' \notin {"spsr", "eret"} /\ main' # "halted"
  BY <1>1 DEF Launching
<1>3. /\ switches = 0 /\ sched.current = PREEMPT_TASK_A
      /\ sched.tasks[PREEMPT_TASK_B].context = UserContext("b.seed", "B")
      /\ flag \in {0, 1} /\ rt = Bootstrapped /\ uart = <<>>
      /\ cpu \in Entries
  BY <1>2, Zenon DEF DemoInv, KernelInv
<1>4. cpu.pc \in Unseeded /\ cpu.sp = "A" /\ cpu \in Contexts
  BY <1>3, EntryContexts, Zenon
<1>5. UserContext("b.seed", "B").pc = "b.seed" /\ UserContext("b.seed", "B").sp = "B"
      /\ UserContext("b.seed", "B") \in Contexts
  BY DEF UserContext, Contexts, Labels
<1>6. ContextOfA' = cpu /\ ContextOfB' = UserContext("b.seed", "B")
  BY <1>1, <1>3 DEF ContextOfA, ContextOfB, PREEMPT_TASK_A, PREEMPT_TASK_B
<1>7. SoundA(ContextOfA)'
  BY <1>4, <1>6 DEF SoundA, BeforeFlag, Unseeded
<1>8. SoundB(ContextOfB)'
  <2>1. SoundB(UserContext("b.seed", "B"))
    BY <1>5, Zenon DEF SoundB
  <2> QED
    BY <1>6, <2>1 DEF SoundB
<1>9. Progress(ContextOfA.pc, rt, uart)'
  <2>1. cpu.pc \in BeforeFlag \cup BeforeCall
    BY <1>4 DEF BeforeFlag
  <2>2. Progress(cpu.pc, rt, uart)
    BY <1>3, <2>1, StartOfRuntime, Zenon DEF Progress
  <2> QED
    BY <1>1, <1>6, <2>2 DEF Progress, Ready, Serving, Served
<1>10. Switching(ContextOfA, sched.current, switches, flag)'
  <2>1. switches' = 0 /\ sched'.current = 0 /\ ContextOfA'.pc \in Unseeded
    BY <1>1, <1>3, <1>4, <1>6 DEF PREEMPT_TASK_A
  <2> QED
    BY <2>1 DEF Switching, BeforeFlag, Unseeded
<1>11. InTime(switches, timer, late)' /\ flag' \in {0, 1}
  BY <1>1, <1>3 DEF InTime
<1> QED
  BY <1>2, <1>7, <1>8, <1>9, <1>10, <1>11, Zenon DEF DemoInv

\* The end of the boot, which sets the scheduler up.
LEMMA SetUpKeeps ==
  ASSUME DemoInv, KernelInv', SetUp, flag' = flag
  PROVE  DemoInv'
<1>1. main' = "init20" /\ switches' = 0 /\ sched' = S!Schedule(SpawnedB)
  BY SetUpWorks, Zenon DEF SetUp
<1>2. /\ sched'.current = PREEMPT_TASK_A
      /\ sched'.tasks[PREEMPT_TASK_B].context = UserContext("b.seed", "B")
  BY <1>1, SetUpWorks
<1>3. (sched.current = PREEMPT_TASK_A)'
      /\ (sched.tasks[PREEMPT_TASK_B].context = UserContext("b.seed", "B"))'
  BY <1>2 DEF PREEMPT_TASK_A, PREEMPT_TASK_B, UserContext
<1>4. main' \notin {"spsr", "eret"} /\ main' \notin Running /\ main' # "halted"
  BY <1>1 DEF Running
<1>5. flag' \in {0, 1}
  BY Zenon DEF DemoInv
<1> QED
  BY <1>1, <1>3, <1>4, <1>5, Zenon DEF DemoInv

\* The steps of kernel_main.
LEMMA DemoMainKeeps ==
  ASSUME DemoInv, KernelMain, flag' = flag
  PROVE  DemoInv'
<1>1. KernelInv' /\ flag' \in {0, 1}
  BY MainKeeps, Zenon DEF DemoInv
<1>2. KernelInv' /\ main' # "panicked"
  BY <1>1, Zenon DEF KernelInv
<1>3. CASE SelfTests
  BY <1>1, <1>2, <1>3, BootsOn DEF SelfTests, Booting
<1>4. CASE CheckTicks
  BY <1>1, <1>4, BootsOn DEF CheckTicks, Booting
<1>5. CASE WaitForInterrupt
  BY <1>1, <1>5, BootsOn DEF WaitForInterrupt, Booting
<1>6. CASE ResetTicks
  <2>1. sched' = sched /\ switches' = switches
    BY <1>6, Zenon DEF ResetTicks
  <2>2. CASE main = "init10"
    BY <1>1, <1>6, <2>2, BootsOn DEF ResetTicks, Booting
  <2>3. CASE main = "init20"
    <3>1. main' = "arm20"
      BY <1>6, <2>3 DEF ResetTicks
    <3>2. main \in Launching /\ main' \in Launching /\ main' \notin {"spsr", "eret"}
      BY <2>3, <3>1 DEF Launching
    <3> QED
      BY <1>1, <2>1, <3>2, LaunchesOn
  <2> QED
    BY <1>6, <2>2, <2>3, Zenon DEF ResetTicks
<1>7. CASE ArmTimer
  <2>1. sched' = sched /\ switches' = switches
    BY <1>7, Zenon DEF ArmTimer
  <2>2. CASE main = "arm10"
    BY <1>1, <1>7, <2>2, BootsOn DEF ArmTimer, Booting
  <2>3. CASE main = "arm20"
    <3>1. main' = "launch"
      BY <1>7, <2>3 DEF ArmTimer
    <3>2. main \in Launching /\ main' \in Launching /\ main' \notin {"spsr", "eret"}
      BY <2>3, <3>1 DEF Launching
    <3> QED
      BY <1>1, <2>1, <3>2, LaunchesOn
  <2> QED
    BY <1>7, <2>2, <2>3, Zenon DEF ArmTimer
<1>8. CASE SetUp
  BY <1>1, <1>8, SetUpKeeps
<1>9. CASE LoadEntry
  <2>1. main = "launch" /\ main' = "spsr" /\ cpu' \in Entries /\ sched' = sched
        /\ switches' = switches
    BY <1>9 DEF LoadEntry, Entries, Unseeded
  <2>2. main \in Launching /\ main' \in Launching
    BY <2>1 DEF Launching
  <2> QED
    BY <1>1, <2>1, <2>2, LaunchesOn
<1>10. CASE LoadMode
  <2>1. main = "spsr" /\ main' = "eret" /\ cpu' = cpu /\ sched' = sched
        /\ switches' = switches
    BY <1>10, Zenon DEF LoadMode
  <2>2. main \in Launching /\ main' \in Launching /\ main \in {"spsr", "eret"}
    BY <2>1 DEF Launching
  <2>3. cpu' \in Entries
    BY <2>1, <2>2, Zenon DEF DemoInv
  <2> QED
    BY <1>1, <2>1, <2>2, <2>3, LaunchesOn
<1>11. CASE EnterUser
  BY <1>1, <1>11, EnterKeeps
<1> QED
  BY <1>3, <1>4, <1>5, <1>6, <1>7, <1>8, <1>9, <1>10, <1>11 DEF KernelMain

\* A tick in EL0 exchanges the tasks and loses nothing of either.
LEMMA TickKeeps ==
  ASSUME DemoInv, KernelInv', UserTick, flag' = flag
  PROVE  DemoInv'
<1> DEFINE r == Switched(sched, cpu)
<1>1. /\ timer = "pending" /\ main = "user" /\ sched' = r.sched /\ cpu' = r.cpu
      /\ switches' = IF r.sched.current # sched.current THEN switches + 1 ELSE switches
      /\ Rearmed(StopsTimer(sched.current, r.sched.current))
      /\ main' = main /\ rt' = rt /\ uart' = uart
  BY DEF UserTick
<1>2. main \in Running /\ main \notin Booting /\ main' \notin Launching
      /\ main' \notin {"spsr", "eret"} /\ main' # "halted"
  BY <1>1 DEF Running, Booting, Launching
<1>3. /\ Paired(sched) /\ cpu \in Contexts /\ switches \in Nat /\ late \in Nat
      /\ flag \in {0, 1}
  <2>1. late \in 0 .. MaxLate /\ MaxLate \in Nat
    BY KernelSizes, Zenon DEF DemoInv, KernelInv, KernelType
  <2>2. late \in Nat
    BY <2>1
  <2>3. KernelInv /\ flag \in {0, 1}
    BY Zenon DEF DemoInv
  <2> QED
    BY <1>2, <2>2, <2>3, Zenon DEF KernelInv, KernelType
<1>4. /\ SoundA(ContextOfA) /\ SoundB(ContextOfB)
      /\ Progress(ContextOfA.pc, rt, uart)
      /\ Switching(ContextOfA, sched.current, switches, flag)
      /\ InTime(switches, timer, late)
  BY <1>2, Zenon DEF DemoInv
<1>5. Exchanged(sched, cpu, r)
  BY <1>3, SwitchExchanges
<1> HIDE DEF r
<1>6. sched.current \in {PREEMPT_TASK_A, PREEMPT_TASK_B}
  BY <1>3, Zenon DEF Paired
<1>7. /\ switches' = switches + 1 /\ sched'.current = 1 - sched.current
      /\ r.sched.current = 1 - sched.current
      /\ ContextOfA' = ContextOfA /\ ContextOfB' = ContextOfB
  <2>1. CASE sched.current = PREEMPT_TASK_A
    <3>1. /\ r.sched.current = PREEMPT_TASK_B
          /\ r.cpu = sched.tasks[PREEMPT_TASK_B].context
          /\ r.sched.tasks[PREEMPT_TASK_A].context = cpu
      BY <1>5, <2>1 DEF Exchanged
    <3> QED
      BY <1>1, <2>1, <3>1
         DEF ContextOfA, ContextOfB, PREEMPT_TASK_A, PREEMPT_TASK_B
  <2>2. CASE sched.current = PREEMPT_TASK_B
    <3>1. /\ r.sched.current = PREEMPT_TASK_A
          /\ r.cpu = sched.tasks[PREEMPT_TASK_A].context
          /\ r.sched.tasks[PREEMPT_TASK_B].context = cpu
      BY <1>5, <2>2, TwoTasks DEF Exchanged
    <3> QED
      BY <1>1, <2>2, <3>1
         DEF ContextOfA, ContextOfB, PREEMPT_TASK_A, PREEMPT_TASK_B
  <2> QED
    BY <1>6, <2>1, <2>2
<1>8. SoundA(ContextOfA)' /\ SoundB(ContextOfB)'
  BY <1>4, <1>7 DEF SoundA, SoundB
<1>9. Progress(ContextOfA.pc, rt, uart)'
  BY <1>1, <1>4, <1>7 DEF Progress, Ready, Serving, Served
<1>10. switches % 2 = sched.current /\ sched.current \in {0, 1}
  BY <1>4, <1>6 DEF Switching, PREEMPT_TASK_A, PREEMPT_TASK_B
<1>11. Switching(ContextOfA, sched.current, switches, flag)'
  <2>1. (switches + 1) % 2 = 1 - sched.current /\ switches + 1 >= 1
    BY <1>3, <1>10
  <2> QED
    BY <1>7, <2>1 DEF Switching
<1>12. InTime(switches, timer, late)'
  <2> SUFFICES ASSUME late' = 0
               PROVE  switches' <= 2 /\ (switches' = 2 => timer' = "off")
    BY DEF InTime
  <2>1. late = 0 /\ timer' # "pending"
    BY <1>1, <1>3 DEF Rearmed
  <2>2. switches <= 2 /\ switches # 2
    BY <1>1, <1>4, <2>1 DEF InTime
  <2>3. ASSUME switches' = 2 PROVE timer' = "off"
    <3>1. sched.current = 1
      BY <1>3, <1>7, <1>10, <2>3
    <3>2. StopsTimer(sched.current, r.sched.current)
      BY <3>1 DEF StopsTimer, PREEMPT_TASK_A
    <3> QED
      BY <1>1, <2>1, <3>2 DEF Rearmed
  <2> QED
    BY <1>3, <1>7, <2>2, <2>3
<1>13. flag' \in {0, 1}
  BY <1>3
<1> QED
  BY <1>2, <1>8, <1>9, <1>11, <1>12, <1>13, Zenon DEF DemoInv

\* The timer and the interrupts.
LEMMA DemoInterruptKeeps ==
  ASSUME DemoInv, TimerExpires \/ KernelTick \/ UserTick \/ UnknownInterrupt,
         flag' = flag
  PROVE  DemoInv'
<1>1. KernelInv' /\ KernelInv /\ flag' \in {0, 1}
  BY InterruptKeeps, Zenon DEF DemoInv
<1>2. CASE UserTick
  BY <1>1, <1>2, TickKeeps
<1>3. CASE TimerExpires
  <2>1. /\ timer = "running" /\ main' = main /\ late' = late /\ cpu' = cpu /\ sched' = sched
        /\ switches' = switches /\ rt' = rt /\ uart' = uart
    BY <1>3 DEF TimerExpires
  <2>2. CASE main \in Booting
    BY <1>1, <2>1, <2>2, BootsOn
  <2>3. CASE main \in Launching
    <3>1. main' \in {"spsr", "eret"} => cpu' \in Entries
      BY <2>1, Zenon DEF DemoInv
    <3> QED
      BY <1>1, <2>1, <2>3, <3>1, LaunchesOn
  <2>4. CASE main \in Running
    <3>1. InTime(switches, timer, late)
      BY <2>4, Zenon DEF DemoInv
    <3>2. late = 0 /\ switches = 2 => timer' = "off"
      BY <2>1, <3>1 DEF InTime
    <3> QED
      BY <1>1, <2>1, <2>4, <3>2, RunsOn
  <2> QED
    BY <1>1, <2>2, <2>3, <2>4, Places, Zenon
<1>4. CASE KernelTick \/ UnknownInterrupt
  <2>1. /\ ~Masked /\ main' = Resumed /\ cpu' = Reloaded /\ sched' = sched
        /\ switches' = switches /\ rt' = rt /\ uart' = uart
        /\ main = "user" => UnknownInterrupt
    BY <1>4, Zenon DEF KernelTick, UnknownInterrupt
  <2>2. Stays(main, main')
    BY <1>1, <2>1, Resumes
  <2>3. CASE main \in Booting
    <3>1. main' \in Booting
      BY <2>2, <2>3 DEF Stays, Booting, Launching, Running
    <3> QED
      BY <1>1, <3>1, BootsOn
  <2>4. CASE main \in Launching
    <3>1. main' \in Launching
      BY <2>2, <2>4 DEF Stays, Booting, Launching, Running
    <3>2. ASSUME main' \in {"spsr", "eret"} PROVE cpu' \in Entries
      <4>1. main = "spsr" /\ cpu' = [cpu EXCEPT !.pc = "wild"]
        BY <2>1, <2>4, <3>2 DEF Resumed, Reloaded, Launching
      <4>2. cpu \in Entries
        BY <4>1, Zenon DEF DemoInv
      <4> QED
        BY <4>1, <4>2, EntryContexts
    <3> QED
      BY <1>1, <2>1, <2>4, <3>1, <3>2, LaunchesOn
  <2>5. CASE main \in Running
    <3>1. main = "user"
      BY <2>1, <2>5 DEF Running, Masked
    <3>2. main' = main /\ cpu' = cpu
      BY <2>1, <3>1 DEF Resumed, Reloaded
    <3>3. late' = late /\ timer' = IF timer = "pending" THEN "pending" ELSE "off"
      BY <2>1, <3>1 DEF UnknownInterrupt
    <3>4. InTime(switches, timer, late)
      BY <2>5, Zenon DEF DemoInv
    <3>5. late = 0 /\ switches = 2 => timer' = "off"
      BY <3>3, <3>4 DEF InTime
    <3> QED
      BY <1>1, <2>1, <2>5, <3>2, <3>3, <3>5, RunsOn
  <2> QED
    BY <1>1, <2>3, <2>4, <2>5, Places, Zenon
<1> QED
  BY <1>2, <1>3, <1>4

-----------------------------------------------------------------------------
(* The theorems. *)

\* Every step keeps the invariant.
LEMMA DemoKeeps ==
  ASSUME DemoInv, [Next]_vars
  PROVE  DemoInv'
<1>1. CASE KernelMain /\ UNCHANGED flag
  BY <1>1, DemoMainKeeps
<1>2. CASE (TimerExpires \/ Interrupts \/ UnknownInterrupt) /\ UNCHANGED flag
  BY <1>2, DemoInterruptKeeps DEF Interrupts
<1>3. CASE UserStep
  BY <1>3, InstructionKeeps, ServicesKeep, UndefinedKeeps DEF UserStep
<1>4. CASE UNCHANGED vars
  <2>1. /\ main' = main /\ cpu' = cpu /\ sched' = sched /\ switches' = switches
        /\ timer' = timer /\ late' = late /\ rt' = rt /\ uart' = uart /\ flag' = flag
    BY <1>4, Zenon DEF vars, kernelVars
  <2>2. KernelInv'
    BY <1>4, Zenon DEF vars, kernelVars, DemoInv, KernelInv, KernelType
  <2>3. ContextOfA' = ContextOfA /\ ContextOfB' = ContextOfB
    BY <2>1, Zenon DEF ContextOfA, ContextOfB
  <2> QED
    BY <2>1, <2>2, <2>3, Zenon DEF DemoInv
<1> QED
  BY <1>1, <1>2, <1>3, <1>4, Zenon DEF Next

\* The inductive invariant of the kernel with the programs of src/user.S.
THEOREM DemoInvariant == Spec => []DemoInv
<1>1. Init => DemoInv
  <2> SUFFICES ASSUME Init PROVE DemoInv
    OBVIOUS
  <2>1. KernelInv /\ flag \in {0, 1} /\ main = "selftest"
    BY KernelStarts, Zenon DEF Init, KernelInit
  <2>2. main \notin Launching /\ main \notin {"spsr", "eret"} /\ main \notin Running
        /\ main # "halted"
    BY <2>1 DEF Launching, Running
  <2> QED
    BY <2>1, <2>2, Zenon DEF DemoInv
<1>2. DemoInv /\ [Next]_vars => DemoInv'
  BY DemoKeeps
<1> QED
  BY <1>1, <1>2, PTL DEF Spec

\* No unwrap and no assertion of the boot fails, and the transcript is the one
\* of README.md.
THEOREM BootHolds == Spec => []BootPasses
<1>1. DemoInv => BootPasses
  BY Zenon DEF DemoInv, KernelInv, BootPasses, Passed
<1> QED
  BY <1>1, DemoInvariant, PTL

\* Task A's registers come back from the preemption.
THEOREM RegistersHold == Spec => []RegistersIntact
<1>1. DemoInv => RegistersIntact
  <2> SUFFICES ASSUME DemoInv, main = "user", cpu.pc = "a.svc0"
               PROVE  /\ cpu.x19 = "A" /\ sched.current = PREEMPT_TASK_A
                      /\ switches >= 2 /\ switches % 2 = 0
                      /\ late = 0 => switches = 2
    BY Zenon DEF RegistersIntact, At
  <2>1. main \in Running /\ cpu.pc \notin PcOfB /\ cpu.pc \notin BeforeFlag
        /\ cpu.pc \notin Unseeded
    BY DEF Running, PcOfB, BeforeFlag, Unseeded
  <2>2. /\ sched.current = PREEMPT_TASK_A /\ SoundA(cpu)
        /\ Switching(cpu, PREEMPT_TASK_A, switches, flag)
        /\ InTime(switches, timer, late)
    BY <2>1, AOnProcessor, Zenon
  <2>3. cpu.x19 = "A" /\ switches % 2 = PREEMPT_TASK_A /\ switches >= 1
    BY <2>1, <2>2, Zenon DEF SoundA, Switching
  <2>4. switches \in Nat
    BY Zenon DEF DemoInv, KernelInv, KernelType
  <2>5. switches % 2 = 0
    BY <2>3 DEF PREEMPT_TASK_A
  <2>6. switches >= 2
    BY <2>3, <2>4, <2>5
  <2>7. late = 0 => switches <= 2
    BY <2>2, Zenon DEF InTime
  <2> QED
    BY <2>2, <2>3, <2>4, <2>5, <2>6, <2>7
<1> QED
  BY <1>1, DemoInvariant, PTL

\* Every program is on its own stack, on pages with the attributes of the policy.
THEOREM StackHolds == Spec => []OwnStack
<1>1. DemoInv => OwnStack
  <2> SUFFICES ASSUME DemoInv, main = "user"
               PROVE  cpu.sp = IF cpu.pc \in {"b.seed", "b.store", "b.spin",
                                              "c.svc11", "c.idle"}
                               THEN "B" ELSE "A"
    BY BootAttributes, Zenon DEF OwnStack
  <2>1. main \in Running
    BY DEF Running
  <2>2. CASE cpu.pc \in PcOfB
    <3>1. cpu.sp = "B"
      BY <2>1, <2>2, BOnProcessor, Zenon DEF SoundB
    <3> QED
      BY <2>2, <3>1 DEF PcOfB
  <2>3. CASE cpu.pc \notin PcOfB
    <3>1. SoundA(cpu)
      BY <2>1, <2>3, AOnProcessor, Zenon
    <3>2. cpu.pc # "c.idle"
      BY <3>1 DEF SoundA, BeforeFlag, Unseeded, BeforeCall, AfterCall
    <3>3. cpu.sp = IF cpu.pc = "c.svc11" THEN "B" ELSE "A"
      BY <3>1, Zenon DEF SoundA
    <3> QED
      BY <2>3, <3>2, <3>3 DEF PcOfB
  <2> QED
    BY <2>2, <2>3
<1> QED
  BY <1>1, DemoInvariant, PTL

\* While the programs make system calls the timer is off.
THEOREM QuietHolds == Spec => []QuietDuringSyscalls
<1>1. DemoInv => QuietDuringSyscalls
  <2> SUFFICES ASSUME DemoInv, main = "user", late = 0, timer # "off"
               PROVE  cpu.pc \in BeforeFlag \cup PcOfB
    BY DEF QuietDuringSyscalls, BeforeFlag, Unseeded, PcOfB
  <2> SUFFICES ASSUME cpu.pc \notin PcOfB, cpu.pc \notin BeforeFlag PROVE FALSE
    OBVIOUS
  <2>1. main \in Running
    BY DEF Running
  <2>2. /\ Switching(cpu, PREEMPT_TASK_A, switches, flag)
        /\ InTime(switches, timer, late)
    BY <2>1, AOnProcessor, Zenon
  <2>3. switches % 2 = PREEMPT_TASK_A /\ switches >= 1
    BY <2>2, Zenon DEF Switching
  <2>4. switches <= 2 /\ switches # 2
    BY <2>2, Zenon DEF InTime
  <2>5. switches \in Nat
    BY Zenon DEF DemoInv, KernelInv, KernelType
  <2>6. switches = 1
    BY <2>3, <2>4, <2>5
  <2> QED
    BY <2>3, <2>6 DEF PREEMPT_TASK_A
<1> QED
  BY <1>1, DemoInvariant, PTL

\* At the end the byte has been written once, and the app can run.
THEOREM OneByteHolds == Spec => []EndsWithOneByte
<1>1. DemoInv => EndsWithOneByte
  <2> SUFFICES ASSUME DemoInv, main = "halted"
               PROVE  uart = <<LetterA>> /\ rt.ipc.threads[APP_TASK].state = Runnable
    BY Zenon DEF EndsWithOneByte
  <2>1. cpu.pc = "a.svc2" /\ main \in Running
    BY Zenon DEF DemoInv, Running
  <2>2. /\ cpu.pc \notin PcOfB /\ cpu.pc # "c.svc11"
        /\ cpu.pc \notin BeforeFlag \cup BeforeCall
    BY <2>1 DEF PcOfB, BeforeFlag, Unseeded, BeforeCall
  <2>3. Progress(cpu.pc, rt, uart)
    BY <2>1, <2>2, AOnProcessor, Zenon
  <2>4. Served(rt) /\ uart = <<LetterA>>
    BY <2>2, <2>3, Zenon DEF Progress
  <2> QED
    BY <2>4, Zenon DEF Served, IpcFree
<1> QED
  BY <1>1, DemoInvariant, PTL

\* To the kernel a step of a program is a service: an instruction that does not
\* trap is one that does nothing.
LEMMA StepsAreServices ==
  ASSUME cpu \in Contexts, cpu' \in Contexts, UserStep
  PROVE  main = "user" /\ \E frame \in Contexts : Service(frame, LetterA)
<1>1. ASSUME NEW pc \in Labels PROVE To(pc) \in Contexts
  BY <1>1, Moves
<1>2. /\ "a.svc12" \in Labels /\ "c.idle" \in Labels /\ "a.store" \in Labels
      /\ "a.svc2" \in Labels
  BY DEF Labels
<1>3. CASE SeedA \/ ClearFlag \/ WaitFlag \/ SeedB \/ SetFlag \/ Spin \/ Yield
  <2>1. main = "user" /\ NoService(cpu')
    <3>1. CASE ClearFlag \/ SetFlag
      BY <3>1, BootAttributes, Zenon DEF ClearFlag, SetFlag, Stores, At, NoService
    <3>2. CASE SeedA \/ WaitFlag \/ SeedB \/ Spin
      BY <3>2, Zenon DEF SeedA, WaitFlag, SeedB, Spin, Runs, At, NoService
    <3>3. CASE Yield
      BY <3>3, Zenon DEF Yield, At, NoService
    <3> QED
      BY <1>3, <3>1, <3>2, <3>3
  <2> QED
    BY <2>1, Zenon DEF Service
<1>4. CASE FirstCall
  BY <1>1, <1>2, <1>4, Zenon DEF FirstCall, At, Service
<1>5. CASE ServerReply
  BY <1>1, <1>2, <1>5, Zenon DEF ServerReply, At, Service
<1>6. CASE SecondCall
  BY <1>1, <1>2, <1>6, Zenon DEF SecondCall, At, Service
<1>7. CASE TouchUart
  BY <1>1, <1>2, <1>7, BootAttributes, Zenon DEF TouchUart, Stores, At, Service
<1>8. CASE Finish
  BY <1>8, Zenon DEF Finish, At, Service
<1>9. CASE Undefined
  BY <1>9, Zenon DEF Undefined, At, Service
<1> QED
  BY <1>3, <1>4, <1>5, <1>6, <1>7, <1>8, <1>9, Zenon DEF UserStep

\* The programs of src/user.S are EL0 code, so what the kernel promises to any
\* code it promises to them.
THEOREM DemoImplements == Spec => AnyCodeSpec
<1>1. DemoInv /\ [Next]_vars => [AnyCodeNext]_kernelVars
  <2> SUFFICES ASSUME DemoInv, [Next]_vars PROVE [AnyCodeNext]_kernelVars
    OBVIOUS
  <2>1. cpu \in Contexts /\ cpu' \in Contexts
    <3>1. DemoInv'
      BY DemoKeeps
    <3> QED
      BY <3>1, Zenon DEF DemoInv, KernelInv, KernelType
  <2>2. CASE KernelMain \/ TimerExpires \/ Interrupts \/ UnknownInterrupt
    BY <2>2, Zenon DEF AnyCodeNext, Interrupts
  <2>3. CASE UserStep
    <3>1. main = "user" /\ \E frame \in Contexts : Service(frame, LetterA)
      BY <2>1, <2>3, StepsAreServices
    <3>2. LetterA \in Nat
      BY LetterAssumption, RuntimeSizes DEF Bytes
    <3> QED
      BY <3>1, <3>2, Zenon DEF AnyCodeNext
  <2>4. CASE UNCHANGED vars
    BY <2>4, Zenon DEF vars
  <2> QED
    BY <2>2, <2>3, <2>4, Zenon DEF Next
<1> QED
  BY <1>1, DemoInvariant, PTL DEF Spec, Init, AnyCodeSpec

\* The demonstration's system calls hand over, fail and revoke as they do under
\* any code, although its tasks are preempted between them.
THEOREM DemoIsSafe ==
  Spec => []KernelType /\ []HandOver /\ AllOrNothing /\ RevocationIsFinal
  BY DemoImplements, AnyCodeIsSafe, PTL

=============================================================================
