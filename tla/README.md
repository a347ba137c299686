# A TLA+ model of the Aegis microkernel

Aegis is a small AArch64 microkernel: a capability store with revocation,
rendezvous IPC, a round-robin scheduler, a frame allocator, a page-mapping
policy, and a kernel that boots on one processor, takes timer interrupts,
preempts one EL0 task with another and serves a console over
capability-checked system calls. This directory holds TLA+ modules for these
parts, TLC configurations that check them on small instances, and TLAPS proofs
of every safety property for every size. `PROJECT.json` says, for each
definition, which lines of the source it stands for.

## 1. The system

| Part | Source | State | Operations |
|---|---|---|---|
| Capability store | `capability.rs` | one CSpace (slots holding node reference + generation) per task; a table of lease nodes (object, rights, parent reference, generation, live) | `create_root`, `mint`, `resolve`, `revoke` |
| Service authorisation | `syscall.rs` | none (reads the store) | `authorize_endpoint`, `authorize_frame`, `authorize_mmio` |
| IPC | `ipc.rs` | per thread: state, outgoing message, inbox, `is_call`, `reply_target`; per endpoint: two ring buffers | `send`, `call`, `receive`, `reply`, `take_message` |
| Scheduler | `scheduler.rs` | task table (state, context, ticks), current task | `spawn`, `schedule`, `block`, `wake`, `fault`, `save_context` |
| Frame allocator | `memory.rs` | base, frame count, bitmap, search hint | `new`, `allocate`, `reserve`, `free` |
| Paging | `paging.rs` | array of mappings | `map`, `mapping_at`, `level_index`, `page_descriptor` |
| Runtime | `runtime.rs` | a capability store, an IPC, current task, pending byte | `bootstrap`, `app_call`, `console_reply_and_revoke` |
| Timer and interrupts | `interrupt.rs` | timer, tick counter | `init`, `acknowledge`, `stop_timer` |
| Kernel | `main.rs`, `vectors.S` | where `kernel_main` is, the live scheduler, the EL0 trap frame, UART output | self-tests, boot wait loop, set-up, launch, `irq_dispatch`, `lower_irq_dispatch`, `lower_sync_dispatch` |
| Boot tables | `boot.S`, `linker.ld` | the descriptors of the three translation tables | written once |
| EL0 programs | `user.S` | registers, the flag word on stack A | tasks A and B, the console server |

How they interact. The runtime owns one capability store and one IPC: a
console request is authorised by the application's endpoint capability, carried
by an IPC call, answered by the console after its UART capability is checked,
and after the answer the endpoint is revoked from the root. The kernel owns the
runtime, a second notion of current task (the live scheduler, which only the
timer drives) and the trap frame both of them change. The frame allocator and
the page map are libraries the boot self-tests call; nothing else uses them yet.
The tables the MMU walks are written by hand in `boot.S`, and decide which of
the stores of `user.S` reach memory.

What makes the parts hard to get right:

* *Capabilities*: nodes are reused, generations wrap around, `revoke` walks
  parent links with a step bound while it is changing the nodes it walks over.
* *IPC*: thread states and queues are written in separate statements with an
  error return in between; one reply target per server.
* *Scheduler*: the search position is lost when the processor idles, tasks
  block and wake between two calls.
* *Frames*: the search hint moves forwards, backwards and around the end.
* *Paging*: addresses are cut into table indices that forget the high bits.
* *Runtime*: several steps, each of which may fail, and no rollback.
* *Kernel*: interrupts arrive between any two instructions of the boot code and
  of EL0; the timer is stopped after a fixed number of ticks, by a handler that
  has just restarted it.
* *Boot*: every result is unwrapped, every task number asserted, and the
  descriptors of the boot tables are hexadecimal constants.

The `hazards` of `PROJECT.json` list these at their lines, with the properties
that would catch each going wrong.

## 2. Modules

A component is a module of operators (its state as one value, an operator per
method, giving the state it leaves and what it returns) and a state machine
that calls them in every order. The operators are what the composed modules
use, so the runtime runs the very store and IPC that are checked alone.

| Component | Operators | State machine | Abstract specification | Proofs |
|---|---|---|---|---|
| Capabilities | `LeaseTree` | `CapabilitySystem`, `CapabilityLineage` | `Authority` | `LeaseTreeProofs`, `CapabilityProofs` |
| Authorisation | `Authorize` (extends `LeaseTree`) | | | |
| IPC | `Rendezvous` | `Ipc`, `IpcChannel`, `ClientServer` | `Channel` | `IpcProofs`, `EndpointProofs` |
| Scheduler | `RoundRobin` | `Scheduler` | | `ResourceProofs` |
| Frames | `FrameAllocator` | `FrameClients` | | `ResourceProofs` |
| Paging | `Descriptors` | `AddressSpace` | | `ResourceProofs` |
| Boot tables | `BootMap` (extends `Descriptors`) | | | |
| Runtime | `Grants` (extends `Authorize`), `Runtime` (extends `Grants`, `Rendezvous`) | | | `RuntimeProofs` |
| Self-tests | `SelfTest` (instantiates `FrameAllocator`, `Grants`, `Rendezvous`, `RoundRobin`) | | | `RuntimeProofs` |
| Kernel, timer, vectors | | `Kernel` (extends `Runtime`, `BootMap`, `SelfTest`; instantiates `RoundRobin`) | | `KernelProofs` |
| EL0 | | `Demo` (the programs of `user.S`), `AnyUser` (arbitrary system calls) | `AnyCodeSpec` of `KernelProofs` | `KernelProofs`, `DemoProofs` |

`Option` declares `None` and `PageSize` the page size that frames and mappings
share; the `MC*` modules define the sets a configuration names.

Operators whose comment begins "Mutant of" are not part of the model. Each is a
plausible mistake in the definition that follows it, used to see that the
property it is listed with in `PROJECT.json` notices the mistake.

### Capabilities

`LeaseTree` has a store as a record of `spaces` and `nodes`. A reference is a
node index and a generation; generations are numbers modulo `GENERATIONS` (2^16
in the code). `RevokeLoop` is `revoke`'s loop over the nodes in index order,
each node judged in the table as the iterations before left it, with its count;
the sweep over all CSpaces follows. A call that is refused changes nothing,
which is a stuttering step. `CapabilityLineage` carries beside the store a
history of what each live capability was derived through, recorded from the
arguments of the calls and not from the parent links. With it
`ImplementsAuthority` says that what the store lets a task do is what
`Authority` does: `create_root` plants a tree, `mint` adds a leaf, `revoke` cuts
exactly a subtree. In `Authority` a grant has an identity no other present grant
has; the mapping takes the node index.

### IPC

`Rendezvous` keeps the ring buffers as arrays with head and length, the state
changes in the order of the code, and the failing paths that leave a change
behind (`is_call` set for a bad endpoint, a state set before `QueueFull`, a
reply target consumed by a reply that fails). `Channel` is what an endpoint
promises: a FIFO of waiting senders with their messages or a FIFO of waiting
receivers, and calls that stay blocked until answered. `ClientServer` runs
clients that call, take their answer and call again against a server that
receives, takes, and replies, and asks that every call be answered and that no
message be written over one nobody has taken. The refinement mapping of
`IpcChannel` reads the line of an endpoint off its two ring buffers, and who
awaits and owes an answer off the thread states and reply targets.

### Scheduler

`RoundRobin` has the task table and `schedule`'s circular search. `Scheduler`
adds the history `passed`: how often a runnable task was passed over, and
whether the timer is armed, which decides whether `schedule` goes on being
called.

### Frames

`FrameAllocator` has the bitmap as the set of used indices; addresses are
numbers below `ADDRESSES` (2^64), pages are `PAGE_SIZE` (4096). `FrameClients`
adds who holds what: the addresses `allocate` returned and nobody freed since,
and the frames reserved and not freed since. `free` asks nobody who they are,
so anyone may free any address, a reserved frame's included; its reservation ends
there.

### Paging

`Descriptors` has `page_descriptor`: when there is one, and its attributes as a
set of named bits. `AddressSpace` has `map` with its checks in the order of the
code, `mapping_at` and the table indices, and the descriptor's output address,
which keeps the bits below `OUTPUT_TOP` (2^48) and forgets those above. The
MMU's reading of the bits (`Writes`, `Executes`) is the architecture's, not the
repository's. `BootMap` has the descriptors `boot.S` writes, decoded bit by bit,
for each kind of page `linker.ld` lays out; it is what `Demo` asks whether a
store of EL0 goes through, and `OwnStack` compares it with the policy of
`Descriptors` and asks that EL0 can read its code and stacks only, and write
only the stacks. Nothing is said about execution there: the boot code maps the
kernel's pages without `UXN` and `PXN` (`docs/ARCHITECTURE.md:57` calls it a
bring-up map).

### Runtime and kernel

`Runtime` composes a store and an IPC; `app_call` and `console_reply_and_revoke`
thread the state through every call they make and return early where the code
does. `SelfTest` evaluates the self-tests of `kernel_main` on instances of the
components with the sizes and values of `main.rs` (the region of `0x4100_0000`,
64 frames per word, `<4, 8, 16>`), each giving a line of the transcript; only
the address space is smaller than the code's. `Kernel` starts where `boot.S`
calls `kernel_main`; an unwrap or an assertion that fails leads to `panicked`.
There a handler is one step, because interrupts are masked in it;
`kernel_main`'s wait loop and `launch_user_demo` are split where an interrupt
can fall, and `interrupt::init` is two steps, since its second call runs with
interrupts enabled and a tick may come after the counter is reset. The timer's
interrupt is configured edge-triggered, so it stays pending when the timer is
stopped: `Rearmed` lets the timer that `acknowledge` restarted expire before the
handler stops it. Such a late tick comes although `stop_timer` masks interrupts,
because the `eret` of the handler restores the mask. A tick in kernel mode
overwrites `ELR_EL1` and `SPSR_EL1` (`vector_irq_current_spx` does not save
them), which only matters once the launch stub has loaded them: `Resumed` and
`Reloaded` say where each point then goes on and what `eret` loads. After
`SPSR_EL1` was written `eret` returns to itself; before, EL0 starts in
`launch_user_demo` itself (`"wild"`), may be preempted there, and ends in
`exception_report` at `msr spsr_el1`, which EL0 may not execute. A tick in user
mode saves the trap frame into the current task and loads the next task's.
`Demo` runs the programs of `user.S`; `AnyUser` lets EL0 make any system call at
any time.

## 3. What is model-checked

| Run | Question | Instance |
|---|---|---|
| `capability` | Is any slot ever stale, any node leaked, any capability an orphan or stronger than its parent, any count wrong? Does the store grant exactly what an abstract tree of capabilities grants? | 2 tasks with 2 slots each, 3 nodes, 2 generations |
| `ipc` | Do queues and thread states agree, does every rendezvous happen, is a reply one-shot? Is an endpoint a first-come-first-served line of requests? | 3 threads, 1 endpoint, 1 message |
| `client_server` | Does every client of a well-behaved server get its own answer, always, and is no message written over another? | 3 clients, 1 server |
| `ipc_reply_authority` | Does a server hold the authority to answer whoever waits for it? **No** | 3 threads |
| `scheduler` | Is waiting bounded, is the processor idle only when it may be, does nobody starve? | 3 tasks |
| `frames` | Is allocation first fit, are held and reserved frames safe from the search, is none lost, whoever frees what? | regions of 1 to 5 frames of 2 bytes |
| `paging` | Do admitted mappings have faithful descriptors and disjoint walks, and do they stay? | 2 entries, 4 levels of 1 bit, virtual addresses on both sides of `USER_TOP`, physical ones on both sides of the descriptor's reach, aligned and not |
| `any_user` | Do store, IPC and current task stay in step whatever EL0 does? | 3 tasks with 2 slots, 4 nodes, 3 generations, 3 threads, 1 endpoint, bytes modulo 4: the least the grants and the exchange fit into |
| `demo` | Do the self-tests and the set-up pass, do the two tasks' registers and stacks survive preemption, are the boot tables' pages what the policy says, and does the demonstration write one byte? | the programs of `user.S`, at most one foreign interrupt and two late ticks |
| `demo_boot`, `demo_launch`, `demo_ends` | Does the boot always go on, enter EL0, and end? **No**, three times | the same, no foreign interrupt and no late tick |

Bounds, and why they are enough to be interesting:

* *Capabilities.* Three nodes make chains of three and siblings, and four slots
  let the nodes run out while there is a slot to fill; two
  generations make a reference meet its own generation again after two reuses,
  which 2^16 reuses would in the code. `GENERATIONS`, `NODES` and the rest are
  unbounded in the proofs.
* *IPC.* Three threads give queues of length two and three that wrap, a server
  with two callers, and a sender and receiver beside a third party. One message
  suffices for order, because a request carries its sender; that a message is
  neither lost nor exchanged for another is `AnswersMatch` of `client_server`,
  whose clients send different messages. One endpoint leaves open whether two
  disturb each other; the proofs are for any number.
* *Scheduler.* Three tasks let one be passed over by two others; ticks wrap
  modulo 2.
* *Frames.* A region of four frames lets the hint be in the middle with free
  frames on both sides; a region that starts at a multiple of the page size
  above 0, one that ends at the last address, and regions `new` refuses.
* *Kernel.* The state space is that of the whole program; only `MaxSpurious`
  and `MaxLate` bound it. Two late ticks are enough for one in the boot and one
  in EL0, or for A to be preempted again between its system calls and come back.
  `TICKS` is 2^64 in the code; 8 is more than the timer reaches before it is
  stopped.

`CHECK_DEADLOCK FALSE` stands in the kernel's configurations only: the kernel
really stops, in an endless `wfe`.

### Fairness

* `Scheduler`: weak fairness of `schedule` while the timer is armed, an assumption
  on the caller. In the kernel only the timer interrupt in EL0 calls `schedule`,
  the ticks of the boot do not, and the handler stops the timer itself; so
  `NoStarvation` promises a runnable task its turn if from some point on the timer
  stays armed and the task runnable, and nothing otherwise.
* `ClientServer`: weak fairness of the server's next step, which is always
  enabled when it is its turn. None for the clients: they may stop calling.
* `Demo`: weak fairness of `kernel_main`, of the instruction EL0 executes, of a
  running timer's expiry, and of taking a pending interrupt. A processor
  executes instructions, a programmed timer expires, and interrupts are
  enabled whenever one of these steps waits. None for foreign interrupts.

## 4. Where the code and its documents disagree

* **One reply target** (`ipc.rs:184`, `ipc.rs:162`). `receive` and `call`
  overwrite the server's `reply_target`. A server that receives twice before it
  replies can answer only the second caller; the first stays `ReplyBlocked`.
  The server of the runtime never does this (`NobodyForgotten`, `HandOver`).
* **Lost wakeup in the boot loop** (`main.rs:174`). `kernel_main` tests the tick
  count and then executes `wfi` with interrupts enabled. If the third tick
  comes in between, its handler stops the timer and `wfi` waits for ever.
* **Launch is not interrupt-safe** (`user.S:57`). Ticks are running when
  `launch_user_demo` loads `ELR_EL1`; a tick before `eret` replaces it, and task
  A's first instruction is never reached.
* **Preemption is stopped too early** (`main.rs:246`). The timer is stopped on
  the second user tick whether or not B has stored the flag A waits for, and
  A's own clearing of the flag may come after B's store. If the flag is set
  while A waits, the demonstration does end, unless an interrupt the kernel does
  not know has stopped the timer (`FlagIsSeen`).

Observations without a run of their own:

* The transcript's line on register integrity demands exactly two switches. After
  a late tick there are four when A goes on, its registers intact
  (`RegistersIntact`), and the line would say FAIL.
* `map` admits any aligned physical address, and `page_descriptor` masks it to 48
  bits: from 2^48 on the descriptor names another page than the mapping does
  (`DescriptorsFaithful` says exactly when they agree).

## 5. What is proved

For every value of the constants that satisfies the named assumptions:

* **Capabilities** (`LeaseTreeProofs`, `CapabilityProofs`): `TypeOK`,
  `SlotsCurrent`, `OneSlotPerNode`, `ParentsCurrent`, `Attenuated`. None is
  inductive alone. The inductive invariant `StoreInv` is their conjunction and
  the existence of a depth for every node, with each live node deeper than its
  parent, so that the parent links have no cycle. From it follows that a walk
  visits each node at most once and the bound of `NODES` steps is never hit
  short of a root; so the nodes `revoke` takes are closed under derivation,
  although it bumps generations while it goes. That is `LoopKills`, by induction
  over the loop: a walk compares the references children keep, which no
  iteration changes, and a node's own generation, which only its own iteration
  does, so the loop kills exactly what was live below the root when it began (or
  was the root), and counts it. The number `revoke` returns is the number of
  slots it empties (`RevokeCountsSlots`), because no two slots share a node.
  `ImplementsAuthority` needs `LineageInv` in addition: the history, recorded
  from the arguments of the calls, follows the parent links, so that the bounded
  walk finds exactly what was derived through the revoked capability.
  Assumptions: sizes are naturals, at most 65536 nodes (the index is a `u16`),
  at least one generation.
* **IPC** (`IpcProofs`): `TypeOK`, `QueuedIffBlocked`, `RoomForTheRunnable`,
  `NeverBothWaiting`, `ReplyTargetWaits` and the action property
  `ReplyWakesOnce`. The inductive invariant `IpcInv` is the conjunction of the
  types, the agreement of queues and states, one-sided endpoints and waiting
  reply targets. They need each other: a thread that can make a call is in no
  queue, because its state would say so; then `THREADS` entries cannot all be
  taken by other threads, each once (the pigeonhole principle), so the push that
  follows the change of state succeeds and queue and state agree again; and a
  client in state `ReplyBlocked` is in no queue, so nothing but a reply wakes
  it. Lemmas on the ring buffer (`PushHolds`, `PopHolds`) say what the window of
  entries holds after `push` and `pop`, wrapped or not. Assumptions: at least
  one thread; `None` is neither a thread nor a message.
* **IPC as a channel** (`EndpointProofs`): `ImplementsChannel`, from `IpcInv`. The
  line of an endpoint is the entries of one of its two queues, since never both
  are in use; a push appends to it and a pop takes its head (`SenderJoins`,
  `SenderLeaves` and their like for receivers), what else a call changes is
  invisible to it (`LineKept`), and each call maps to one step of `Channel` or to
  none (`SendOrCallMaps`, `ReceiveMaps`, `ReplyMaps`, `TakeMessageMaps`).
* **Clients and a server** (`EndpointProofs`): `ClientServerType`,
  `AnswersMatch`, `NobodyForgotten`, `InboxNotOverwritten`, for any number of
  clients. `ClientServerInv` adds to `IpcInv` where each party is: a client is
  about to call, queued with its request, owed an answer by the server, or has
  it; the server owes nothing, or owes exactly the client whose request it holds.
  Assumptions: each client has a message of its own, and there is an endpoint.
* **Scheduler** (`ResourceProofs`): `SchedTypeOK`, `BoundedWaiting`,
  `ScheduleNeverIdlesWrongly`. The invariant `WaitInv` says that the number of
  times a runnable task was passed over plus its distance from the start of the
  next search stays below `TASKS`: each call that passes it over brings the
  start closer, and an idle processor means nobody was waiting.
* **Frames** (`ResourceProofs`): `TypeOK`, `HeldFramesCanBeFreed`, `NoFrameLost`,
  `FirstFit`, `ReservedNeverHandedOut`. The invariant `FrameInv` says that no
  frame below the hint is free, unless the hint is 0, and that the used frames
  are those reserved or held, with addresses and indices in bijection; a `free`
  that is refused was for no frame held or reserved (`RefusedFree`).
  Assumption: the region ends within the address space (the code adds without a
  check in `allocate`).
* **Paging** (`ResourceProofs`): `MapTypeOK`, `DescriptorsFaithful`,
  `WalksDisjoint` and the action property `MappingsStay`. The invariant
  `Admitted` is what `map` lets through: aligned, within the user's range, never
  writable and executable, no virtual address twice. That disjoint walks follow
  is arithmetic (`WalkDetermines`): four index fields and alignment determine an
  address below `USER_TOP`. That the masked output address is the page's exactly
  below `OUTPUT_TOP` is `MaskedFits`. Assumption: the four levels reach up to
  `USER_TOP`.

* **Runtime** (`RuntimeProofs`): what the services do, as lemmas the kernel's
  proofs cite. The store after `bootstrap` is known entry by entry, in a table of
  any size with room for the four grants (`GrantStep`, `GrantsDone`): the first
  free node is the number of grants made so far. From there the runtime has three
  states, `Ready`, `Serving` and `Served`, and each service is shown to go from
  one to the next or to fail and leave everything (`app_call` needs the endpoint
  capability, the reply needs the console to owe one, and after the revocation
  the slot is empty). An error half way would be an IPC state that is none of the
  three; that the third step of `app_call` cannot fail is that a receiver finds
  the caller it has just let queue. The self-tests of `kernel_main` are evaluated
  by the same lemmas on their own instances (`SelfTestsPass`).
* **Kernel under any EL0 code** (`KernelProofs`): `KernelType`, `HandOver` and
  the action properties `AllOrNothing` (a hand-back to the app with its
  capability revoked and its byte written included) and `RevocationIsFinal`, for
  `AnyUser` and for more: `AnyCodeSpec` lets EL0 also move to any program
  counter, stack and register between its traps and pass any number in `x0`
  (`AnyCodeIsSafe`), and `AnyUser` implements it (`AnyUserImplements`). None of
  the four is inductive: that `HandOver` is kept by a reply depends on what the
  store holds, which depends on how the boot filled it. The inductive invariant
  `KernelInv` says, for each place of `kernel_main`, what is set up there: an
  empty runtime until the set-up, the bootstrapped one until EL0 is entered, one
  of the three states of the exchange afterwards, with a byte on the UART
  exactly in the last; and from the set-up on two runnable tasks, of which one
  is current.
* **The demonstration** (`DemoProofs`): `BootPasses`, `RegistersIntact`,
  `OwnStack`, `QuietDuringSyscalls`, `EndsWithOneByte`, for any number of late
  and foreign interrupts. The inductive invariant `DemoInv` follows the two tasks
  instead of the processor: the context of A and that of B, each on the processor
  or saved in the scheduler, are where its program can be (A possibly in the launch
  stub, from where it gets no further), on its own stack and
  with its own registers; the runtime is as far as A has come; the parity of the
  number of switches says who runs; A is past its loop only after a switch; and
  two switches without a late tick mean a stopped timer. A preemption exchanges
  the two roles and leaves both contexts alone (`SwitchExchanges`), which is why
  the invariant is about contexts and not about registers. The programs are an
  instance of arbitrary code (`DemoImplements`), so that `HandOver`,
  `AllOrNothing` and `RevocationIsFinal` hold of them too (`DemoIsSafe`), with
  preemption between their system calls.
  Assumptions of the last three: the store has at least 3 tasks with 2 slots and
  4 nodes, the IPC at least 3 threads and an endpoint, the bytes are those below
  `BYTES`, every request is a message (`RuntimeSizes`); tick counter and bounds are
  naturals and the letter the second call sends is a byte (`KernelSizes`,
  `LetterAssumption`); `x0` holds a number (`RegistersAssumption`). The kernel has
  4 tasks, 8 slots, 16 nodes, 4 threads and 2 endpoints. `MaxSpurious` and
  `MaxLate` are any naturals, so nothing rests on how often these interrupts come.

Only proved, without a run: the type invariants of `Scheduler` and
`ClientServer`, and what is said about `AnyCodeSpec`.

Only model-checked: liveness, under fairness (`EveryCallAnswered`, `NoStarvation`,
`FlagIsSeen`), which is out of the prover's reach. The four properties of section
4 that do not hold are refuted by TLC's counterexamples. Every other property of
the passing runs is proved.

## 6. What is not modelled

* The rest of `boot.S`: the way from EL2 to EL1, clearing `.bss`, and the control
  registers that turn the MMU on. A straight line with interrupts masked on one
  core: no choice and no interleaving. `linker.ld` has no behaviour; `BootMap`
  only names its pages.
* The UART driver and the text the kernel prints. The outcomes of the self-tests
  and the bytes of the console service are kept.
* The registers of the interrupt controller and the timer: what `init`,
  `acknowledge` and `stop_timer` write is modelled by its effect on the timer and
  its pending interrupt.
* `Syscall::try_from` and the names of errors: no code in the kernel decodes a
  system call with it.
* The vectors of the `REPORT` macro, which print and halt, are one outcome,
  `reported`; which registers they print is left out.
* Message contents beyond identity, and `capability_slot`, which no code reads.
* Caches, TLBs and memory ordering: one core, and no code depends on them
  after boot.
