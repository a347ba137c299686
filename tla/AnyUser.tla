------------------------------ MODULE AnyUser -------------------------------
(***************************************************************************)
(* The kernel under arbitrary EL0 code: whatever runs may at any time make *)
(* any system call with any value in x0, abort, or fault, and the timer    *)
(* may expire in between.  The kernel looks at nothing of the code it      *)
(* interrupts, so the position of that code does not move.                 *)
(***************************************************************************)
EXTENDS Kernel

CONSTANT Registers    \* values of x0

ASSUME RegistersAssumption == Registers \subseteq Nat

User == main = "user"

Calls(x0) == User /\ CallService(cpu, x0)
Replies == User /\ ReplyService(cpu)
Retries == User /\ RetryService(cpu)
OtherCall == User /\ NoService(cpu)
Aborts == User /\ DataAbort(cpu)
Halts == User /\ Halt
Faults == User /\ Report

AnyUserNext ==
  \/ KernelMain \/ TimerExpires \/ KernelTick \/ UserTick \/ UnknownInterrupt
  \/ \E x0 \in Registers : Calls(x0)
  \/ Replies \/ Retries \/ OtherCall \/ Aborts \/ Halts \/ Faults

AnyUserSpec == KernelInit /\ [][AnyUserNext]_kernelVars

-----------------------------------------------------------------------------
(* Properties. *)

\* The runtime's own notion of who runs agrees with the IPC state: the console
\* is current exactly while the app waits for its reply and the console holds
\* the reply target; otherwise both can run and nobody waits anywhere.
HandOver ==
  LET app == rt.ipc.threads[APP_TASK]
      console == rt.ipc.threads[CONSOLE_TASK]
  IN /\ console.state = Runnable /\ console.inbox = None
     /\ rt.ipc.endpoints[0].senders.len = 0
     /\ rt.ipc.endpoints[0].receivers.len = 0
     /\ IF rt.current_task = CONSOLE_TASK
        THEN app.state = ReplyBlocked(CONSOLE_TASK) /\ console.reply_target = APP_TASK
        ELSE app.state = Runnable /\ console.reply_target = None

\* No service fails half way: app_call makes three IPC operations and
\* console_reply_and_revoke a reply and a revocation, without undoing one when
\* the next fails, yet a service either leaves the runtime as it was or hands the
\* processor over.  When it hands it back to the app, the app's capability is
\* gone and the byte it asked for is written, too.
AllOrNothing ==
  [][main = "user" =>
       /\ rt'.current_task # rt.current_task
       /\ rt'.current_task = APP_TASK =>
            /\ rt'.capabilities.spaces[APP_TASK][ENDPOINT_SLOT] = None
            /\ uart' = Append(uart, rt.pending_byte)]_rt

\* The first reply revokes the endpoint for good: after the console has written
\* a byte, no sequence of system calls gets anything more out of the runtime.
RevocationIsFinal ==
  [][uart # <<>> => UNCHANGED <<rt, uart>>]_kernelVars

=============================================================================
