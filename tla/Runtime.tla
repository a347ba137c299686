------------------------------- MODULE Runtime -------------------------------
(***************************************************************************)
(* The runtime of src/runtime.rs, which ties one capability store to one   *)
(* RendezvousIpc for the two services EL0 can ask for.  As in LeaseTree    *)
(* and Rendezvous an operation is an operator from a runtime to the        *)
(* runtime it leaves behind (field rt) and what it returns (field out).    *)
(***************************************************************************)
EXTENDS Grants, Rendezvous

CONSTANT
  BYTES        \* values of a u8: 2^8

Bytes == 0 .. BYTES - 1

\* The message app_call makes of a byte: label and first register.
Request(byte) == [label |-> 1, word |-> byte]

ASSUME RuntimeSizes ==
  /\ TASKS >= 3 /\ SLOTS >= 2 /\ NODES >= 4 /\ THREADS >= 3 /\ ENDPOINTS >= 1
  /\ {EndpointObject, UartObject} \subseteq Objects
  /\ BYTES \in Nat \ {0}
  /\ \A b \in Bytes : Request(b) \in Messages

RuntimeState ==
  [capabilities : Store, current_task : Tasks, pending_byte : Bytes, ipc : IpcState]

EmptyRuntime ==
  [capabilities |-> EmptyStore, current_task |-> APP_TASK, pending_byte |-> 0,
   ipc |-> EmptyIpc]

\* The runtime an operation leaves, and its error or "Ok".
Returned(rt, out) == [rt |-> rt, out |-> out]

\* initialize, when the grants of bootstrap succeed
Bootstrapped == [EmptyRuntime EXCEPT !.capabilities = Granted]

-----------------------------------------------------------------------------
(* app_call *)

\* The IPC half of app_call on behalf of both tasks; an error leaves what was
\* done before it in place.  Which error it is (Ipc or WrongTask) no caller looks
\* at.
CallAndReceive(rt, byte) ==
  LET call == Call(rt.ipc, APP_TASK, 0, Request(byte))
      receive == Receive(call.ipc, CONSOLE_TASK, 0)
      inbox == receive.ipc.threads[CONSOLE_TASK].inbox
      taken == TakeMessage(receive.ipc, CONSOLE_TASK)
  IN IF call.out # Blocked THEN Returned([rt EXCEPT !.ipc = call.ipc], "Ipc")
     ELSE IF receive.out # Delivered(APP_TASK)
     THEN Returned([rt EXCEPT !.ipc = receive.ipc], "Ipc")
     ELSE IF inbox = None THEN Returned([rt EXCEPT !.ipc = taken], "Ipc")
     ELSE Returned([rt EXCEPT !.ipc = taken,
                              !.pending_byte = inbox.word % BYTES,
                              !.current_task = CONSOLE_TASK], "Ok")

\* Mutant of AppCall: the app's capability is not looked at.
AppCallUnchecked(rt, byte) ==
  IF rt.current_task # APP_TASK THEN Returned(rt, "WrongTask")
  ELSE CallAndReceive(rt, byte)

\* Mutant of AppCall: the processor is not handed to the console.
AppCallKeepsTask(rt, byte) ==
  LET done == CallAndReceive(rt, byte)
  IN Returned([done.rt EXCEPT !.current_task = APP_TASK], done.out)

AppCall(rt, byte) ==
  LET error == AuthorizeError(rt.capabilities, APP_TASK, ENDPOINT_SLOT,
                              {"WRITE"}, "Endpoint")
  IN IF rt.current_task # APP_TASK THEN Returned(rt, "WrongTask")
     ELSE IF error # "Ok" THEN Returned(rt, error)
     ELSE CallAndReceive(rt, byte)

-----------------------------------------------------------------------------
(* console_reply_and_revoke *)

\* Mutant of RevokeEndpoint: the wrong slot of the root task is revoked.
RevokeUart(rt) ==
  LET c == rt.capabilities
  IN Returned([rt EXCEPT !.capabilities = RevokeStore(c, ROOT_TASK, UART_SLOT)],
              "Ok")

\* The reply has been made when the revocation fails.
RevokeEndpoint(rt) ==
  LET c == rt.capabilities
      error == SourceError(c, ROOT_TASK, ENDPOINT_SLOT)
  IN IF error # "Ok" THEN Returned(rt, error)
     ELSE Returned([rt EXCEPT !.capabilities = RevokeStore(c, ROOT_TASK, ENDPOINT_SLOT)],
                   "Ok")

\* On success the byte returned is the pending_byte of rt.
ConsoleReplyAndRevoke(rt) ==
  LET error == AuthorizeError(rt.capabilities, CONSOLE_TASK, UART_SLOT,
                              {"WRITE"}, "Mmio")
      reply == Reply(rt.ipc, CONSOLE_TASK, DefaultMessage)
      answered == [rt EXCEPT !.ipc = reply.ipc]
  IN IF rt.current_task # CONSOLE_TASK THEN Returned(rt, "WrongTask")
     ELSE IF error # "Ok" THEN Returned(rt, error)
     ELSE IF reply.out.kind # "Delivered" THEN Returned(answered, "Ipc")
     ELSE RevokeEndpoint([answered EXCEPT !.current_task = APP_TASK])

=============================================================================
