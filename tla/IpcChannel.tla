----------------------------- MODULE IpcChannel ------------------------------
(***************************************************************************)
(* RendezvousIpc implements Channel.                                       *)
(***************************************************************************)
EXTENDS Ipc, Sequences

\* Refinement mapping: the line of an endpoint is its senders, each with the
\* message kept in its thread, or its receivers, front first.
Request(f, x) ==
  [who |-> x, kind |-> IF f.threads[x].is_call THEN "call" ELSE "send",
   msg |-> f.threads[x].outgoing]

Reception(x) == [who |-> x, kind |-> "receive", msg |-> None]

LineIn(f, e) ==
  LET senders == f.endpoints[e].senders
      receivers == f.endpoints[e].receivers
  IN [k \in 1 .. senders.len |-> Request(f, EntryAt(senders, k - 1))]
     \o [k \in 1 .. receivers.len |-> Reception(EntryAt(receivers, k - 1))]

Await(state) == IF state.kind = "ReplyBlocked" THEN state.of ELSE None

LineFn(f) == [e \in Endpoints |-> LineIn(f, e)]
AwaitsFn(f) == [t \in Threads |-> Await(f.threads[t].state)]
OwesFn(f) == [t \in Threads |-> f.threads[t].reply_target]
InboxFn(f) == [t \in Threads |-> f.threads[t].inbox]

C == INSTANCE Channel WITH
       line <- LineFn(ipc),
       awaits <- AwaitsFn(ipc),
       owes <- OwesFn(ipc),
       inbox <- InboxFn(ipc)

\* Every behaviour of RendezvousIpc is a behaviour of Channel: threads are
\* served first come first served, a receiver gets the message its own partner
\* sent and nobody else's, a plain send is never taken for a call (the is_call
\* flag survives failed calls), and a call that fails moves nothing.
ImplementsChannel == C!Spec

=============================================================================
