--------------------------------- MODULE Ipc ---------------------------------
(***************************************************************************)
(* One RendezvousIpc of src/ipc.rs and every sequence of calls: any        *)
(* thread, in range or not and whatever its state, may send, call, receive *)
(* or reply, or have its inbox taken.  A call returns before the next one  *)
(* starts: each method takes the state by exclusive reference.             *)
(***************************************************************************)
EXTENDS Rendezvous

VARIABLE
  ipc       \* the state

\* Arguments: every valid index and the first invalid one.
ThreadArgs == 0 .. THREADS
EndpointArgs == 0 .. ENDPOINTS

TypeOK == ipc \in IpcState

Init == ipc = EmptyIpc

DoSend(t, e, m) == ipc' = Send(ipc, t, e, m).ipc

DoCall(t, e, m) == ipc' = Call(ipc, t, e, m).ipc

DoReceive(t, e) == ipc' = Receive(ipc, t, e).ipc

DoReply(t, m) == ipc' = Reply(ipc, t, m).ipc

DoTakeMessage(t) == ipc' = TakeMessage(ipc, t)

Next ==
  \/ \E t \in ThreadArgs, e \in EndpointArgs, m \in Messages : DoSend(t, e, m)
  \/ \E t \in ThreadArgs, e \in EndpointArgs, m \in Messages : DoCall(t, e, m)
  \/ \E t \in ThreadArgs, e \in EndpointArgs : DoReceive(t, e)
  \/ \E t \in ThreadArgs, m \in Messages : DoReply(t, m)
  \/ \E t \in ThreadArgs : DoTakeMessage(t)

Spec == Init /\ [][Next]_ipc

-----------------------------------------------------------------------------
(* Properties. *)

\* A thread is in the queue of an endpoint, once, exactly while its state says
\* it waits there.  The state is written before the push and the queue popped
\* before the state changes, so a failure in between would break this.
QueuedIffBlocked ==
  \A e \in Endpoints :
    /\ Holds(ipc.endpoints[e].senders, InState(ipc, Sending(e)))
    /\ Holds(ipc.endpoints[e].receivers, InState(ipc, Receiving(e)))

\* QueueFull, which would leave a thread blocked but in no queue, cannot be
\* returned: while some thread can still make a call, every queue has room.
RoomForTheRunnable ==
  \A t \in Threads, e \in Endpoints :
    ipc.threads[t].state = Runnable =>
      ~Full(ipc.endpoints[e].senders) /\ ~Full(ipc.endpoints[e].receivers)

\* No missed rendezvous: senders and receivers never both wait at an endpoint.
NeverBothWaiting ==
  \A e \in Endpoints :
    ipc.endpoints[e].senders.len = 0 \/ ipc.endpoints[e].receivers.len = 0

\* A reply target always waits for exactly this server, so a reply never finds
\* its client gone, and no two servers can answer the same call.
ReplyTargetWaits ==
  \A s \in Threads :
    LET c == ipc.threads[s].reply_target
    IN c # None => ipc.threads[c].state = ReplyBlocked(s)

\* One-shot reply: a caller that waits for a server is woken by nothing but a
\* reply that consumes that server's reply target and fills the caller's inbox.
ReplyWakesOnce ==
  [][\A c, s \in Threads :
       /\ ipc.threads[c].state = ReplyBlocked(s)
       /\ ipc'.threads[c].state # ReplyBlocked(s)
       => /\ ipc.threads[s].reply_target = c
          /\ ipc'.threads[s].reply_target = None
          /\ ipc'.threads[c].state = Runnable
          /\ ipc'.threads[c].inbox # None]_ipc

\* docs/ARCHITECTURE.md, "client blocks on one-shot reply authority": whoever
\* is blocked on a server's reply, that server still holds the authority to
\* answer it.
ReplyAuthorityHeld ==
  \A c, s \in Threads :
    ipc.threads[c].state = ReplyBlocked(s) => ipc.threads[s].reply_target = c

=============================================================================
