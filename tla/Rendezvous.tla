----------------------------- MODULE Rendezvous ------------------------------
(***************************************************************************)
(* The rendezvous IPC of src/ipc.rs as a value: the threads and, for every *)
(* endpoint, a ring buffer of blocked senders and one of blocked           *)
(* receivers.  Every public method of RendezvousIpc is an operator whose   *)
(* value is the state it leaves behind (field ipc) and what it returns     *)
(* (field out), so that the state machine of one RendezvousIpc (module     *)
(* Ipc) and the runtime that owns one use the same operations.             *)
(***************************************************************************)
EXTENDS Integers, Option

CONSTANTS
  THREADS, ENDPOINTS,  \* the const generics of RendezvousIpc
  Messages,            \* the messages threads exchange
  DefaultMessage       \* Message::default(), all zero

Threads == 0 .. THREADS - 1
Endpoints == 0 .. ENDPOINTS - 1
Positions == 0 .. THREADS - 1

\* ThreadState; `of` is the endpoint, or the server, a blocked thread waits for.
State(kind, of) == [kind |-> kind, of |-> of]
Runnable == State("Runnable", None)
Sending(e) == State("Sending", e)
Receiving(e) == State("Receiving", e)
ReplyBlocked(s) == State("ReplyBlocked", s)
ThreadStates == {Runnable} \cup {Sending(e) : e \in Endpoints}
                  \cup {Receiving(e) : e \in Endpoints}
                  \cup {ReplyBlocked(s) : s \in Threads}

Thread == [state : ThreadStates, outgoing : Messages,
           inbox : Messages \cup {None}, is_call : BOOLEAN,
           reply_target : Threads \cup {None}]
Queue == [entries : [Positions -> Threads \cup {None}],
          head : Positions, len : 0 .. THREADS]
Endpoint == [senders : Queue, receivers : Queue]
IpcState == [threads : [Threads -> Thread], endpoints : [Endpoints -> Endpoint]]

ASSUME IpcSizesAssumption ==
  /\ THREADS \in Nat \ {0} /\ ENDPOINTS \in Nat
  /\ DefaultMessage \in Messages

ASSUME IpcNoneAssumption == None \notin Threads /\ None \notin Messages

EmptyThread == [state |-> Runnable, outgoing |-> DefaultMessage,
                inbox |-> None, is_call |-> FALSE, reply_target |-> None]
EmptyQueue == [entries |-> [k \in Positions |-> None], head |-> 0, len |-> 0]
EmptyIpc == [threads |-> [t \in Threads |-> EmptyThread],
             endpoints |-> [e \in Endpoints |->
                              [senders |-> EmptyQueue, receivers |-> EmptyQueue]]]

\* IpcOutcome and IpcError
Out(kind, peer) == [kind |-> kind, peer |-> peer]
Blocked == Out("Blocked", None)
Delivered(t) == Out("Delivered", t)
Failed(error) == Out(error, None)
Result(ipc, out) == [ipc |-> ipc, out |-> out]

-----------------------------------------------------------------------------
(* The ring buffer. *)

\* Mutant of Full: one position is kept free.
FullEarly(q) == q.len = THREADS - 1

Full(q) == q.len = THREADS

\* Mutant of Push: the last to come is the first to be served.
PushFront(q, t) ==
  LET front == (q.head + THREADS - 1) % THREADS
  IN [entries |-> [q.entries EXCEPT ![front] = t], head |-> front,
      len |-> q.len + 1]

\* push on a queue that is not full
Push(q, t) ==
  [entries |-> [q.entries EXCEPT ![(q.head + q.len) % THREADS] = t],
   head |-> q.head, len |-> q.len + 1]

\* What pop returns, and the queue it leaves.
Front(q) == IF q.len = 0 THEN None ELSE q.entries[q.head]

\* Mutant of Pop: the head runs off the end of the ring.
PopNoWrap(q) ==
  IF q.len = 0 THEN q
  ELSE [entries |-> [q.entries EXCEPT ![q.head] = None],
        head |-> q.head + 1, len |-> q.len - 1]

Pop(q) ==
  IF q.len = 0 THEN q
  ELSE [entries |-> [q.entries EXCEPT ![q.head] = None],
        head |-> (q.head + 1) % THREADS, len |-> q.len - 1]

-----------------------------------------------------------------------------
(* The operations. *)

\* ensure_runnable
RunnableError(ipc, t) ==
  IF t \notin Threads THEN "BadThread"
  ELSE IF ipc.threads[t].state # Runnable THEN "ThreadNotRunnable"
  ELSE "Ok"

\* Mutant of Enqueue: the sender is queued and goes on running.
EnqueueRunnable(ipc, t, e, m) ==
  Result([ipc EXCEPT !.threads[t].outgoing = m,
                     !.endpoints[e].senders = Push(@, t)], Blocked)

\* Mutant of Enqueue: the message is not kept in the thread.
EnqueueNoMessage(ipc, t, e, m) ==
  Result([ipc EXCEPT !.threads[t].state = Sending(e),
                     !.endpoints[e].senders = Push(@, t)], Blocked)

\* The second half of send and call: no receiver waits, so the sender keeps
\* its message and queues.  It has changed state before the push can fail.
Enqueue(ipc, t, e, m) ==
  LET blocked == [ipc EXCEPT !.threads[t] = [@ EXCEPT !.outgoing = m,
                                                      !.state = Sending(e)]]
      q == ipc.endpoints[e].senders
  IN IF Full(q) THEN Result(blocked, Failed("QueueFull"))
     ELSE Result([blocked EXCEPT !.endpoints[e].senders = Push(q, t)], Blocked)

\* Client c blocks until server s replies, and s gets the right to reply once.
\* Whatever reply s owed before is forgotten.
Bound(ipc, c, s) ==
  [[ipc EXCEPT !.threads[c].state = ReplyBlocked(s)]
     EXCEPT !.threads[s].reply_target = c]

\* send and call differ in the flag, set before the endpoint is looked up, and
\* in what a delivery does to the sender.
SendOrCall(ipc, t, e, m, kind) ==
  LET flagged == [ipc EXCEPT !.threads[t].is_call = (kind = "call")]
      r == Front(ipc.endpoints[e].receivers)
      popped == [flagged EXCEPT !.endpoints[e].receivers = Pop(@)]
      woken == [popped EXCEPT !.threads[r] = [@ EXCEPT !.inbox = m,
                                                       !.state = Runnable]]
  IN IF RunnableError(ipc, t) # "Ok"
     THEN Result(ipc, Failed(RunnableError(ipc, t)))
     ELSE IF e \notin Endpoints THEN Result(flagged, Failed("BadEndpoint"))
     ELSE IF r = None THEN Enqueue(popped, t, e, m)
     ELSE Result(IF kind = "call" THEN Bound(woken, t, r) ELSE woken, Delivered(r))

Send(ipc, sender, e, m) == SendOrCall(ipc, sender, e, m, "send")

Call(ipc, caller, e, m) == SendOrCall(ipc, caller, e, m, "call")

\* The message goes from the sender's thread to the receiver's.
Transferred(ipc, s, r) ==
  [ipc EXCEPT !.threads[r].inbox = ipc.threads[s].outgoing]

\* Mutant of Receive: the receiver queues without looking for a sender.
ReceiveBlind(ipc, r, e) ==
  IF RunnableError(ipc, r) # "Ok" THEN Result(ipc, Failed(RunnableError(ipc, r)))
  ELSE IF e \notin Endpoints THEN Result(ipc, Failed("BadEndpoint"))
  ELSE Result([ipc EXCEPT !.threads[r].state = Receiving(e),
                          !.endpoints[e].receivers = Push(@, r)], Blocked)

Receive(ipc, r, e) ==
  LET s == Front(ipc.endpoints[e].senders)
      q == ipc.endpoints[e].receivers
      popped == [ipc EXCEPT !.endpoints[e].senders = Pop(@)]
      blocked == [popped EXCEPT !.threads[r].state = Receiving(e)]
      taken == Transferred(popped, s, r)
  IN IF RunnableError(ipc, r) # "Ok"
     THEN Result(ipc, Failed(RunnableError(ipc, r)))
     ELSE IF e \notin Endpoints THEN Result(ipc, Failed("BadEndpoint"))
     ELSE IF s = None /\ Full(q) THEN Result(blocked, Failed("QueueFull"))
     ELSE IF s = None
     THEN Result([blocked EXCEPT !.endpoints[e].receivers = Push(q, r)], Blocked)
     ELSE Result(IF ipc.threads[s].is_call THEN Bound(taken, s, r)
                 ELSE [taken EXCEPT !.threads[s].state = Runnable],
                 Delivered(s))

\* Mutants of Reply: the target is not consumed; the client is woken with no
\* message; the client is not woken.
ReplyKeepsTarget(ipc, server, m) ==
  LET c == ipc.threads[server].reply_target
  IN IF RunnableError(ipc, server) # "Ok" \/ c = None
     THEN Result(ipc, Failed("NoReplyTarget"))
     ELSE Result([ipc EXCEPT !.threads[c].inbox = m,
                             !.threads[c].state = Runnable], Delivered(c))

ReplyNoMessage(ipc, server, m) ==
  LET c == ipc.threads[server].reply_target
  IN IF RunnableError(ipc, server) # "Ok" \/ c = None
     THEN Result(ipc, Failed("NoReplyTarget"))
     ELSE Result([ipc EXCEPT !.threads[server].reply_target = None,
                             !.threads[c].state = Runnable], Delivered(c))

ReplyNoWake(ipc, server, m) ==
  LET c == ipc.threads[server].reply_target
  IN IF RunnableError(ipc, server) # "Ok" \/ c = None
     THEN Result(ipc, Failed("NoReplyTarget"))
     ELSE Result([ipc EXCEPT !.threads[server].reply_target = None,
                             !.threads[c].inbox = m], Delivered(c))

\* The reply target is consumed even when the client turns out not to wait.
Reply(ipc, server, m) ==
  LET c == ipc.threads[server].reply_target
      consumed == [ipc EXCEPT !.threads[server].reply_target = None]
  IN IF RunnableError(ipc, server) # "Ok"
     THEN Result(ipc, Failed(RunnableError(ipc, server)))
     ELSE IF c = None \/ ipc.threads[c].state # ReplyBlocked(server)
     THEN Result(consumed, Failed("NoReplyTarget"))
     ELSE Result([consumed EXCEPT !.threads[c] = [@ EXCEPT !.inbox = m,
                                                           !.state = Runnable]],
                 Delivered(c))

\* Mutant of TakeMessage: the message is copied and stays.
TakeMessageKeeps(ipc, t) == ipc

\* The state take_message leaves; it returns the inbox it empties.
TakeMessage(ipc, t) ==
  IF t \in Threads THEN [ipc EXCEPT !.threads[t].inbox = None] ELSE ipc

-----------------------------------------------------------------------------
(* What a sound state satisfies. *)

\* The thread k places behind the front of a queue.
EntryAt(q, k) == q.entries[(q.head + k) % THREADS]

\* The queue holds exactly the given threads, each once, and nothing outside
\* its window of len entries.
Holds(q, threads) ==
  /\ \A k \in 0 .. THREADS - 1 :
       IF k < q.len THEN EntryAt(q, k) \in threads ELSE EntryAt(q, k) = None
  /\ \A t \in threads : \E k \in 0 .. q.len - 1 : EntryAt(q, k) = t
  /\ \A j, k \in 0 .. q.len - 1 : EntryAt(q, j) = EntryAt(q, k) => j = k

InState(ipc, state) == {t \in Threads : ipc.threads[t].state = state}

=============================================================================
