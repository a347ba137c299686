---------------------------- MODULE ClientServer -----------------------------
(***************************************************************************)
(* Threads that use RendezvousIpc the way its contract intends: thread 0   *)
(* is a server that receives, takes the request and replies to it before   *)
(* it receives again; every other thread is a client that calls and takes  *)
(* the answer, as often as it likes.  A client's request is its own number *)
(* and the server answers with the request, so that an answer that went    *)
(* astray is seen.                                                         *)
(***************************************************************************)
EXTENDS Ipc

ASSUME RequestsAreThreads == Threads \subseteq Messages /\ ENDPOINTS > 0

VARIABLES
  step,     \* what each thread does when it next runs
  request   \* the message the server works on

vars == <<ipc, step, request>>

Server == 0
Clients == Threads \ {Server}

ClientServerType ==
  /\ ipc \in IpcState
  /\ step \in [Threads -> {"call", "receive", "take", "reply"}]
  /\ request \in Messages \cup {None}

ClientServerInit ==
  /\ Init
  /\ step = [t \in Threads |-> IF t = Server THEN "receive" ELSE "call"]
  /\ request = None

\* A thread runs only while it is Runnable.
Runs(t, now, then) ==
  /\ ipc.threads[t].state = Runnable
  /\ step[t] = now
  /\ step' = [step EXCEPT ![t] = then]

ClientCalls(c) ==
  /\ Runs(c, "call", "take")
  /\ DoCall(c, 0, c)
  /\ UNCHANGED request

ClientTakes(c) ==
  /\ Runs(c, "take", "call")
  /\ DoTakeMessage(c)
  /\ UNCHANGED request

ServerReceives ==
  /\ Runs(Server, "receive", "take")
  /\ DoReceive(Server, 0)
  /\ UNCHANGED request

ServerTakes ==
  /\ Runs(Server, "take", "reply")
  /\ DoTakeMessage(Server)
  /\ request' = ipc.threads[Server].inbox

ServerReplies ==
  /\ Runs(Server, "reply", "receive")
  /\ DoReply(Server, request)
  /\ request' = None

ServerSteps == ServerReceives \/ ServerTakes \/ ServerReplies

ClientServerNext ==
  ServerSteps \/ \E c \in Clients : ClientCalls(c) \/ ClientTakes(c)

\* A runnable server is eventually run, whatever the clients do; clients owe
\* nobody anything.
Fairness == WF_vars(ServerSteps)

ClientServerSpec ==
  ClientServerInit /\ [][ClientServerNext]_vars /\ Fairness

-----------------------------------------------------------------------------
(* Properties. *)

\* A client that got its answer got the answer to its own request.
AnswersMatch ==
  \A c \in Clients :
    step[c] = "take" /\ ipc.threads[c].state = Runnable
      => ipc.threads[c].inbox = c

\* While the server answers every request before the next receive, nobody waits
\* for an answer it has lost the authority to give.
NobodyForgotten ==
  \A c \in Clients :
    ipc.threads[c].state = ReplyBlocked(Server)
      => ipc.threads[Server].reply_target = c

\* A message is taken before the next one comes: whoever a delivery or a reply may
\* write to has an empty inbox, for the code overwrites what it finds there.
InboxNotOverwritten ==
  \A t \in Threads :
    step[t] # "take" \/ ipc.threads[t].state # Runnable
      => ipc.threads[t].inbox = None

\* Every call is answered: the sender queue is first in first out, so clients
\* that call again and again do not starve the one that waits.
EveryCallAnswered ==
  \A c \in Clients :
    (ipc.threads[c].state # Runnable) ~> (ipc.threads[c].state = Runnable)

=============================================================================
