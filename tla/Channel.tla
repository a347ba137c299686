------------------------------- MODULE Channel -------------------------------
(***************************************************************************)
(* What rendezvous IPC promises, without ring buffers, thread states or    *)
(* flags: every endpoint has one first-in-first-out line of requests that  *)
(* wait for a partner, a request carries its message, and a call binds the *)
(* caller to the thread that took it until that thread answers.            *)
(***************************************************************************)
EXTENDS Sequences

CONSTANTS Threads, Endpoints, Messages, None

VARIABLES
  line,     \* line[e]: the requests waiting at e, [who, kind, msg]
  awaits,   \* awaits[c]: the thread whose answer c waits for
  owes,     \* owes[s]: the caller s can answer
  inbox     \* inbox[t]: the last message t got and has not taken

channel == <<line, awaits, owes, inbox>>

Init ==
  /\ line = [e \in Endpoints |-> <<>>]
  /\ awaits = [t \in Threads |-> None]
  /\ owes = [t \in Threads |-> None]
  /\ inbox = [t \in Threads |-> None]

InLine(t) == \E e \in Endpoints : \E k \in DOMAIN line[e] : line[e][k].who = t

Idle(t) == awaits[t] = None /\ ~InLine(t)

\* Whether a partner for a request of this kind waits at the front of the line.
Meets(e, kind) ==
  line[e] # <<>> /\ (Head(line[e]).kind = "receive") = (kind # "receive")

Wait(t, e, kind, m) ==
  /\ Idle(t) /\ ~Meets(e, kind)
  /\ line' = [line EXCEPT ![e] = Append(@, [who |-> t, kind |-> kind, msg |-> m])]
  /\ UNCHANGED <<awaits, owes, inbox>>

\* Server s takes message m of client c, which is bound to s by a call.
Transfer(c, s, kind, m) ==
  /\ inbox' = [inbox EXCEPT ![s] = m]
  /\ IF kind = "call"
     THEN awaits' = [awaits EXCEPT ![c] = s] /\ owes' = [owes EXCEPT ![s] = c]
     ELSE UNCHANGED <<awaits, owes>>

Deliver(t, e, kind, m) ==
  /\ Idle(t) /\ Meets(e, kind)
  /\ line' = [line EXCEPT ![e] = Tail(@)]
  /\ Transfer(t, Head(line[e]).who, kind, m)

Accept(t, e) ==
  /\ Idle(t) /\ Meets(e, "receive")
  /\ line' = [line EXCEPT ![e] = Tail(@)]
  /\ Transfer(Head(line[e]).who, t, Head(line[e]).kind, Head(line[e]).msg)

Answer(s, m) ==
  /\ Idle(s) /\ owes[s] # None
  /\ owes' = [owes EXCEPT ![s] = None]
  /\ awaits' = [awaits EXCEPT ![owes[s]] = None]
  /\ inbox' = [inbox EXCEPT ![owes[s]] = m]
  /\ UNCHANGED line

Collect(t) == inbox' = [inbox EXCEPT ![t] = None] /\ UNCHANGED <<line, awaits, owes>>

Next ==
  /\ channel' # channel
  /\ \E t \in Threads :
       \/ \E e \in Endpoints, m \in Messages, kind \in {"send", "call"} :
            Wait(t, e, kind, m) \/ Deliver(t, e, kind, m)
       \/ \E e \in Endpoints : Wait(t, e, "receive", None) \/ Accept(t, e)
       \/ \E m \in Messages : Answer(t, m)
       \/ Collect(t)

Spec == Init /\ [][Next]_channel

=============================================================================
