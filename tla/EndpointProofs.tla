--------------------------- MODULE EndpointProofs ----------------------------
(***************************************************************************)
(* What the rendezvous IPC promises to those who use an endpoint, for      *)
(* every number of threads, endpoints and messages: it implements Channel, *)
(* every call mapping to one step of Channel or to none, and a server and  *)
(* its clients lose nothing, each call being answered with its own answer. *)
(***************************************************************************)
EXTENDS IpcChannel, ClientServer, IpcProofs, SequenceTheorems

-----------------------------------------------------------------------------
(* The line of an endpoint, element by element. *)

Requests == [who : Threads, kind : {"send", "call", "receive"},
             msg : Messages \cup {None}]

\* A function on 1 .. n is a sequence of length n.
LEMMA IsSequence ==
  ASSUME NEW n \in Nat, NEW s \in [1 .. n -> Requests]
  PROVE  s \in Seq(Requests) /\ Len(s) = n
<1>1. s \in Seq(Requests)
  BY SeqDef
<1>2. Len(s) \in Nat /\ DOMAIN s = 1 .. Len(s)
  BY <1>1, LenProperties
<1>3. DOMAIN s = 1 .. n
  OBVIOUS
<1> QED
  BY <1>1, <1>2, <1>3

\* The two parts of a line one after the other.
LEMMA Concatenated ==
  ASSUME NEW m \in Nat, NEW n \in Nat,
         NEW a \in [1 .. m -> Requests], NEW b \in [1 .. n -> Requests]
  PROVE  /\ a \o b \in Seq(Requests) /\ Len(a \o b) = m + n
         /\ \A i \in 1 .. m + n : (a \o b)[i] = IF i <= m THEN a[i] ELSE b[i - m]
<1>1. a \in Seq(Requests) /\ Len(a) = m
  BY IsSequence
<1>2. b \in Seq(Requests) /\ Len(b) = n
  BY IsSequence
<1>3. /\ a \o b \in Seq(Requests) /\ Len(a \o b) = Len(a) + Len(b)
      /\ \A i \in 1 .. Len(a) + Len(b) :
           (a \o b)[i] = IF i <= Len(a) THEN a[i] ELSE b[i - Len(a)]
  BY <1>1, <1>2, ConcatProperties, Zenon
<1> QED
  BY <1>1, <1>2, <1>3, Zenon

\* Whoever is in a queue waits there.
LEMMA InQueue ==
  ASSUME NEW f, Sound(f), NEW e \in Endpoints, NEW k \in Nat
  PROVE  /\ k < f.endpoints[e].senders.len =>
              /\ EntryAt(f.endpoints[e].senders, k) \in Threads
              /\ f.threads[EntryAt(f.endpoints[e].senders, k)].state = Sending(e)
         /\ k < f.endpoints[e].receivers.len =>
              /\ EntryAt(f.endpoints[e].receivers, k) \in Threads
              /\ f.threads[EntryAt(f.endpoints[e].receivers, k)].state = Receiving(e)
<1>1. f.endpoints[e].senders \in Queue /\ f.endpoints[e].receivers \in Queue
  BY Parts DEF Sound
<1>2. f.endpoints[e].senders.len \in 0 .. THREADS /\ f.endpoints[e].receivers.len \in 0 .. THREADS
  BY <1>1 DEF Queue
<1>3. /\ Holds(f.endpoints[e].senders, InState(f, Sending(e)))
      /\ Holds(f.endpoints[e].receivers, InState(f, Receiving(e)))
  BY DEF Sound, Agree
<1>4. k < f.endpoints[e].senders.len =>
        EntryAt(f.endpoints[e].senders, k) \in InState(f, Sending(e))
  BY <1>2, <1>3, IpcSizesAssumption DEF Holds
<1>5. k < f.endpoints[e].receivers.len =>
        EntryAt(f.endpoints[e].receivers, k) \in InState(f, Receiving(e))
  BY <1>2, <1>3, IpcSizesAssumption DEF Holds
<1> QED
  BY <1>4, <1>5 DEF InState

\* The i-th request of a line, in which there is one kind only.
Entry(f, e, i) ==
  IF f.endpoints[e].receivers.len = 0
  THEN Request(f, EntryAt(f.endpoints[e].senders, i - 1))
  ELSE Reception(EntryAt(f.endpoints[e].receivers, i - 1))

\* A line is a sequence of requests, the i-th of which is Entry(f, e, i).
LEMMA LineEntries ==
  ASSUME NEW f, Sound(f), NEW e \in Endpoints
  PROVE  /\ LineIn(f, e) \in Seq(Requests)
         /\ Len(LineIn(f, e)) = f.endpoints[e].senders.len + f.endpoints[e].receivers.len
         /\ \A i \in 1 .. Len(LineIn(f, e)) : LineIn(f, e)[i] = Entry(f, e, i)
<1> DEFINE p == f.endpoints[e].senders
           q == f.endpoints[e].receivers
           a == [k \in 1 .. p.len |-> Request(f, EntryAt(p, k - 1))]
           b == [k \in 1 .. q.len |-> Reception(EntryAt(q, k - 1))]
<1>1. p.len \in Nat /\ q.len \in Nat
  <2>1. p \in Queue /\ q \in Queue
    BY Parts DEF Sound
  <2> QED
    BY <2>1, IpcSizesAssumption DEF Queue
<1>2. p.len = 0 \/ q.len = 0
  BY DEF Sound, OneSided
<1>3. ASSUME NEW k \in 1 .. p.len PROVE Request(f, EntryAt(p, k - 1)) \in Requests
  <2>1. k - 1 \in Nat /\ k - 1 < p.len
    BY <1>1
  <2>2. EntryAt(p, k - 1) \in Threads
    BY <2>1, InQueue
  <2>3. f.threads[EntryAt(p, k - 1)].outgoing \in Messages
    BY <2>2, Parts DEF Sound
  <2> QED
    BY <2>2, <2>3 DEF Request, Requests
<1>4. ASSUME NEW k \in 1 .. q.len PROVE Reception(EntryAt(q, k - 1)) \in Requests
  <2>1. k - 1 \in Nat /\ k - 1 < q.len
    BY <1>1
  <2>2. EntryAt(q, k - 1) \in Threads
    BY <2>1, InQueue
  <2> QED
    BY <2>2 DEF Reception, Requests
<1>5. a \in [1 .. p.len -> Requests] /\ b \in [1 .. q.len -> Requests]
  BY <1>3, <1>4
<1>6. LineIn(f, e) = a \o b
  BY DEF LineIn
<1>7. \A k \in 1 .. p.len : a[k] = Request(f, EntryAt(p, k - 1))
  OBVIOUS
<1>8. \A k \in 1 .. q.len : b[k] = Reception(EntryAt(q, k - 1))
  OBVIOUS
<1> HIDE DEF a, b
<1>10. /\ a \o b \in Seq(Requests) /\ Len(a \o b) = p.len + q.len
       /\ \A i \in 1 .. p.len + q.len :
            (a \o b)[i] = IF i <= p.len THEN a[i] ELSE b[i - p.len]
  BY <1>1, <1>5, Concatenated, Zenon
<1> HIDE DEF p, q
<1>11. ASSUME NEW i \in 1 .. p.len + q.len
       PROVE  (a \o b)[i] = IF q.len = 0 THEN Request(f, EntryAt(p, i - 1))
                            ELSE Reception(EntryAt(q, i - 1))
  <2>1. CASE q.len = 0
    BY <2>1, <1>1, <1>7, <1>10
  <2>2. CASE q.len # 0
    <3>1. p.len = 0 /\ i - p.len = i /\ i \in 1 .. q.len /\ ~(i <= p.len)
      BY <2>2, <1>1, <1>2
    <3> QED
      BY <3>1, <2>2, <1>8, <1>10
  <2> QED
    BY <2>1, <2>2, Zenon
<1> QED
  BY <1>6, <1>10, <1>11 DEF Entry, p, q

-----------------------------------------------------------------------------
(* How a line changes. *)

\* A sequence with one more element at the end.
LEMMA IsAppend ==
  ASSUME NEW a \in Seq(Requests), NEW b \in Seq(Requests), NEW r \in Requests,
         Len(b) = Len(a) + 1, \A i \in 1 .. Len(a) : b[i] = a[i],
         b[Len(a) + 1] = r
  PROVE  b = Append(a, r)
<1> DEFINE c == Append(a, r)
<1>1. /\ c \in Seq(Requests) /\ Len(c) = Len(a) + 1
      /\ \A i \in 1 .. Len(a) : c[i] = a[i]
      /\ c[Len(a) + 1] = r
  BY AppendProperties
<1>2. Len(a) \in Nat
  BY LenProperties
<1> HIDE DEF c
<1>3. \A i \in 1 .. Len(b) : b[i] = c[i]
  BY <1>1, <1>2
<1>4. b = c
  BY <1>1, <1>3, SeqEqual
<1> QED
  BY <1>4 DEF c

\* A sequence without its first element.
LEMMA IsTail ==
  ASSUME NEW a \in Seq(Requests), NEW b \in Seq(Requests), Len(a) # 0,
         Len(b) = Len(a) - 1, \A i \in 1 .. Len(b) : b[i] = a[i + 1]
  PROVE  b = Tail(a)
<1> DEFINE c == Tail(a)
<1>1. a # <<>>
  BY EmptySeq
<1>2. /\ c \in Seq(Requests) /\ Len(c) = Len(a) - 1
      /\ \A i \in 1 .. Len(c) : c[i] = a[i + 1]
  BY <1>1, HeadTailProperties
<1> HIDE DEF c
<1>3. b = c
  BY <1>2, SeqEqual
<1> QED
  BY <1>3 DEF c

\* The front of a line is the front of the queue that is not empty.
LEMMA LineFront ==
  ASSUME NEW f, Sound(f), NEW e \in Endpoints
  PROVE  /\ f.endpoints[e].receivers.len # 0 =>
              /\ LineIn(f, e) # <<>>
              /\ Head(LineIn(f, e)) = Reception(Front(f.endpoints[e].receivers))
         /\ f.endpoints[e].senders.len # 0 =>
              /\ LineIn(f, e) # <<>>
              /\ Head(LineIn(f, e)) = Request(f, Front(f.endpoints[e].senders))
         /\ f.endpoints[e].senders.len = 0 /\ f.endpoints[e].receivers.len = 0 =>
              LineIn(f, e) = <<>>
<1> DEFINE p == f.endpoints[e].senders
           q == f.endpoints[e].receivers
           l == LineIn(f, e)
<1>1. p \in Queue /\ q \in Queue
  BY Parts DEF Sound
<1>2. p.len \in Nat /\ q.len \in Nat
  BY <1>1, IpcSizesAssumption DEF Queue
<1>3. p.len = 0 \/ q.len = 0
  BY DEF Sound, OneSided
<1>4. /\ l \in Seq(Requests) /\ Len(l) = p.len + q.len
      /\ \A i \in 1 .. Len(l) : l[i] = Entry(f, e, i)
  BY LineEntries
<1>5. /\ q.len # 0 => Front(q) = EntryAt(q, 0)
      /\ p.len # 0 => Front(p) = EntryAt(p, 0)
  BY <1>1, PopEntries
<1>6. Entry(f, e, 1) = IF q.len = 0 THEN Request(f, EntryAt(p, 0))
                       ELSE Reception(EntryAt(q, 0))
  BY DEF Entry
<1> HIDE DEF p, q, l
<1>7. Len(l) # 0 => l # <<>> /\ Head(l) = Entry(f, e, 1)
  BY <1>2, <1>4
<1>8. q.len # 0 => l # <<>> /\ Head(l) = Reception(Front(q))
  BY <1>2, <1>4, <1>5, <1>6, <1>7
<1>9. p.len # 0 => l # <<>> /\ Head(l) = Request(f, Front(p))
  BY <1>2, <1>3, <1>4, <1>5, <1>6, <1>7
<1>10. p.len = 0 /\ q.len = 0 => l = <<>>
  BY <1>4, EmptySeq
<1> QED
  BY <1>8, <1>9, <1>10 DEF p, q, l

\* What the threads that wait with a message at e carry.
Carried(f, g, e) ==
  \A x \in Threads : g.threads[x].state = Sending(e) => Request(g, x) = Request(f, x)

\* The line of an endpoint whose queues stay.
LEMMA LineKept ==
  ASSUME NEW f, Sound(f), NEW g, Sound(g), NEW e \in Endpoints,
         g.endpoints[e].senders = f.endpoints[e].senders,
         g.endpoints[e].receivers = f.endpoints[e].receivers,
         Carried(f, g, e)
  PROVE  LineIn(g, e) = LineIn(f, e)
<1> DEFINE p == f.endpoints[e].senders
           q == f.endpoints[e].receivers
           l == LineIn(f, e)
           n == LineIn(g, e)
<1>1. p \in Queue /\ q \in Queue
  BY Parts DEF Sound
<1>2. p.len \in Nat /\ q.len \in Nat
  BY <1>1, IpcSizesAssumption DEF Queue
<1>3. /\ l \in Seq(Requests) /\ Len(l) = p.len + q.len
      /\ \A i \in 1 .. Len(l) : l[i] = Entry(f, e, i)
  BY LineEntries
<1>4. /\ n \in Seq(Requests) /\ Len(n) = p.len + q.len
      /\ \A i \in 1 .. Len(n) : n[i] = Entry(g, e, i)
  <2>1. /\ n \in Seq(Requests)
        /\ Len(n) = g.endpoints[e].senders.len + g.endpoints[e].receivers.len
        /\ \A i \in 1 .. Len(n) : n[i] = Entry(g, e, i)
    BY LineEntries, ZenonT(60)
  <2> QED
    BY <2>1
<1>5. ASSUME NEW i \in 1 .. p.len + q.len PROVE Entry(g, e, i) = Entry(f, e, i)
  <2>1. CASE q.len = 0
    <3>1. i - 1 \in Nat /\ i - 1 < p.len
      BY <2>1, <1>2
    <3>2. EntryAt(p, i - 1) \in Threads /\ g.threads[EntryAt(p, i - 1)].state = Sending(e)
      BY <3>1, InQueue
    <3>3. Request(g, EntryAt(p, i - 1)) = Request(f, EntryAt(p, i - 1))
      BY <3>2 DEF Carried
    <3> QED
      BY <2>1, <3>3 DEF Entry
  <2>2. CASE q.len # 0
    BY <2>2 DEF Entry
  <2> QED
    BY <2>1, <2>2
<1> HIDE DEF l, n
<1>6. \A i \in 1 .. Len(n) : n[i] = l[i]
  BY <1>3, <1>4, <1>5
<1>7. n = l
  BY <1>3, <1>4, <1>6, SeqEqual
<1> QED
  BY <1>7 DEF n, l

\* A sender comes to stand last in the line.
LEMMA SenderJoins ==
  ASSUME NEW f, Sound(f), NEW g, Sound(g), NEW t \in Threads, NEW e \in Endpoints,
         NEW m, f.threads[t].state = Runnable, Waits(f, g, t, e, m),
         f.endpoints[e].receivers.len = 0
  PROVE  LineIn(g, e) = Append(LineIn(f, e), Request(g, t))
<1> DEFINE p == f.endpoints[e].senders
           l == LineIn(f, e)
           n == LineIn(g, e)
<1>1. p \in Queue /\ p.len \in Nat
  BY Parts, IpcSizesAssumption DEF Sound, Queue
<1>2. p.len < THREADS
  <2>1. Holds(p, InState(f, Sending(e))) /\ InState(f, Sending(e)) \in SUBSET Threads
    BY Parts DEF Sound, Agree
  <2>2. t \notin InState(f, Sending(e))
    BY StatesDiffer DEF InState
  <2> QED
    BY <1>1, <2>1, <2>2, Room
<1>3. /\ Push(p, t).len = p.len + 1
      /\ \A k \in Positions :
           EntryAt(Push(p, t), k) = IF k = p.len THEN t ELSE EntryAt(p, k)
  BY <1>1, <1>2, PushEntries
<1>4. g.endpoints[e].senders = Push(p, t) /\ g.endpoints[e].receivers.len = 0
  BY DEF Waits, SendersOnly
<1>5. /\ l \in Seq(Requests) /\ Len(l) = p.len
      /\ \A i \in 1 .. Len(l) : l[i] = Request(f, EntryAt(p, i - 1))
  <2>1. /\ l \in Seq(Requests) /\ Len(l) = p.len + f.endpoints[e].receivers.len
        /\ \A i \in 1 .. Len(l) : l[i] = Entry(f, e, i)
    BY LineEntries
  <2> QED
    BY <1>1, <2>1 DEF Entry
<1>6. /\ n \in Seq(Requests) /\ Len(n) = p.len + 1
      /\ \A i \in 1 .. Len(n) : n[i] = Request(g, EntryAt(Push(p, t), i - 1))
  <2>1. /\ n \in Seq(Requests)
        /\ Len(n) = g.endpoints[e].senders.len + g.endpoints[e].receivers.len
        /\ \A i \in 1 .. Len(n) : n[i] = Entry(g, e, i)
    BY LineEntries
  <2> QED
    BY <1>1, <1>3, <1>4, <2>1 DEF Entry
<1> HIDE DEF l, n
<1>7. ASSUME NEW i \in 1 .. p.len PROVE n[i] = l[i]
  <2>1. i - 1 \in Positions /\ i - 1 # p.len /\ i - 1 \in Nat /\ i - 1 < p.len
    BY <1>1, <1>2, IpcSizesAssumption DEF Positions
  <2>2. EntryAt(Push(p, t), i - 1) = EntryAt(p, i - 1)
    BY <1>3, <2>1
  <2>3. EntryAt(p, i - 1) \in Threads /\ f.threads[EntryAt(p, i - 1)].state = Sending(e)
    BY <2>1, InQueue
  <2>4. EntryAt(p, i - 1) \in Threads \ {t}
    BY <2>3, StatesDiffer
  <2>5. g.threads[EntryAt(p, i - 1)] = f.threads[EntryAt(p, i - 1)]
    BY <2>4 DEF Waits
  <2>6. Request(g, EntryAt(p, i - 1)) = Request(f, EntryAt(p, i - 1))
    BY <2>5 DEF Request
  <2>7. i \in 1 .. Len(n) /\ i \in 1 .. Len(l)
    BY <1>1, <1>5, <1>6
  <2> QED
    BY <1>5, <1>6, <2>2, <2>6, <2>7, ZenonT(60)
<1>8. n[p.len + 1] = Request(g, t)
  <2>1. p.len \in Positions /\ p.len + 1 \in 1 .. Len(n) /\ (p.len + 1) - 1 = p.len
    BY <1>1, <1>2, <1>6, IpcSizesAssumption DEF Positions
  <2>2. EntryAt(Push(p, t), p.len) = t
    BY <1>3, <2>1
  <2> QED
    BY <1>6, <2>1, <2>2, ZenonT(60)
<1>9. Request(g, t) \in Requests
  BY Parts DEF Sound, Request, Requests
<1>10. n = Append(l, Request(g, t))
  BY <1>5, <1>6, <1>7, <1>8, <1>9, IsAppend, ZenonT(60)
<1> QED
  BY <1>10 DEF l, n

\* A receiver comes to stand last in the line.
LEMMA ReceiverJoins ==
  ASSUME NEW f, Sound(f), NEW g, Sound(g), NEW t \in Threads, NEW e \in Endpoints,
         f.threads[t].state = Runnable, f.endpoints[e].senders.len = 0,
         ReceiversOnly(f, g, e, Push(f.endpoints[e].receivers, t))
  PROVE  LineIn(g, e) = Append(LineIn(f, e), Reception(t))
<1> DEFINE q == f.endpoints[e].receivers
           l == LineIn(f, e)
           n == LineIn(g, e)
<1>1. q \in Queue /\ q.len \in Nat
  BY Parts, IpcSizesAssumption DEF Sound, Queue
<1>2. q.len < THREADS
  <2>1. Holds(q, InState(f, Receiving(e))) /\ InState(f, Receiving(e)) \in SUBSET Threads
    BY Parts DEF Sound, Agree
  <2>2. t \notin InState(f, Receiving(e))
    BY StatesDiffer DEF InState
  <2> QED
    BY <1>1, <2>1, <2>2, Room
<1>3. /\ Push(q, t).len = q.len + 1
      /\ \A k \in Positions :
           EntryAt(Push(q, t), k) = IF k = q.len THEN t ELSE EntryAt(q, k)
  BY <1>1, <1>2, PushEntries
<1>4. g.endpoints[e].receivers = Push(q, t) /\ g.endpoints[e].senders.len = 0
  BY DEF ReceiversOnly
<1>5. /\ l \in Seq(Requests) /\ Len(l) = q.len
      /\ \A i \in 1 .. Len(l) : l[i] = Reception(EntryAt(q, i - 1))
  <2>1. /\ l \in Seq(Requests) /\ Len(l) = f.endpoints[e].senders.len + q.len
        /\ \A i \in 1 .. Len(l) : l[i] = Entry(f, e, i)
    BY LineEntries
  <2> QED
    BY <1>1, <2>1 DEF Entry
<1>6. /\ n \in Seq(Requests) /\ Len(n) = q.len + 1
      /\ \A i \in 1 .. Len(n) : n[i] = Reception(EntryAt(Push(q, t), i - 1))
  <2>1. /\ n \in Seq(Requests)
        /\ Len(n) = g.endpoints[e].senders.len + g.endpoints[e].receivers.len
        /\ \A i \in 1 .. Len(n) : n[i] = Entry(g, e, i)
    BY LineEntries
  <2>2. /\ g.endpoints[e].receivers.len = q.len + 1 /\ q.len + 1 # 0
        /\ g.endpoints[e].senders.len + g.endpoints[e].receivers.len = q.len + 1
    BY <1>1, <1>3, <1>4
  <2>3. \A i : Entry(g, e, i) = Reception(EntryAt(Push(q, t), i - 1))
    BY <1>4, <2>2 DEF Entry
  <2> QED
    BY <2>1, <2>2, <2>3, ZenonT(60)
<1> HIDE DEF l, n
<1>7. ASSUME NEW i \in 1 .. q.len PROVE n[i] = l[i]
  <2>1. i - 1 \in Positions /\ i - 1 # q.len
    BY <1>1, <1>2, IpcSizesAssumption DEF Positions
  <2>2. EntryAt(Push(q, t), i - 1) = EntryAt(q, i - 1)
    BY <1>3, <2>1
  <2>3. i \in 1 .. Len(n) /\ i \in 1 .. Len(l)
    BY <1>1, <1>5, <1>6
  <2> QED
    BY <1>5, <1>6, <2>2, <2>3
<1>8. n[q.len + 1] = Reception(t)
  <2>1. q.len \in Positions /\ q.len + 1 \in 1 .. q.len + 1 /\ (q.len + 1) - 1 = q.len
    BY <1>1, <1>2, IpcSizesAssumption DEF Positions
  <2>2. EntryAt(Push(q, t), q.len) = t
    BY <1>3, <2>1
  <2> QED
    BY <1>6, <2>1, <2>2
<1>9. Reception(t) \in Requests
  BY DEF Reception, Requests
<1>10. n = Append(l, Reception(t))
  BY <1>5, <1>6, <1>7, <1>8, <1>9, IsAppend, ZenonT(60)
<1> QED
  BY <1>10 DEF l, n

\* The place of a request in a line of n, and in the line behind the first one.
LEMMA Behind ==
  ASSUME NEW n \in Nat, n <= THREADS, NEW i \in 1 .. n - 1
  PROVE  /\ i - 1 \in Positions /\ i - 1 # THREADS - 1 /\ (i - 1) + 1 = i
         /\ i - 1 \in Nat /\ i - 1 < n - 1
         /\ (i + 1) - 1 = i /\ i + 1 \in 1 .. n
  BY IpcSizesAssumption DEF Positions

\* The first sender leaves the line; the others carry what they carried.
LEMMA SenderLeaves ==
  ASSUME NEW f, Sound(f), NEW g, Sound(g), NEW e \in Endpoints,
         f.endpoints[e].senders.len # 0,
         SendersOnly(f, g, e, Pop(f.endpoints[e].senders)), Carried(f, g, e)
  PROVE  LineIn(g, e) = Tail(LineIn(f, e))
<1> DEFINE p == f.endpoints[e].senders
           l == LineIn(f, e)
           n == LineIn(g, e)
<1>1. p \in Queue /\ p.len \in Nat /\ p.len <= THREADS
  BY Parts, IpcSizesAssumption DEF Sound, Queue
<1>2. /\ Pop(p).len = p.len - 1
      /\ \A k \in Positions :
           EntryAt(Pop(p), k) = IF k = THREADS - 1 THEN None ELSE EntryAt(p, k + 1)
  BY <1>1, PopEntries
<1>3. f.endpoints[e].receivers.len = 0
  BY DEF Sound, OneSided
<1>4. g.endpoints[e].senders = Pop(p) /\ g.endpoints[e].receivers.len = 0
  BY <1>3 DEF SendersOnly
<1>5. /\ l \in Seq(Requests) /\ Len(l) = p.len
      /\ \A i \in 1 .. Len(l) : l[i] = Request(f, EntryAt(p, i - 1))
  <2>1. /\ l \in Seq(Requests) /\ Len(l) = p.len + f.endpoints[e].receivers.len
        /\ \A i \in 1 .. Len(l) : l[i] = Entry(f, e, i)
    BY LineEntries
  <2> QED
    BY <1>1, <1>3, <2>1 DEF Entry
<1>6. /\ n \in Seq(Requests) /\ Len(n) = p.len - 1
      /\ \A i \in 1 .. Len(n) : n[i] = Request(g, EntryAt(Pop(p), i - 1))
  <2>1. /\ n \in Seq(Requests)
        /\ Len(n) = g.endpoints[e].senders.len + g.endpoints[e].receivers.len
        /\ \A i \in 1 .. Len(n) : n[i] = Entry(g, e, i)
    BY LineEntries
  <2> QED
    BY <1>1, <1>2, <1>4, <2>1 DEF Entry
<1> HIDE DEF l, n
<1>7. Len(l) = p.len /\ Len(n) = p.len - 1 /\ Len(l) # 0 /\ Len(n) = Len(l) - 1
  BY <1>1, <1>5, <1>6
<1>8. ASSUME NEW i \in 1 .. Len(n) PROVE n[i] = l[i + 1]
  <2>1. /\ i - 1 \in Positions /\ i - 1 # THREADS - 1 /\ (i - 1) + 1 = i
        /\ i - 1 \in Nat /\ i - 1 < p.len - 1
        /\ (i + 1) - 1 = i /\ i + 1 \in 1 .. Len(l)
    BY <1>1, <1>7, Behind, ZenonT(60)
  <2>2. EntryAt(Pop(p), i - 1) = EntryAt(p, i)
    BY <1>2, <2>1
  <2>3. i - 1 < g.endpoints[e].senders.len
    BY <1>2, <1>4, <2>1
  <2>4. EntryAt(p, i) \in Threads /\ g.threads[EntryAt(p, i)].state = Sending(e)
    BY <1>4, <2>1, <2>2, <2>3, InQueue, SMTT(60)
  <2>5. Request(g, EntryAt(p, i)) = Request(f, EntryAt(p, i))
    BY <2>4 DEF Carried
  <2> QED
    BY <1>5, <1>6, <2>1, <2>2, <2>5, ZenonT(60)
<1>9. l \in Seq(Requests) /\ n \in Seq(Requests)
  BY <1>5, <1>6
<1>10. n = Tail(l)
  BY <1>7, <1>8, <1>9, IsTail, ZenonT(30)
<1> QED
  BY <1>10 DEF l, n

\* The first receiver leaves the line.
LEMMA ReceiverLeaves ==
  ASSUME NEW f, Sound(f), NEW g, Sound(g), NEW e \in Endpoints,
         f.endpoints[e].receivers.len # 0,
         ReceiversOnly(f, g, e, Pop(f.endpoints[e].receivers))
  PROVE  LineIn(g, e) = Tail(LineIn(f, e))
<1> DEFINE q == f.endpoints[e].receivers
           l == LineIn(f, e)
           n == LineIn(g, e)
<1>1. q \in Queue /\ q.len \in Nat /\ q.len <= THREADS
  BY Parts, IpcSizesAssumption DEF Sound, Queue
<1>2. /\ Pop(q).len = q.len - 1
      /\ \A k \in Positions :
           EntryAt(Pop(q), k) = IF k = THREADS - 1 THEN None ELSE EntryAt(q, k + 1)
  BY <1>1, PopEntries
<1>3. f.endpoints[e].senders.len = 0
  BY DEF Sound, OneSided
<1>4. g.endpoints[e].receivers = Pop(q) /\ g.endpoints[e].senders.len = 0
  BY <1>3 DEF ReceiversOnly
<1>5. /\ l \in Seq(Requests) /\ Len(l) = q.len
      /\ \A i \in 1 .. Len(l) : l[i] = Reception(EntryAt(q, i - 1))
  <2>1. /\ l \in Seq(Requests) /\ Len(l) = f.endpoints[e].senders.len + q.len
        /\ \A i \in 1 .. Len(l) : l[i] = Entry(f, e, i)
    BY LineEntries
  <2> QED
    BY <1>1, <1>3, <2>1 DEF Entry
<1>6. /\ n \in Seq(Requests) /\ Len(n) = q.len - 1
      /\ \A i \in 1 .. Len(n) : n[i] = Reception(EntryAt(Pop(q), i - 1))
  <2>1. /\ n \in Seq(Requests)
        /\ Len(n) = g.endpoints[e].senders.len + g.endpoints[e].receivers.len
        /\ \A i \in 1 .. Len(n) : n[i] = Entry(g, e, i)
    BY LineEntries
  <2>2. Len(n) = q.len - 1
    BY <1>1, <1>2, <1>4, <2>1
  <2>3. ASSUME NEW i \in 1 .. Len(n) PROVE n[i] = Reception(EntryAt(Pop(q), i - 1))
    <3>1. Pop(q).len # 0
      BY <1>1, <1>2, <2>2
    <3> QED
      BY <1>4, <2>1, <3>1 DEF Entry
  <2> QED
    BY <2>1, <2>2, <2>3
<1> HIDE DEF l, n
<1>7. Len(l) = q.len /\ Len(n) = q.len - 1 /\ Len(l) # 0 /\ Len(n) = Len(l) - 1
  BY <1>1, <1>5, <1>6, ZenonT(60)
<1>8. ASSUME NEW i \in 1 .. Len(n) PROVE n[i] = l[i + 1]
  <2>1. /\ i - 1 \in Positions /\ i - 1 # THREADS - 1 /\ (i - 1) + 1 = i
        /\ (i + 1) - 1 = i /\ i + 1 \in 1 .. Len(l)
    BY <1>1, <1>7, Behind, ZenonT(60)
  <2>2. EntryAt(Pop(q), i - 1) = EntryAt(q, i)
    BY <1>2, <2>1
  <2> QED
    BY <1>5, <1>6, <2>1, <2>2
<1>9. l \in Seq(Requests) /\ n \in Seq(Requests)
  BY <1>5, <1>6
<1>10. n = Tail(l)
  BY <1>7, <1>8, <1>9, IsTail, ZenonT(30)
<1> QED
  BY <1>10 DEF l, n

\* A function that differs from another one in one place.
Updates(G, F, e, v) == G = [F EXCEPT ![e] = v]

\* It is enough to know its values.
LEMMA OnePlace ==
  ASSUME NEW S, NEW F, F = [x \in S |-> F[x]], NEW G, G = [x \in S |-> G[x]],
         NEW e \in S, NEW v, \A x \in S : G[x] = IF x = e THEN v ELSE F[x]
  PROVE  Updates(G, F, e, v)
<1> DEFINE H == [F EXCEPT ![e] = v]
<1>1. DOMAIN F = S
  BY Zenon
<1>2. H = [x \in DOMAIN F |-> IF x = e THEN v ELSE F[x]]
  BY Zenon
<1>3. H = [x \in S |-> IF x = e THEN v ELSE F[x]]
  BY <1>1, <1>2, Zenon
<1> HIDE DEF H
<1>4. G = H
  BY <1>3
<1> QED
  BY <1>4 DEF H, Updates

\* All lines, when only the one of e changes.
LEMMA OneLine ==
  ASSUME NEW f, NEW g, NEW e \in Endpoints, NEW l, LineIn(g, e) = l,
         \A x \in Endpoints \ {e} : LineIn(g, x) = LineIn(f, x)
  PROVE  Updates(LineFn(g), LineFn(f), e, l)
<1>1. /\ \A x \in Endpoints : LineFn(f)[x] = LineIn(f, x) /\ LineFn(g)[x] = LineIn(g, x)
      /\ LineFn(f) = [x \in Endpoints |-> LineFn(f)[x]]
      /\ LineFn(g) = [x \in Endpoints |-> LineFn(g)[x]]
  BY DEF LineFn
<1>2. \A x \in Endpoints : LineFn(g)[x] = IF x = e THEN l ELSE LineFn(f)[x]
  BY <1>1
<1> QED
  BY <1>1, <1>2, OnePlace, Zenon

-----------------------------------------------------------------------------
(* What the calls do to the mapped state. *)

Same(f, g) ==
  /\ LineFn(g) = LineFn(f) /\ AwaitsFn(g) = AwaitsFn(f)
  /\ OwesFn(g) = OwesFn(f) /\ InboxFn(g) = InboxFn(f)

IdleIn(f, t) ==
  /\ AwaitsFn(f)[t] = None
  /\ \A e \in Endpoints : \A k \in DOMAIN LineFn(f)[e] : LineFn(f)[e][k].who # t

MeetsIn(f, e, kind) ==
  /\ LineFn(f)[e] # <<>>
  /\ (Head(LineFn(f)[e]).kind = "receive") = (kind # "receive")

\* Only a thread in state ReplyBlocked awaits an answer.
LEMMA AwaitOf ==
  /\ Await(Runnable) = None
  /\ \A e : Await(Sending(e)) = None /\ Await(Receiving(e)) = None
  /\ \A s : Await(ReplyBlocked(s)) = s
  BY DEF Await, Runnable, Sending, Receiving, ReplyBlocked, State

\* A runnable thread waits for nothing.
LEMMA RunnableIdle ==
  ASSUME NEW f, Sound(f), NEW t \in Threads, f.threads[t].state = Runnable
  PROVE  IdleIn(f, t)
<1>1. AwaitsFn(f)[t] = None
  BY AwaitOf DEF AwaitsFn
<1>2. ASSUME NEW e \in Endpoints, NEW k \in DOMAIN LineIn(f, e)
      PROVE  LineIn(f, e)[k].who # t
  <2> DEFINE p == f.endpoints[e].senders
             q == f.endpoints[e].receivers
             l == LineIn(f, e)
  <2>1. /\ l \in Seq(Requests) /\ Len(l) = p.len + q.len
        /\ \A i \in 1 .. Len(l) : l[i] = Entry(f, e, i)
    BY LineEntries
  <2>2. p.len \in Nat /\ q.len \in Nat
    <3>1. p \in Queue /\ q \in Queue
      BY Parts DEF Sound
    <3> QED
      BY <3>1, IpcSizesAssumption DEF Queue
  <2>3. DOMAIN l = 1 .. Len(l)
    BY <2>1, LenProperties
  <2>4. k \in 1 .. p.len + q.len /\ l[k] = Entry(f, e, k)
    BY <2>1, <2>3
  <2>5. p.len = 0 \/ q.len = 0
    BY DEF Sound, OneSided
  <2>6. CASE q.len = 0
    <3>1. k - 1 \in Nat /\ k - 1 < p.len
      BY <2>2, <2>4, <2>6
    <3>2. f.threads[EntryAt(p, k - 1)].state = Sending(e)
      BY <3>1, InQueue
    <3>3. EntryAt(p, k - 1) # t
      BY <3>2, StatesDiffer
    <3>4. l[k] = Request(f, EntryAt(p, k - 1))
      BY <2>4, <2>6 DEF Entry
    <3> QED
      BY <3>3, <3>4 DEF Request
  <2>7. CASE q.len # 0
    <3>1. k - 1 \in Nat /\ k - 1 < q.len
      BY <2>2, <2>4, <2>5, <2>7
    <3>2. f.threads[EntryAt(q, k - 1)].state = Receiving(e)
      BY <3>1, InQueue
    <3>3. EntryAt(q, k - 1) # t
      BY <3>2, StatesDiffer
    <3>4. l[k] = Reception(EntryAt(q, k - 1))
      BY <2>4, <2>7 DEF Entry
    <3> QED
      BY <3>3, <3>4 DEF Reception
  <2> QED
    BY <2>6, <2>7
<1> QED
  BY <1>1, <1>2 DEF IdleIn, LineFn

\* A request meets a partner exactly when the other queue is not empty.
LEMMA MeetsPartner ==
  ASSUME NEW f, Sound(f), NEW e \in Endpoints
  PROVE  /\ \A kind \in {"send", "call"} :
              MeetsIn(f, e, kind) <=> f.endpoints[e].receivers.len # 0
         /\ MeetsIn(f, e, "receive") <=> f.endpoints[e].senders.len # 0
<1> DEFINE p == f.endpoints[e].senders
           q == f.endpoints[e].receivers
           l == LineIn(f, e)
<1>1. /\ q.len # 0 => l # <<>> /\ Head(l) = Reception(Front(q))
      /\ p.len # 0 => l # <<>> /\ Head(l) = Request(f, Front(p))
      /\ p.len = 0 /\ q.len = 0 => l = <<>>
  BY LineFront
<1>2. p.len = 0 \/ q.len = 0
  BY DEF Sound, OneSided
<1>3. LineFn(f)[e] = l
  BY DEF LineFn
<1> HIDE DEF p, q, l
<1>4. \A x : Reception(x).kind = "receive" /\ Request(f, x).kind # "receive"
  BY DEF Reception, Request
<1>5. CASE q.len # 0
  <2>1. l # <<>> /\ Head(l).kind = "receive" /\ p.len = 0
    BY <1>1, <1>2, <1>4, <1>5
  <2> QED
    BY <1>3, <1>5, <2>1 DEF MeetsIn, p, q
<1>6. CASE p.len # 0
  <2>1. l # <<>> /\ Head(l).kind # "receive" /\ q.len = 0
    BY <1>1, <1>2, <1>4, <1>6
  <2> QED
    BY <1>3, <1>6, <2>1 DEF MeetsIn, p, q
<1>7. CASE p.len = 0 /\ q.len = 0
  BY <1>1, <1>3, <1>7 DEF MeetsIn, p, q
<1> QED
  BY <1>5, <1>6, <1>7

\* The mapped effect of a request that waits, and the line behind one served.
Joined(f, g, e, r) ==
  /\ LineFn(g) = [LineFn(f) EXCEPT ![e] = Append(@, r)]
  /\ AwaitsFn(g) = AwaitsFn(f) /\ OwesFn(g) = OwesFn(f) /\ InboxFn(g) = InboxFn(f)

Served(f, g, e) == LineFn(g) = [LineFn(f) EXCEPT ![e] = Tail(@)]

\* A sender waits: its request is appended to the line.
LEMMA SendWaits ==
  ASSUME NEW f, Sound(f), NEW g, Sound(g), NEW t \in Threads, NEW e \in Endpoints,
         NEW m, f.threads[t].state = Runnable, Waits(f, g, t, e, m),
         f.endpoints[e].receivers.len = 0
  PROVE  Joined(f, g, e, Request(g, t))
<1>1. LineIn(g, e) = Append(LineIn(f, e), Request(g, t))
  BY SenderJoins
<1>2. ASSUME NEW x \in Endpoints \ {e} PROVE LineIn(g, x) = LineIn(f, x)
  <2>1. /\ g.endpoints[x].senders = f.endpoints[x].senders
        /\ g.endpoints[x].receivers = f.endpoints[x].receivers
    BY DEF Waits, SendersOnly
  <2>2. Carried(f, g, x)
    BY StatesDiffer DEF Carried, Waits, Request
  <2> QED
    BY <2>1, <2>2, LineKept
<1>3. Updates(LineFn(g), LineFn(f), e, Append(LineIn(f, e), Request(g, t)))
  BY <1>1, <1>2, OneLine, Zenon
<1>4. LineFn(f)[e] = LineIn(f, e)
  BY DEF LineFn
<1>5. LineFn(g) = [LineFn(f) EXCEPT ![e] = Append(@, Request(g, t))]
  BY <1>3, <1>4 DEF Updates
<1>6. \A x \in Threads : /\ Await(g.threads[x].state) = Await(f.threads[x].state)
                         /\ g.threads[x].reply_target = f.threads[x].reply_target
                         /\ g.threads[x].inbox = f.threads[x].inbox
  BY AwaitOf DEF Waits
<1> QED
  BY <1>5, <1>6 DEF Joined, AwaitsFn, OwesFn, InboxFn

\* A receiver waits.
LEMMA ReceiveWaits ==
  ASSUME NEW f, Sound(f), NEW g, Sound(g), NEW t \in Threads, NEW e \in Endpoints,
         f.threads[t].state = Runnable, f.endpoints[e].senders.len = 0,
         g.threads[t].state = Receiving(e),
         g.threads[t].inbox = f.threads[t].inbox,
         g.threads[t].reply_target = f.threads[t].reply_target,
         \A x \in Threads \ {t} : g.threads[x] = f.threads[x],
         ReceiversOnly(f, g, e, Push(f.endpoints[e].receivers, t))
  PROVE  Joined(f, g, e, Reception(t))
<1>1. LineIn(g, e) = Append(LineIn(f, e), Reception(t))
  BY ReceiverJoins
<1>2. ASSUME NEW x \in Endpoints \ {e} PROVE LineIn(g, x) = LineIn(f, x)
  <2>1. /\ g.endpoints[x].senders = f.endpoints[x].senders
        /\ g.endpoints[x].receivers = f.endpoints[x].receivers
    BY DEF ReceiversOnly
  <2>2. Carried(f, g, x)
    BY StatesDiffer DEF Carried, Request
  <2> QED
    BY <2>1, <2>2, LineKept
<1>3. Updates(LineFn(g), LineFn(f), e, Append(LineIn(f, e), Reception(t)))
  BY <1>1, <1>2, OneLine, Zenon
<1>4. LineFn(f)[e] = LineIn(f, e)
  BY DEF LineFn
<1>5. LineFn(g) = [LineFn(f) EXCEPT ![e] = Append(@, Reception(t))]
  BY <1>3, <1>4 DEF Updates
<1>6. \A x \in Threads : /\ Await(g.threads[x].state) = Await(f.threads[x].state)
                         /\ g.threads[x].reply_target = f.threads[x].reply_target
                         /\ g.threads[x].inbox = f.threads[x].inbox
  BY AwaitOf
<1> QED
  BY <1>5, <1>6 DEF Joined, AwaitsFn, OwesFn, InboxFn

\* One thread comes to wait for an answer, or waits no longer.
LEMMA OneAwait ==
  ASSUME NEW f, NEW g, NEW t \in Threads, NEW v,
         \A x \in Threads : Await(g.threads[x].state) =
           IF x = t THEN v ELSE Await(f.threads[x].state)
  PROVE  Updates(AwaitsFn(g), AwaitsFn(f), t, v)
<1>1. /\ \A x \in Threads : AwaitsFn(f)[x] = Await(f.threads[x].state)
      /\ \A x \in Threads : AwaitsFn(g)[x] = Await(g.threads[x].state)
      /\ AwaitsFn(f) = [x \in Threads |-> AwaitsFn(f)[x]]
      /\ AwaitsFn(g) = [x \in Threads |-> AwaitsFn(g)[x]]
  BY DEF AwaitsFn
<1>2. \A x \in Threads : AwaitsFn(g)[x] = IF x = t THEN v ELSE AwaitsFn(f)[x]
  BY <1>1, Zenon
<1> QED
  BY <1>1, <1>2, OnePlace, Zenon

\* One thread gets, or loses, the right to reply.
LEMMA OneOwes ==
  ASSUME NEW f, NEW g, NEW t \in Threads, NEW v,
         \A x \in Threads : g.threads[x].reply_target =
           IF x = t THEN v ELSE f.threads[x].reply_target
  PROVE  Updates(OwesFn(g), OwesFn(f), t, v)
<1>1. /\ \A x \in Threads : OwesFn(f)[x] = f.threads[x].reply_target
      /\ \A x \in Threads : OwesFn(g)[x] = g.threads[x].reply_target
      /\ OwesFn(f) = [x \in Threads |-> OwesFn(f)[x]]
      /\ OwesFn(g) = [x \in Threads |-> OwesFn(g)[x]]
  BY DEF OwesFn
<1>2. \A x \in Threads : OwesFn(g)[x] = IF x = t THEN v ELSE OwesFn(f)[x]
  BY <1>1, Zenon
<1> QED
  BY <1>1, <1>2, OnePlace, Zenon

\* One inbox changes.
LEMMA OneInbox ==
  ASSUME NEW f, NEW g, NEW t \in Threads, NEW v,
         \A x \in Threads : g.threads[x].inbox =
           IF x = t THEN v ELSE f.threads[x].inbox
  PROVE  Updates(InboxFn(g), InboxFn(f), t, v)
<1>1. /\ \A x \in Threads : InboxFn(f)[x] = f.threads[x].inbox
      /\ \A x \in Threads : InboxFn(g)[x] = g.threads[x].inbox
      /\ InboxFn(f) = [x \in Threads |-> InboxFn(f)[x]]
      /\ InboxFn(g) = [x \in Threads |-> InboxFn(g)[x]]
  BY DEF InboxFn
<1>2. \A x \in Threads : InboxFn(g)[x] = IF x = t THEN v ELSE InboxFn(f)[x]
  BY <1>1, Zenon
<1> QED
  BY <1>1, <1>2, OnePlace, Zenon

\* The mapped effect of a message that has come from s to r.
Given(f, g, s, r, m, kind) ==
  /\ InboxFn(g) = [InboxFn(f) EXCEPT ![r] = m]
  /\ IF kind = "call"
     THEN /\ AwaitsFn(g) = [AwaitsFn(f) EXCEPT ![s] = r]
          /\ OwesFn(g) = [OwesFn(f) EXCEPT ![r] = s]
     ELSE AwaitsFn(g) = AwaitsFn(f) /\ OwesFn(g) = OwesFn(f)

\* A delivery in terms of the channel; whoever still waits carries its message.
LEMMA HandedGives ==
  ASSUME NEW f, NEW g, NEW s \in Threads, NEW r \in Threads, s # r, NEW m,
         NEW kind \in {"send", "call"},
         Await(f.threads[s].state) = None, Await(f.threads[r].state) = None,
         kind = "call" => Handed(f, g, s, r, m, ReplyBlocked(r), s),
         kind # "call" => Handed(f, g, s, r, m, Runnable, f.threads[r].reply_target)
  PROVE  /\ Given(f, g, s, r, m, kind)
         /\ \A e \in Endpoints : Carried(f, g, e)
<1>1. \A x \in Threads : g.threads[x].inbox = IF x = r THEN m ELSE f.threads[x].inbox
  BY DEF Handed
<1>2. Updates(InboxFn(g), InboxFn(f), r, m)
  BY <1>1, OneInbox, Zenon
<1>3. CASE kind = "call"
  <2>1. \A x \in Threads : Await(g.threads[x].state) =
          IF x = s THEN r ELSE Await(f.threads[x].state)
    BY <1>3, AwaitOf DEF Handed
  <2>2. \A x \in Threads : g.threads[x].reply_target =
          IF x = r THEN s ELSE f.threads[x].reply_target
    BY <1>3 DEF Handed
  <2>3. Updates(AwaitsFn(g), AwaitsFn(f), s, r)
    BY <2>1, OneAwait, Zenon
  <2>4. Updates(OwesFn(g), OwesFn(f), r, s)
    BY <2>2, OneOwes, Zenon
  <2>5. \A e \in Endpoints : Carried(f, g, e)
    BY <1>3, StatesDiffer, SMTT(60) DEF Handed, Carried, Request
  <2> QED
    BY <1>2, <1>3, <2>3, <2>4, <2>5 DEF Given, Updates
<1>4. CASE kind # "call"
  <2>1. \A x \in Threads : /\ Await(g.threads[x].state) = Await(f.threads[x].state)
                           /\ g.threads[x].reply_target = f.threads[x].reply_target
    BY <1>4, AwaitOf DEF Handed
  <2>2. AwaitsFn(g) = AwaitsFn(f) /\ OwesFn(g) = OwesFn(f)
    BY <2>1 DEF AwaitsFn, OwesFn
  <2>3. \A e \in Endpoints : Carried(f, g, e)
    BY <1>4, StatesDiffer DEF Handed, Carried, Request
  <2> QED
    BY <1>2, <1>4, <2>2, <2>3 DEF Given, Updates
<1> QED
  BY <1>3, <1>4

\* A sender, or a receiver, hands over to the front of the line.
LEMMA LineServed ==
  ASSUME NEW f, Sound(f), NEW g, Sound(g), NEW e \in Endpoints,
         \A x \in Endpoints : Carried(f, g, x),
         \/ /\ f.endpoints[e].senders.len # 0
            /\ SendersOnly(f, g, e, Pop(f.endpoints[e].senders))
         \/ /\ f.endpoints[e].receivers.len # 0
            /\ ReceiversOnly(f, g, e, Pop(f.endpoints[e].receivers))
  PROVE  Served(f, g, e)
<1>1. LineIn(g, e) = Tail(LineIn(f, e))
  BY SenderLeaves, ReceiverLeaves
<1>2. ASSUME NEW x \in Endpoints \ {e} PROVE LineIn(g, x) = LineIn(f, x)
  <2>1. /\ g.endpoints[x].senders = f.endpoints[x].senders
        /\ g.endpoints[x].receivers = f.endpoints[x].receivers
    BY DEF SendersOnly, ReceiversOnly
  <2> QED
    BY <2>1, LineKept
<1>3. Updates(LineFn(g), LineFn(f), e, Tail(LineIn(f, e)))
  BY <1>1, <1>2, OneLine, Zenon
<1>4. LineFn(f)[e] = LineIn(f, e)
  BY DEF LineFn
<1> QED
  BY <1>3, <1>4 DEF Served, Updates

\* A call that changes no queue and no waiting thread's message keeps the lines.
LEMMA LinesKept ==
  ASSUME NEW f, Sound(f), NEW g, Sound(g), g.endpoints = f.endpoints,
         \A e \in Endpoints : Carried(f, g, e)
  PROVE  LineFn(g) = LineFn(f)
<1>1. \A e \in Endpoints : LineIn(g, e) = LineIn(f, e)
  BY LineKept
<1> QED
  BY <1>1 DEF LineFn

\* send and call, with any arguments: the request waits, is delivered, or
\* nothing changes.
LEMMA SendOrCallMaps ==
  ASSUME NEW f, Sound(f), NEW t, NEW e, NEW m \in Messages,
         NEW kind \in {"send", "call"},
         NEW g, g = SendOrCall(f, t, e, m, kind).ipc, Sound(g)
  PROVE  \/ Same(f, g)
         \/ /\ t \in Threads /\ e \in Endpoints /\ IdleIn(f, t)
            /\ \/ /\ ~MeetsIn(f, e, kind)
                  /\ Joined(f, g, e, [who |-> t, kind |-> kind, msg |-> m])
               \/ /\ MeetsIn(f, e, kind) /\ Served(f, g, e)
                  /\ Given(f, g, t, Head(LineFn(f)[e]).who, m, kind)
<1>1. CASE RunnableError(f, t) # "Ok"
  <2>1. g = f
    BY <1>1 DEF SendOrCall, Result
  <2> QED
    BY <2>1 DEF Same
<1>2. CASE RunnableError(f, t) = "Ok" /\ e \notin Endpoints
  <2>1. t \in Threads /\ f.threads[t].state = Runnable
    BY <1>2 DEF RunnableError
  <2>2. g = [f EXCEPT !.threads[t].is_call = (kind = "call")]
    BY <1>2 DEF SendOrCall, Result
  <2>3. f \in IpcState /\ f.threads[t] \in Thread
    BY <2>1 DEF Sound, IpcState
  <2> DEFINE call == kind = "call"
             T == [f.threads[t] EXCEPT !.is_call = call]
  <2>0. call \in BOOLEAN /\ g = [f EXCEPT !.threads[t].is_call = call]
    BY <2>2
  <2> HIDE DEF call
  <2>4. /\ T \in Thread /\ T.state = f.threads[t].state
        /\ T.inbox = f.threads[t].inbox /\ T.reply_target = f.threads[t].reply_target
    BY <2>0, <2>3 DEF Thread
  <2>5. g = [f EXCEPT !.threads[t] = T]
    BY <2>0
  <2> HIDE DEF T
  <2>6. /\ g.endpoints = f.endpoints /\ g.threads[t] = T
        /\ \A x \in Threads \ {t} : g.threads[x] = f.threads[x]
    BY <2>1, <2>3, <2>4, <2>5, Updated
  <2>7. \A x \in Endpoints : Carried(f, g, x)
    BY <2>1, <2>4, <2>6, StatesDiffer, SMTT(60) DEF Carried, Request
  <2>8. LineFn(g) = LineFn(f)
    BY <2>6, <2>7, LinesKept
  <2>9. \A x \in Threads : /\ g.threads[x].state = f.threads[x].state
                           /\ g.threads[x].inbox = f.threads[x].inbox
                           /\ g.threads[x].reply_target = f.threads[x].reply_target
    BY <2>4, <2>6
  <2> QED
    BY <2>8, <2>9 DEF Same, AwaitsFn, OwesFn, InboxFn
<1>3. CASE RunnableError(f, t) = "Ok" /\ e \in Endpoints
  <2>1. t \in Threads /\ e \in Endpoints /\ f.threads[t].state = Runnable
    BY <1>3 DEF RunnableError
  <2>2. IdleIn(f, t)
    BY <2>1, RunnableIdle
  <2> DEFINE q == f.endpoints[e].receivers
             r == Front(q)
  <2>3. MeetsIn(f, e, kind) <=> q.len # 0
    BY <2>1, MeetsPartner
  <2>4. \/ /\ q.len = 0 /\ Waits(f, g, t, e, m)
           /\ kind = "call" => g.threads[t].is_call
           /\ kind # "call" => ~g.threads[t].is_call
        \/ /\ q.len # 0 /\ r \in Threads \ {t} /\ f.threads[r].state = Receiving(e)
           /\ kind = "call" => Handed(f, g, t, r, m, ReplyBlocked(r), t)
           /\ kind # "call" => Handed(f, g, t, r, m, Runnable, f.threads[r].reply_target)
           /\ ReceiversOnly(f, g, e, Pop(q))
    <3>1. q = f.endpoints[e].receivers /\ r = Front(q)
      OBVIOUS
    <3> HIDE DEF q, r
    <3> QED
      <4>1. SendOrCallDoes(f, g, t, e, m, kind, q, r)
        BY <2>1, <3>1, SendOrCallEffect, Zenon
      <4> QED
        BY <4>1, Zenon DEF SendOrCallDoes
  <2>5. CASE q.len = 0
    <3>1. /\ Waits(f, g, t, e, m)
          /\ kind = "call" => g.threads[t].is_call
          /\ kind # "call" => ~g.threads[t].is_call
      BY <2>4, <2>5
    <3>2. Request(g, t) = [who |-> t, kind |-> kind, msg |-> m]
      BY <3>1 DEF Request, Waits
    <3>3. Joined(f, g, e, Request(g, t))
      BY <2>1, <2>5, <3>1, SendWaits, ZenonT(30)
    <3> QED
      BY <2>1, <2>2, <2>3, <2>5, <3>2, <3>3, Zenon
  <2>6. CASE q.len # 0
    <3>1. /\ r \in Threads \ {t} /\ f.threads[r].state = Receiving(e)
          /\ kind = "call" => Handed(f, g, t, r, m, ReplyBlocked(r), t)
          /\ kind # "call" => Handed(f, g, t, r, m, Runnable, f.threads[r].reply_target)
          /\ ReceiversOnly(f, g, e, Pop(q))
      BY <2>4, <2>6, ZenonT(60)
    <3>2. Await(f.threads[t].state) = None /\ Await(f.threads[r].state) = None
      BY <2>1, <3>1, AwaitOf
    <3>3. Given(f, g, t, r, m, kind) /\ \A x \in Endpoints : Carried(f, g, x)
      BY <2>1, <3>1, <3>2, HandedGives, ZenonT(30)
    <3>4. Served(f, g, e)
      BY <2>1, <2>6, <3>1, <3>3, LineServed, ZenonT(30)
    <3>5. Head(LineFn(f)[e]).who = r
      BY <2>1, <2>6, LineFront DEF LineFn, Reception
    <3> QED
      BY <2>1, <2>2, <2>3, <2>6, <3>3, <3>4, <3>5, Zenon
  <2> QED
    BY <2>5, <2>6, Zenon
<1> QED
  BY <1>1, <1>2, <1>3, Zenon

\* receive, with any arguments.
LEMMA ReceiveMaps ==
  ASSUME NEW f, Sound(f), NEW t, NEW e, NEW g, g = Receive(f, t, e).ipc, Sound(g)
  PROVE  \/ Same(f, g)
         \/ /\ t \in Threads /\ e \in Endpoints /\ IdleIn(f, t)
            /\ \/ /\ ~MeetsIn(f, e, "receive")
                  /\ Joined(f, g, e, [who |-> t, kind |-> "receive", msg |-> None])
               \/ /\ MeetsIn(f, e, "receive") /\ Served(f, g, e)
                  /\ Given(f, g, Head(LineFn(f)[e]).who, t,
                           Head(LineFn(f)[e]).msg, Head(LineFn(f)[e]).kind)
<1>1. CASE RunnableError(f, t) # "Ok" \/ e \notin Endpoints
  <2>1. RunnableError(f, t) # "Ok" => g = f
    BY DEF Receive, Result
  <2>2. RunnableError(f, t) = "Ok" /\ e \notin Endpoints => g = f
    BY DEF Receive, Result
  <2>3. g = f
    BY <1>1, <2>1, <2>2
  <2> QED
    BY <2>3 DEF Same
<1>2. CASE RunnableError(f, t) = "Ok" /\ e \in Endpoints
  <2>1. t \in Threads /\ e \in Endpoints /\ f.threads[t].state = Runnable
    BY <1>2 DEF RunnableError
  <2>2. IdleIn(f, t)
    BY <2>1, RunnableIdle
  <2> DEFINE q == f.endpoints[e].senders
             s == Front(q)
  <2>3. MeetsIn(f, e, "receive") <=> q.len # 0
    BY <2>1, MeetsPartner
  <2>4. \/ /\ q.len = 0 /\ g.threads[t].state = Receiving(e)
           /\ g.threads[t].inbox = f.threads[t].inbox
           /\ g.threads[t].reply_target = f.threads[t].reply_target
           /\ \A x \in Threads \ {t} : g.threads[x] = f.threads[x]
           /\ ReceiversOnly(f, g, e, Push(f.endpoints[e].receivers, t))
        \/ /\ q.len # 0 /\ s \in Threads \ {t} /\ f.threads[s].state = Sending(e)
           /\ f.threads[s].is_call =>
                Handed(f, g, s, t, f.threads[s].outgoing, ReplyBlocked(t), s)
           /\ ~f.threads[s].is_call =>
                Handed(f, g, s, t, f.threads[s].outgoing, Runnable,
                       f.threads[t].reply_target)
           /\ SendersOnly(f, g, e, Pop(q))
    <3>1. q = f.endpoints[e].senders /\ s = Front(q)
      OBVIOUS
    <3> HIDE DEF q, s
    <3> QED
      <4>1. ReceiveDoes(f, g, t, e, q, s)
        BY <2>1, <3>1, ReceiveEffect, Zenon
      <4> QED
        BY <4>1, Zenon DEF ReceiveDoes
  <2>5. CASE q.len = 0
    <3>1. /\ g.threads[t].state = Receiving(e)
          /\ g.threads[t].inbox = f.threads[t].inbox
          /\ g.threads[t].reply_target = f.threads[t].reply_target
          /\ \A x \in Threads \ {t} : g.threads[x] = f.threads[x]
          /\ ReceiversOnly(f, g, e, Push(f.endpoints[e].receivers, t))
      BY <2>4, <2>5, ZenonT(60)
    <3>2. Joined(f, g, e, Reception(t))
      BY <2>1, <2>5, <3>1, ReceiveWaits, ZenonT(30)
    <3> QED
      BY <2>1, <2>2, <2>3, <2>5, <3>2, Zenon DEF Reception
  <2>6. CASE q.len # 0
    <3> DEFINE kind == IF f.threads[s].is_call THEN "call" ELSE "send"
               m == f.threads[s].outgoing
    <3>1. /\ s \in Threads \ {t} /\ f.threads[s].state = Sending(e)
          /\ f.threads[s].is_call => Handed(f, g, s, t, m, ReplyBlocked(t), s)
          /\ ~f.threads[s].is_call =>
               Handed(f, g, s, t, m, Runnable, f.threads[t].reply_target)
          /\ SendersOnly(f, g, e, Pop(q))
      BY <2>4, <2>6, ZenonT(60)
    <3>2. Await(f.threads[t].state) = None /\ Await(f.threads[s].state) = None
      BY <2>1, <3>1, AwaitOf, ZenonT(60)
    <3>3. /\ kind \in {"send", "call"}
          /\ kind = "call" => f.threads[s].is_call
          /\ kind # "call" => ~f.threads[s].is_call
      OBVIOUS
    <3>4. Head(LineFn(f)[e]) = Request(f, s)
      BY <2>1, <2>6, LineFront DEF LineFn
    <3>5. /\ Head(LineFn(f)[e]).who = s /\ Head(LineFn(f)[e]).kind = kind
          /\ Head(LineFn(f)[e]).msg = m
      BY <3>4, SMTT(60) DEF Request
    <3> HIDE DEF s, kind, m
    <3>6. /\ kind = "call" => Handed(f, g, s, t, m, ReplyBlocked(t), s)
          /\ kind # "call" => Handed(f, g, s, t, m, Runnable, f.threads[t].reply_target)
      BY <3>1, <3>3, Zenon
    <3>7. Given(f, g, s, t, m, kind) /\ \A x \in Endpoints : Carried(f, g, x)
      BY <2>1, <3>1, <3>2, <3>3, <3>6, HandedGives, ZenonT(30)
    <3>8. Served(f, g, e)
      BY <2>1, <2>6, <3>1, <3>7, LineServed, ZenonT(30)
    <3> QED
      BY <2>1, <2>2, <2>3, <2>6, <3>5, <3>7, <3>8, Zenon
  <2> QED
    BY <2>5, <2>6, Zenon
<1> QED
  BY <1>1, <1>2, Zenon

\* reply, with any arguments.
LEMMA ReplyMaps ==
  ASSUME NEW f, Sound(f), NEW s, NEW m \in Messages,
         NEW g, g = Reply(f, s, m).ipc, Sound(g)
  PROVE  \/ Same(f, g)
         \/ /\ s \in Threads /\ IdleIn(f, s) /\ OwesFn(f)[s] # None
            /\ Updates(OwesFn(g), OwesFn(f), s, None)
            /\ Updates(AwaitsFn(g), AwaitsFn(f), OwesFn(f)[s], None)
            /\ Updates(InboxFn(g), InboxFn(f), OwesFn(f)[s], m)
            /\ LineFn(g) = LineFn(f)
<1>1. CASE RunnableError(f, s) # "Ok"
  <2>1. g = f
    BY <1>1 DEF Reply, Result
  <2> QED
    BY <2>1 DEF Same
<1>2. CASE RunnableError(f, s) = "Ok"
  <2>1. s \in Threads /\ f.threads[s].state = Runnable
    BY <1>2 DEF RunnableError
  <2>2. IdleIn(f, s)
    BY <2>1, RunnableIdle
  <2> DEFINE c == f.threads[s].reply_target
  <2>3. /\ g.endpoints = f.endpoints
        /\ g.threads[s].reply_target = None
        /\ g.threads[s].state = Runnable
        /\ g.threads[s].inbox = f.threads[s].inbox
        /\ \/ c = None /\ \A x \in Threads \ {s} : g.threads[x] = f.threads[x]
           \/ /\ c \in Threads \ {s} /\ f.threads[c].state = ReplyBlocked(s)
              /\ g.threads[c].state = Runnable /\ g.threads[c].inbox = m
              /\ g.threads[c].reply_target = f.threads[c].reply_target
              /\ \A x \in Threads \ {s, c} : g.threads[x] = f.threads[x]
    <3>1. c = f.threads[s].reply_target
      OBVIOUS
    <3> HIDE DEF c
    <3> QED
      <4>1. ReplyDoes(f, g, s, m, c)
        BY <2>1, <3>1, ReplyEffect, Zenon
      <4> QED
        BY <4>1, Zenon DEF ReplyDoes
  <2>4. ASSUME NEW x \in Endpoints PROVE Carried(f, g, x)
    <3>1. ASSUME NEW y \in Threads, g.threads[y].state = Sending(x)
          PROVE  g.threads[y] = f.threads[y]
      <4>1. g.threads[y].state # Runnable
        BY <3>1, StatesDiffer, Zenon
      <4> HIDE DEF c
      <4> QED
        BY <2>3, <4>1, Zenon
    <3> QED
      BY <3>1 DEF Carried, Request
  <2>5. LineFn(g) = LineFn(f)
    BY <2>3, <2>4, LinesKept, ZenonT(60)
  <2>6. CASE c = None
    <3>1. \A x \in Threads : /\ g.threads[x].state = f.threads[x].state
                             /\ g.threads[x].inbox = f.threads[x].inbox
                             /\ g.threads[x].reply_target = f.threads[x].reply_target
      BY <2>1, <2>3, <2>6, IpcNoneAssumption, ZenonT(60)
    <3> QED
      BY <2>5, <3>1 DEF Same, AwaitsFn, OwesFn, InboxFn
  <2>7. CASE c # None
    <3>1. OwesFn(f)[s] = c
      BY <2>1 DEF OwesFn
    <3> HIDE DEF c
    <3>2. /\ c \in Threads \ {s}
          /\ g.threads[c].state = Runnable /\ g.threads[c].inbox = m
          /\ g.threads[c].reply_target = f.threads[c].reply_target
          /\ \A x \in Threads \ {s, c} : g.threads[x] = f.threads[x]
      BY <2>3, <2>7
    <3>3. \A x \in Threads : g.threads[x].reply_target =
            IF x = s THEN None ELSE f.threads[x].reply_target
      BY <2>3, <3>2, ZenonT(60)
    <3>4. \A x \in Threads : Await(g.threads[x].state) =
            IF x = c THEN None ELSE Await(f.threads[x].state)
      BY <2>1, <2>3, <3>2, AwaitOf, ZenonT(60)
    <3>5. \A x \in Threads : g.threads[x].inbox = IF x = c THEN m ELSE f.threads[x].inbox
      BY <2>3, <3>2, ZenonT(60)
    <3>6. Updates(OwesFn(g), OwesFn(f), s, None)
      BY <2>1, <3>3, OneOwes, Zenon
    <3>7. Updates(AwaitsFn(g), AwaitsFn(f), c, None)
      BY <3>2, <3>4, OneAwait, Zenon
    <3>8. Updates(InboxFn(g), InboxFn(f), c, m)
      BY <3>2, <3>5, OneInbox, Zenon
    <3> QED
      BY <2>1, <2>2, <2>5, <2>7, <3>1, <3>6, <3>7, <3>8, Zenon
  <2> QED
    BY <2>6, <2>7, Zenon
<1> QED
  BY <1>1, <1>2, Zenon

\* take_message, with any argument.
LEMMA TakeMessageMaps ==
  ASSUME NEW f, Sound(f), NEW t, NEW g, g = TakeMessage(f, t), Sound(g)
  PROVE  \/ Same(f, g)
         \/ /\ t \in Threads /\ Updates(InboxFn(g), InboxFn(f), t, None)
            /\ LineFn(g) = LineFn(f) /\ AwaitsFn(g) = AwaitsFn(f)
            /\ OwesFn(g) = OwesFn(f)
<1>1. CASE t \notin Threads
  BY <1>1 DEF TakeMessage, Same
<1>2. CASE t \in Threads
  <2>1. /\ g.endpoints = f.endpoints
        /\ g.threads[t].inbox = None
        /\ g.threads[t].state = f.threads[t].state
        /\ g.threads[t].outgoing = f.threads[t].outgoing
        /\ g.threads[t].is_call = f.threads[t].is_call
        /\ g.threads[t].reply_target = f.threads[t].reply_target
        /\ \A x \in Threads \ {t} : g.threads[x] = f.threads[x]
    BY <1>2, TakeMessageEffect DEF Sound
  <2>2. \A x \in Endpoints : Carried(f, g, x)
    <3>1. \A x \in Threads : /\ g.threads[x].outgoing = f.threads[x].outgoing
                             /\ g.threads[x].is_call = f.threads[x].is_call
      BY <2>1, Zenon
    <3> QED
      BY <3>1, Zenon DEF Carried, Request
  <2>3. LineFn(g) = LineFn(f)
    BY <2>1, <2>2, LinesKept, ZenonT(60)
  <2>4. \A x \in Threads : g.threads[x].inbox = IF x = t THEN None ELSE f.threads[x].inbox
    BY <2>1
  <2>5. Updates(InboxFn(g), InboxFn(f), t, None)
    BY <1>2, <2>4, OneInbox, Zenon
  <2>6. \A x \in Threads : /\ g.threads[x].state = f.threads[x].state
                           /\ g.threads[x].reply_target = f.threads[x].reply_target
    BY <2>1
  <2>7. AwaitsFn(g) = AwaitsFn(f) /\ OwesFn(g) = OwesFn(f)
    BY <2>6 DEF AwaitsFn, OwesFn
  <2> QED
    BY <1>2, <2>3, <2>5, <2>7, Zenon
<1> QED
  BY <1>1, <1>2, Zenon

-----------------------------------------------------------------------------
(* The theorem. *)

\* The initial states.
LEMMA InitMaps == Init => C!Init
<1> SUFFICES ASSUME Init PROVE C!Init
  OBVIOUS
<1>1. Sound(EmptyIpc) /\ ipc = EmptyIpc
  BY EmptySound DEF Init
<1>2. \A e \in Endpoints : /\ ipc.endpoints[e].senders.len = 0
                           /\ ipc.endpoints[e].receivers.len = 0
  BY <1>1 DEF EmptyIpc, EmptyQueue
<1>3. \A e \in Endpoints : LineIn(ipc, e) = <<>>
  BY <1>1, <1>2, LineFront
<1>4. \A t \in Threads : /\ ipc.threads[t].state = Runnable
                         /\ ipc.threads[t].reply_target = None
                         /\ ipc.threads[t].inbox = None
  BY <1>1 DEF EmptyIpc, EmptyThread
<1> QED
  BY <1>3, <1>4, AwaitOf DEF C!Init, LineFn, AwaitsFn, OwesFn, InboxFn

\* Every call is a step of the channel or leaves it as it is.
LEMMA StepMaps ==
  ASSUME IpcInv, IpcInv', Next
  PROVE  [C!Next]_(C!channel)
<1>1. Sound(ipc) /\ Sound(ipc')
  BY DEF IpcInv
<1>2. Same(ipc, ipc') => UNCHANGED C!channel
  BY DEF Same, C!channel
<1>3. ASSUME NEW t, NEW e, NEW m \in Messages, NEW kind \in {"send", "call"},
             ipc' = SendOrCall(ipc, t, e, m, kind).ipc
      PROVE  [C!Next]_(C!channel)
  <2>1. \/ Same(ipc, ipc')
        \/ /\ t \in Threads /\ e \in Endpoints /\ IdleIn(ipc, t)
           /\ \/ /\ ~MeetsIn(ipc, e, kind)
                 /\ Joined(ipc, ipc', e, [who |-> t, kind |-> kind, msg |-> m])
              \/ /\ MeetsIn(ipc, e, kind) /\ Served(ipc, ipc', e)
                 /\ Given(ipc, ipc', t, Head(LineFn(ipc)[e]).who, m, kind)
    BY <1>1, <1>3, SendOrCallMaps, ZenonT(60)
  <2>2. t \in Threads /\ e \in Endpoints /\ ~Same(ipc, ipc') =>
          C!Wait(t, e, kind, m) \/ C!Deliver(t, e, kind, m)
    BY <2>1, ZenonT(60) DEF C!Wait, C!Deliver, C!Transfer, C!Idle, C!InLine, C!Meets,
      IdleIn, MeetsIn, Joined, Served, Given
  <2> QED
    BY <1>2, <2>1, <2>2 DEF C!Next
<1>4. ASSUME NEW t, NEW e, ipc' = Receive(ipc, t, e).ipc
      PROVE  [C!Next]_(C!channel)
  <2>1. \/ Same(ipc, ipc')
        \/ /\ t \in Threads /\ e \in Endpoints /\ IdleIn(ipc, t)
           /\ \/ /\ ~MeetsIn(ipc, e, "receive")
                 /\ Joined(ipc, ipc', e, [who |-> t, kind |-> "receive", msg |-> None])
              \/ /\ MeetsIn(ipc, e, "receive") /\ Served(ipc, ipc', e)
                 /\ Given(ipc, ipc', Head(LineFn(ipc)[e]).who, t,
                          Head(LineFn(ipc)[e]).msg, Head(LineFn(ipc)[e]).kind)
    BY <1>1, <1>4, ReceiveMaps
  <2>2. ~Same(ipc, ipc') => C!Wait(t, e, "receive", None) \/ C!Accept(t, e)
    BY <2>1, ZenonT(60) DEF C!Wait, C!Accept, C!Transfer, C!Idle, C!InLine, C!Meets,
      IdleIn, MeetsIn, Joined, Served, Given
  <2> QED
    BY <1>2, <2>1, <2>2 DEF C!Next
<1>5. ASSUME NEW s, NEW m \in Messages, ipc' = Reply(ipc, s, m).ipc
      PROVE  [C!Next]_(C!channel)
  <2>1. \/ Same(ipc, ipc')
        \/ /\ s \in Threads /\ IdleIn(ipc, s) /\ OwesFn(ipc)[s] # None
           /\ Updates(OwesFn(ipc'), OwesFn(ipc), s, None)
           /\ Updates(AwaitsFn(ipc'), AwaitsFn(ipc), OwesFn(ipc)[s], None)
           /\ Updates(InboxFn(ipc'), InboxFn(ipc), OwesFn(ipc)[s], m)
           /\ LineFn(ipc') = LineFn(ipc)
    BY <1>1, <1>5, ReplyMaps
  <2>2. ~Same(ipc, ipc') => C!Answer(s, m)
    BY <2>1 DEF C!Answer, C!Idle, C!InLine, IdleIn, Updates
  <2> QED
    BY <1>2, <2>1, <2>2 DEF C!Next
<1>6. ASSUME NEW t, ipc' = TakeMessage(ipc, t)
      PROVE  [C!Next]_(C!channel)
  <2>1. \/ Same(ipc, ipc')
        \/ /\ t \in Threads /\ Updates(InboxFn(ipc'), InboxFn(ipc), t, None)
           /\ LineFn(ipc') = LineFn(ipc) /\ AwaitsFn(ipc') = AwaitsFn(ipc)
           /\ OwesFn(ipc') = OwesFn(ipc)
    BY <1>1, <1>6, TakeMessageMaps
  <2>2. ~Same(ipc, ipc') => C!Collect(t)
    BY <2>1 DEF C!Collect, Updates
  <2> QED
    BY <1>2, <2>1, <2>2, ZenonT(60) DEF C!Next
<1> QED
  BY <1>3, <1>4, <1>5, <1>6, ZenonT(60) DEF Next, DoSend, DoCall, DoReceive, DoReply,
    DoTakeMessage, Send, Call

\* Every behaviour of RendezvousIpc is a behaviour of Channel, for any number
\* of threads, endpoints and messages: first come first served, the partner's
\* own message and nobody else's, calls and sends never confused, and a failed
\* call moves nothing.
THEOREM IpcImplementsChannel == Spec => ImplementsChannel
<1>1. Init => C!Init
  BY InitMaps
<1>2. IpcInv /\ IpcInv' /\ [Next]_ipc => [C!Next]_(C!channel)
  <2>1. CASE Next
    BY <2>1, StepMaps
  <2>2. CASE UNCHANGED ipc
    BY <2>2 DEF C!channel
  <2> QED
    BY <2>1, <2>2
<1> QED
  BY <1>1, <1>2, IpcSound, PTL DEF Spec, ImplementsChannel, C!Spec

-----------------------------------------------------------------------------
(* One server and any number of clients. *)

\* Where a client is: it is about to call, or it waits in the queue with its
\* request, or it waits for the server, which owes it the answer, or it has got
\* the answer.
ClientFacts(f, at, c) ==
  \/ at[c] = "call" /\ f.threads[c].state = Runnable /\ f.threads[c].inbox = None
  \/ /\ at[c] = "take" /\ f.threads[c].state = Sending(0)
     /\ f.threads[c].inbox = None /\ f.threads[c].outgoing = c /\ f.threads[c].is_call
  \/ /\ at[c] = "take" /\ f.threads[c].state = ReplyBlocked(Server)
     /\ f.threads[c].inbox = None /\ f.threads[Server].reply_target = c
  \/ at[c] = "take" /\ f.threads[c].state = Runnable /\ f.threads[c].inbox = c

\* Where the server is: it owes nobody an answer, or it owes one to the client
\* whose request is in its inbox, or in its hands.
Free(f, at, req) ==
  /\ f.threads[Server].reply_target = None /\ f.threads[Server].inbox = None
  /\ req = None
  /\ \/ at[Server] = "receive" /\ f.threads[Server].state = Runnable
     \/ at[Server] = "take" /\ f.threads[Server].state = Receiving(0)

Owing(f, at, req) ==
  /\ f.threads[Server].reply_target \in Clients /\ f.threads[Server].state = Runnable
  /\ \/ /\ at[Server] = "take" /\ req = None
        /\ f.threads[Server].inbox = f.threads[Server].reply_target
     \/ /\ at[Server] = "reply" /\ f.threads[Server].inbox = None
        /\ req = f.threads[Server].reply_target

Facts(f, at, req) ==
  /\ Sound(f)
  /\ at \in [Threads -> {"call", "receive", "take", "reply"}]
  /\ Free(f, at, req) \/ Owing(f, at, req)
  /\ \A c \in Clients : ClientFacts(f, at, c)

ClientServerInv == Facts(ipc, step, request)

\* The server, the endpoint and the requests exist.
LEMMA Parties ==
  /\ Server \in Threads /\ 0 \in Endpoints
  /\ Server \in ThreadArgs /\ 0 \in EndpointArgs
  /\ Clients \subseteq Threads /\ Clients \subseteq Messages /\ Server \notin Clients
  /\ None \notin Threads
  /\ \A t \in Threads : t \in ThreadArgs
  BY IpcSizesAssumption, IpcNoneAssumption, RequestsAreThreads
  DEF Threads, Endpoints, ThreadArgs, EndpointArgs, Server, Clients

\* Nobody but the server receives and nobody but a client sends.
LEMMA Roles ==
  ASSUME NEW f, NEW at, NEW req, Facts(f, at, req), NEW t \in Threads
  PROVE  /\ f.threads[t].state = Receiving(0) => t = Server
         /\ f.threads[t].state = Sending(0) =>
              /\ t \in Clients /\ at[t] = "take" /\ f.threads[t].inbox = None
              /\ f.threads[t].outgoing = t /\ f.threads[t].is_call
         /\ t \in Clients /\ f.threads[t].state = ReplyBlocked(Server) =>
              /\ at[t] = "take" /\ f.threads[t].inbox = None
              /\ f.threads[Server].reply_target = t
<1>1. CASE t \in Clients
  <2>1. ClientFacts(f, at, t) /\ t # Server
    BY <1>1, Parties DEF Facts
  <2> QED
    BY <1>1, <2>1, StatesDiffer DEF ClientFacts
<1>2. CASE t = Server
  <2>1. (Free(f, at, req) \/ Owing(f, at, req)) /\ t \notin Clients
    BY <1>2, Parties DEF Facts
  <2> QED
    BY <1>2, <2>1, StatesDiffer DEF Free, Owing
<1> QED
  BY <1>1, <1>2 DEF Clients

\* A client none of whose fields changes stays where it is, unless it waits for
\* an answer that is no longer owed to it.
LEMMA Bystander ==
  ASSUME NEW f, NEW g, NEW at, NEW then, NEW c, ClientFacts(f, at, c),
         g.threads[c] = f.threads[c], then[c] = at[c],
         f.threads[c].state = ReplyBlocked(Server) => g.threads[Server].reply_target = c
  PROVE  ClientFacts(g, then, c)
  BY DEF ClientFacts

\* One thread goes on to its next step.
Moves(at, then, t, to) ==
  /\ then \in [Threads -> {"call", "receive", "take", "reply"}]
  /\ then[t] = to /\ \A x \in Threads \ {t} : then[x] = at[x]

\* A thread that runs goes on to the step it is meant to, and nobody else does.
LEMMA Moved ==
  ASSUME ClientServerInv, NEW t \in Threads, NEW now,
         NEW to \in {"call", "receive", "take", "reply"}, Runs(t, now, to)
  PROVE  Moves(step, step', t, to)
  BY DEF ClientServerInv, Facts, Runs, Moves

\* A client calls: it queues, or the waiting server gets the request.
LEMMA CallKeeps ==
  ASSUME NEW f, NEW at, NEW req, Facts(f, at, req), NEW c \in Clients,
         at[c] = "call", f.threads[c].state = Runnable,
         NEW g, g = Call(f, c, 0, c).ipc, Sound(g),
         NEW then, Moves(at, then, c, "take")
  PROVE  Facts(g, then, req)
<1> DEFINE q == f.endpoints[0].receivers
           r == Front(q)
<1>1. /\ c \in Threads /\ c \in Messages /\ c # Server /\ 0 \in Endpoints
      /\ Sound(f) /\ Server \in Threads
  BY Parties DEF Facts
<1>2. /\ then[c] = "take" /\ \A t \in Threads \ {c} : then[t] = at[t]
      /\ then \in [Threads -> {"call", "receive", "take", "reply"}]
  BY DEF Moves
<1>3. f.threads[c].inbox = None
  BY DEF Facts, ClientFacts
<1>4. \/ Waits(f, g, c, 0, c) /\ g.threads[c].is_call
      \/ /\ r \in Threads \ {c} /\ f.threads[r].state = Receiving(0)
         /\ Handed(f, g, c, r, c, ReplyBlocked(r), c)
  <2>1. g = SendOrCall(f, c, 0, c, "call").ipc
    BY DEF Call
  <2>2. q = f.endpoints[0].receivers /\ r = Front(q)
    OBVIOUS
  <2> HIDE DEF q, r
  <2> QED
    <3>1. SendOrCallDoes(f, g, c, 0, c, "call", q, r)
      BY <1>1, <2>1, <2>2, SendOrCallEffect, Zenon
    <3> QED
      BY <3>1, Zenon DEF SendOrCallDoes
<1> HIDE DEF q, r
<1>5. CASE Waits(f, g, c, 0, c) /\ g.threads[c].is_call
  <2>1. g.threads[Server] = f.threads[Server] /\ then[Server] = at[Server]
    BY <1>1, <1>2, <1>5 DEF Waits
  <2>2. Free(g, then, req) \/ Owing(g, then, req)
    BY <2>1 DEF Facts, Free, Owing
  <2>3. ClientFacts(g, then, c)
    BY <1>2, <1>3, <1>5 DEF Waits, ClientFacts
  <2>4. ASSUME NEW d \in Clients, d # c PROVE ClientFacts(g, then, d)
    <3>1. d \in Threads /\ ClientFacts(f, at, d)
      BY Parties DEF Facts
    <3>2. g.threads[d] = f.threads[d] /\ then[d] = at[d]
      BY <1>2, <1>5, <2>4, <3>1 DEF Waits
    <3>3. f.threads[d].state = ReplyBlocked(Server) => g.threads[Server].reply_target = d
      BY <2>1, <3>1, Roles
    <3> QED
      BY <3>1, <3>2, <3>3, Bystander
  <2> QED
    BY <1>2, <2>2, <2>3, <2>4 DEF Facts
<1>6. CASE /\ r \in Threads \ {c} /\ f.threads[r].state = Receiving(0)
           /\ Handed(f, g, c, r, c, ReplyBlocked(r), c)
  <2>1. r = Server
    BY <1>6, Roles
  <2>2. Handed(f, g, c, Server, c, ReplyBlocked(Server), c)
    BY <1>6, <2>1
  <2>3. at[Server] = "take" /\ f.threads[Server].reply_target = None /\ req = None
    BY <1>6, <2>1, StatesDiffer DEF Facts, Free, Owing
  <2>4. Owing(g, then, req)
    BY <1>1, <1>2, <2>2, <2>3 DEF Handed, Owing
  <2>5. ClientFacts(g, then, c)
    BY <1>2, <1>3, <2>2, Zenon DEF Handed, ClientFacts
  <2>6. ASSUME NEW d \in Clients, d # c PROVE ClientFacts(g, then, d)
    <3>1. d \in Threads /\ ClientFacts(f, at, d) /\ d # Server /\ d # None
      BY Parties DEF Facts
    <3>2. g.threads[d] = f.threads[d] /\ then[d] = at[d]
      BY <1>2, <2>2, <2>6, <3>1 DEF Handed
    <3>3. f.threads[d].state # ReplyBlocked(Server)
      BY <2>3, <3>1, Roles
    <3> QED
      BY <3>1, <3>2, <3>3, Bystander
  <2> QED
    BY <1>2, <2>4, <2>5, <2>6 DEF Facts
<1> QED
  BY <1>4, <1>5, <1>6

\* A client takes its answer.
LEMMA TakeKeeps ==
  ASSUME NEW f, NEW at, NEW req, Facts(f, at, req), NEW c \in Clients,
         at[c] = "take", f.threads[c].state = Runnable,
         NEW g, g = TakeMessage(f, c), Sound(g),
         NEW then, Moves(at, then, c, "call")
  PROVE  Facts(g, then, req)
<1>1. c \in Threads /\ c # Server /\ f \in IpcState /\ Server \in Threads
  BY Parties DEF Facts, Sound
<1>2. /\ then[c] = "call" /\ \A t \in Threads \ {c} : then[t] = at[t]
      /\ then \in [Threads -> {"call", "receive", "take", "reply"}]
  BY DEF Moves
<1>3. /\ g.threads[c].inbox = None /\ g.threads[c].state = Runnable
      /\ \A x \in Threads \ {c} : g.threads[x] = f.threads[x]
  BY <1>1, TakeMessageEffect
<1>4. g.threads[Server] = f.threads[Server] /\ then[Server] = at[Server]
  BY <1>1, <1>2, <1>3
<1>5. Free(g, then, req) \/ Owing(g, then, req)
  BY <1>4 DEF Facts, Free, Owing
<1>6. ClientFacts(g, then, c)
  BY <1>2, <1>3 DEF ClientFacts
<1>7. ASSUME NEW d \in Clients, d # c PROVE ClientFacts(g, then, d)
  <2>1. d \in Threads /\ ClientFacts(f, at, d)
    BY Parties DEF Facts
  <2>2. g.threads[d] = f.threads[d] /\ then[d] = at[d]
    BY <1>2, <1>3, <1>7, <2>1
  <2>3. f.threads[d].state = ReplyBlocked(Server) => g.threads[Server].reply_target = d
    BY <1>4, <2>1, Roles
  <2> QED
    BY <2>1, <2>2, <2>3, Bystander
<1> QED
  BY <1>2, <1>5, <1>6, <1>7 DEF Facts

\* The server receives: it waits, or gets the request of the first in the queue.
LEMMA ReceiveKeeps ==
  ASSUME NEW f, NEW at, NEW req, Facts(f, at, req),
         at[Server] = "receive", f.threads[Server].state = Runnable,
         NEW g, g = Receive(f, Server, 0).ipc, Sound(g),
         NEW then, Moves(at, then, Server, "take")
  PROVE  Facts(g, then, req)
<1> DEFINE q == f.endpoints[0].senders
           s == Front(q)
<1>1. Server \in Threads /\ 0 \in Endpoints /\ Sound(f)
  BY Parties DEF Facts
<1>2. /\ then[Server] = "take" /\ \A t \in Threads \ {Server} : then[t] = at[t]
      /\ then \in [Threads -> {"call", "receive", "take", "reply"}]
  BY DEF Moves
<1>3. /\ f.threads[Server].inbox = None /\ f.threads[Server].reply_target = None
      /\ req = None
  BY DEF Facts, Free, Owing
<1>4. ASSUME NEW d \in Clients PROVE f.threads[d].state # ReplyBlocked(Server)
  BY <1>3, Parties, Roles
<1>5. \/ /\ g.threads[Server].state = Receiving(0)
         /\ g.threads[Server].inbox = f.threads[Server].inbox
         /\ g.threads[Server].reply_target = f.threads[Server].reply_target
         /\ \A x \in Threads \ {Server} : g.threads[x] = f.threads[x]
      \/ /\ s \in Threads \ {Server} /\ f.threads[s].state = Sending(0)
         /\ f.threads[s].is_call =>
              Handed(f, g, s, Server, f.threads[s].outgoing, ReplyBlocked(Server), s)
  <2>1. q = f.endpoints[0].senders /\ s = Front(q)
    OBVIOUS
  <2> HIDE DEF q, s
  <2> QED
    <3>1. ReceiveDoes(f, g, Server, 0, q, s)
      BY <1>1, <2>1, ReceiveEffect, Zenon
    <3> QED
      BY <3>1, Zenon DEF ReceiveDoes
<1> HIDE DEF q, s
<1>6. CASE /\ g.threads[Server].state = Receiving(0)
           /\ g.threads[Server].inbox = f.threads[Server].inbox
           /\ g.threads[Server].reply_target = f.threads[Server].reply_target
           /\ \A x \in Threads \ {Server} : g.threads[x] = f.threads[x]
  <2>1. Free(g, then, req)
    BY <1>2, <1>3, <1>6 DEF Free
  <2>2. ASSUME NEW d \in Clients PROVE ClientFacts(g, then, d)
    <3>1. d \in Threads \ {Server} /\ ClientFacts(f, at, d)
      BY Parties DEF Facts
    <3>2. g.threads[d] = f.threads[d] /\ then[d] = at[d]
      BY <1>2, <1>6, <3>1
    <3> QED
      BY <1>4, <3>1, <3>2, Bystander
  <2> QED
    BY <1>2, <2>1, <2>2 DEF Facts
<1>7. CASE /\ s \in Threads \ {Server} /\ f.threads[s].state = Sending(0)
           /\ f.threads[s].is_call =>
                Handed(f, g, s, Server, f.threads[s].outgoing, ReplyBlocked(Server), s)
  <2>1. /\ s \in Clients /\ at[s] = "take" /\ f.threads[s].inbox = None
        /\ f.threads[s].outgoing = s /\ f.threads[s].is_call
    BY <1>7, Roles
  <2>2. Handed(f, g, s, Server, s, ReplyBlocked(Server), s)
    BY <1>7, <2>1
  <2>3. Owing(g, then, req)
    BY <1>2, <1>3, <2>1, <2>2 DEF Handed, Owing
  <2>4. ClientFacts(g, then, s)
    BY <1>2, <1>7, <2>1, <2>2, ZenonT(60) DEF Handed, ClientFacts
  <2>5. ASSUME NEW d \in Clients, d # s PROVE ClientFacts(g, then, d)
    <3>1. d \in Threads \ {Server} /\ ClientFacts(f, at, d)
      BY Parties DEF Facts
    <3>2. g.threads[d] = f.threads[d] /\ then[d] = at[d]
      BY <1>2, <2>2, <2>5, <3>1 DEF Handed
    <3> QED
      BY <1>4, <3>1, <3>2, Bystander
  <2> QED
    BY <1>2, <2>3, <2>4, <2>5 DEF Facts
<1> QED
  BY <1>5, <1>6, <1>7

\* The server takes the request out of its inbox.
LEMMA ServerTakeKeeps ==
  ASSUME NEW f, NEW at, NEW req, Facts(f, at, req),
         at[Server] = "take", f.threads[Server].state = Runnable,
         NEW g, g = TakeMessage(f, Server), Sound(g),
         NEW then, Moves(at, then, Server, "reply")
  PROVE  Facts(g, then, f.threads[Server].inbox)
<1>1. Server \in Threads /\ f \in IpcState
  BY Parties DEF Facts, Sound
<1>2. /\ then[Server] = "reply" /\ \A t \in Threads \ {Server} : then[t] = at[t]
      /\ then \in [Threads -> {"call", "receive", "take", "reply"}]
  BY DEF Moves
<1>3. /\ g.threads[Server].inbox = None /\ g.threads[Server].state = Runnable
      /\ g.threads[Server].reply_target = f.threads[Server].reply_target
      /\ \A x \in Threads \ {Server} : g.threads[x] = f.threads[x]
  BY <1>1, TakeMessageEffect
<1>4. /\ f.threads[Server].reply_target \in Clients
      /\ f.threads[Server].inbox = f.threads[Server].reply_target
  BY StatesDiffer DEF Facts, Free, Owing
<1>5. Owing(g, then, f.threads[Server].inbox)
  BY <1>2, <1>3, <1>4 DEF Owing
<1>6. ASSUME NEW d \in Clients PROVE ClientFacts(g, then, d)
  <2>1. d \in Threads \ {Server} /\ ClientFacts(f, at, d)
    BY Parties DEF Facts
  <2>2. g.threads[d] = f.threads[d] /\ then[d] = at[d]
    BY <1>2, <1>3, <2>1
  <2>3. f.threads[d].state = ReplyBlocked(Server) => f.threads[Server].reply_target = d
    BY <2>1, Parties, StatesDiffer DEF ClientFacts
  <2> QED
    BY <1>3, <2>1, <2>2, <2>3, Bystander, Zenon
<1> QED
  BY <1>2, <1>5, <1>6 DEF Facts

\* The server replies: the client it owes the answer gets its own request back.
LEMMA ReplyKeeps ==
  ASSUME NEW f, NEW at, NEW req, Facts(f, at, req),
         at[Server] = "reply", f.threads[Server].state = Runnable,
         NEW g, g = Reply(f, Server, req).ipc, Sound(g),
         NEW then, Moves(at, then, Server, "receive")
  PROVE  Facts(g, then, None)
<1> DEFINE c == f.threads[Server].reply_target
<1>1. Server \in Threads /\ Sound(f)
  BY Parties DEF Facts
<1>2. /\ then[Server] = "receive" /\ \A t \in Threads \ {Server} : then[t] = at[t]
      /\ then \in [Threads -> {"call", "receive", "take", "reply"}]
  BY DEF Moves
<1>3. c \in Clients /\ f.threads[Server].inbox = None /\ req = c
  BY DEF Facts, Free, Owing
<1>4. req \in Messages /\ c # None
  BY <1>3, Parties
<1>5. c = f.threads[Server].reply_target
  OBVIOUS
<1> HIDE DEF c
<1>6. /\ g.threads[Server].reply_target = None /\ g.threads[Server].state = Runnable
      /\ g.threads[Server].inbox = f.threads[Server].inbox
      /\ c \in Threads \ {Server} /\ f.threads[c].state = ReplyBlocked(Server)
      /\ g.threads[c].state = Runnable /\ g.threads[c].inbox = req
      /\ \A x \in Threads \ {Server, c} : g.threads[x] = f.threads[x]
  <2>1. ReplyDoes(f, g, Server, req, c)
    BY <1>1, <1>4, <1>5, ReplyEffect, Zenon
  <2> QED
    BY <1>4, <2>1, Zenon DEF ReplyDoes
<1>7. Free(g, then, None)
  BY <1>2, <1>3, <1>6 DEF Free
<1>8. ClientFacts(g, then, c)
  <2>1. at[c] = "take"
    BY <1>3, <1>6, Roles
  <2> QED
    BY <1>2, <1>3, <1>6, <2>1 DEF ClientFacts
<1>9. ASSUME NEW d \in Clients, d # c PROVE ClientFacts(g, then, d)
  <2>1. d \in Threads \ {Server} /\ ClientFacts(f, at, d)
    BY Parties DEF Facts
  <2>2. g.threads[d] = f.threads[d] /\ then[d] = at[d]
    BY <1>2, <1>6, <1>9, <2>1
  <2>3. f.threads[d].state # ReplyBlocked(Server)
    BY <1>5, <1>9, <2>1, Roles
  <2> QED
    BY <2>1, <2>2, <2>3, Bystander
<1> QED
  BY <1>2, <1>7, <1>8, <1>9 DEF Facts

-----------------------------------------------------------------------------
(* The invariant of every behaviour. *)

\* A step of these threads is a call of RendezvousIpc.
LEMMA StepIsCall ==
  ASSUME ClientServerInv, ClientServerNext
  PROVE  Next
<1>1. ASSUME NEW c \in Clients, ClientCalls(c) PROVE Next
  BY <1>1, Parties DEF ClientCalls, Next
<1>2. ASSUME NEW c \in Clients, ClientTakes(c) PROVE Next
  BY <1>2, Parties DEF ClientTakes, Next
<1>3. CASE ServerReceives
  BY <1>3, Parties DEF ServerReceives, Next
<1>4. CASE ServerTakes
  BY <1>4, Parties DEF ServerTakes, Next
<1>5. CASE ServerReplies
  <2>1. request \in Messages
    BY <1>5, Parties DEF ClientServerInv, Facts, Free, Owing, ServerReplies, Runs
  <2> QED
    BY <1>5, <2>1, Parties DEF ServerReplies, Next
<1> QED
  BY <1>1, <1>2, <1>3, <1>4, <1>5 DEF ClientServerNext, ServerSteps

\* Every state one server and its clients reach satisfies the invariant.
THEOREM ClientServerSound == ClientServerSpec => []ClientServerInv
<1>1. ClientServerInit => ClientServerInv
  <2> SUFFICES ASSUME ClientServerInit PROVE ClientServerInv
    OBVIOUS
  <2>1. Sound(ipc) /\ request = None
    BY EmptySound DEF ClientServerInit, Init
  <2>2. \A t \in Threads : /\ ipc.threads[t].state = Runnable
                           /\ ipc.threads[t].inbox = None
                           /\ ipc.threads[t].reply_target = None
    BY DEF ClientServerInit, Init, EmptyIpc, EmptyThread
  <2>3. /\ step \in [Threads -> {"call", "receive", "take", "reply"}]
        /\ step[Server] = "receive" /\ \A c \in Clients : step[c] = "call"
    BY Parties DEF ClientServerInit
  <2>4. Free(ipc, step, request)
    BY <2>1, <2>2, <2>3, Parties DEF Free
  <2>5. \A c \in Clients : ClientFacts(ipc, step, c)
    BY <2>2, <2>3, Parties DEF ClientFacts
  <2> QED
    BY <2>1, <2>3, <2>4, <2>5 DEF ClientServerInv, Facts
<1>2. ClientServerInv /\ [ClientServerNext]_vars => ClientServerInv'
  <2> SUFFICES ASSUME ClientServerInv, [ClientServerNext]_vars PROVE ClientServerInv'
    OBVIOUS
  <2>1. CASE ClientServerNext
    <3>1. Facts(ipc, step, request)
      BY DEF ClientServerInv
    <3>2. IpcInv
      BY <3>1 DEF Facts, IpcInv
    <3>3. Sound(ipc')
      BY <2>1, <3>2, StepIsCall, StepSound DEF IpcInv
    <3> SUFFICES Facts(ipc', step', request')
      BY DEF ClientServerInv
    <3>4. ASSUME NEW c \in Clients, ClientCalls(c) PROVE Facts(ipc', step', request')
      <4>1. /\ step[c] = "call" /\ ipc.threads[c].state = Runnable
            /\ ipc' = Call(ipc, c, 0, c).ipc /\ request' = request
        BY <3>4 DEF ClientCalls, Runs, DoCall
      <4>2. Moves(step, step', c, "take")
        BY <3>4, Parties, Moved DEF ClientCalls
      <4> QED
        BY <3>1, <3>3, <4>1, <4>2, CallKeeps
    <3>5. ASSUME NEW c \in Clients, ClientTakes(c) PROVE Facts(ipc', step', request')
      <4>1. /\ step[c] = "take" /\ ipc.threads[c].state = Runnable
            /\ ipc' = TakeMessage(ipc, c) /\ request' = request
        BY <3>5 DEF ClientTakes, Runs, DoTakeMessage
      <4>2. Moves(step, step', c, "call")
        BY <3>5, Parties, Moved DEF ClientTakes
      <4> QED
        BY <3>1, <3>3, <4>1, <4>2, TakeKeeps
    <3>6. CASE ServerReceives
      <4>1. /\ step[Server] = "receive" /\ ipc.threads[Server].state = Runnable
            /\ ipc' = Receive(ipc, Server, 0).ipc /\ request' = request
        BY <3>6 DEF ServerReceives, Runs, DoReceive
      <4>2. Moves(step, step', Server, "take")
        BY <3>6, Parties, Moved DEF ServerReceives
      <4> QED
        BY <3>1, <3>3, <4>1, <4>2, ReceiveKeeps
    <3>7. CASE ServerTakes
      <4>1. /\ step[Server] = "take" /\ ipc.threads[Server].state = Runnable
            /\ ipc' = TakeMessage(ipc, Server)
            /\ request' = ipc.threads[Server].inbox
        BY <3>7 DEF ServerTakes, Runs, DoTakeMessage
      <4>2. Moves(step, step', Server, "reply")
        BY <3>7, Parties, Moved DEF ServerTakes
      <4> QED
        BY <3>1, <3>3, <4>1, <4>2, ServerTakeKeeps
    <3>8. CASE ServerReplies
      <4>1. /\ step[Server] = "reply" /\ ipc.threads[Server].state = Runnable
            /\ ipc' = Reply(ipc, Server, request).ipc /\ request' = None
        BY <3>8 DEF ServerReplies, Runs, DoReply
      <4>2. Moves(step, step', Server, "receive")
        BY <3>8, Parties, Moved DEF ServerReplies
      <4> QED
        BY <3>1, <3>3, <4>1, <4>2, ReplyKeeps
    <3> QED
      BY <2>1, <3>4, <3>5, <3>6, <3>7, <3>8 DEF ClientServerNext, ServerSteps
  <2>2. CASE UNCHANGED vars
    BY <2>2 DEF ClientServerInv, vars
  <2> QED
    BY <2>1, <2>2
<1> QED
  BY <1>1, <1>2, PTL DEF ClientServerSpec

-----------------------------------------------------------------------------
(* The theorems. *)

\* The state, what each thread does next and the request keep their types.
THEOREM ClientServerTypes == ClientServerSpec => []ClientServerType
<1>1. ClientServerInv => ClientServerType
  <2> SUFFICES ASSUME ClientServerInv PROVE ClientServerType
    OBVIOUS
  <2>1. /\ ipc \in IpcState
        /\ step \in [Threads -> {"call", "receive", "take", "reply"}]
    BY DEF ClientServerInv, Facts, Sound
  <2>2. request \in Messages \cup {None}
    BY Parties DEF ClientServerInv, Facts, Free, Owing
  <2> QED
    BY <2>1, <2>2 DEF ClientServerType
<1> QED
  BY <1>1, ClientServerSound, PTL

\* call, receive and reply bring each client the answer to its own request.
THEOREM AnswersAreMatched == ClientServerSpec => []AnswersMatch
<1>1. ClientServerInv => AnswersMatch
  BY StatesDiffer DEF ClientServerInv, Facts, ClientFacts, AnswersMatch
<1> QED
  BY <1>1, ClientServerSound, PTL

\* A server that answers before it receives again forgets no client.
THEOREM NobodyIsForgotten == ClientServerSpec => []NobodyForgotten
<1>1. ClientServerInv => NobodyForgotten
  BY Parties, Roles DEF ClientServerInv, NobodyForgotten
<1> QED
  BY <1>1, ClientServerSound, PTL

\* send, call, receive and reply write to an empty inbox, so none of the messages
\* is overwritten before take_message.
THEOREM NothingIsOverwritten == ClientServerSpec => []InboxNotOverwritten
<1>1. ClientServerInv => InboxNotOverwritten
  <2> SUFFICES ASSUME ClientServerInv, NEW t \in Threads,
                      step[t] # "take" \/ ipc.threads[t].state # Runnable
               PROVE  ipc.threads[t].inbox = None
    BY DEF InboxNotOverwritten
  <2>1. CASE t \in Clients
    BY <2>1 DEF ClientServerInv, Facts, ClientFacts
  <2>2. CASE t = Server
    BY <2>2 DEF ClientServerInv, Facts, Free, Owing
  <2> QED
    BY <2>1, <2>2 DEF Clients
<1> QED
  BY <1>1, ClientServerSound, PTL

=============================================================================
