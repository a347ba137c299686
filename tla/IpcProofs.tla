------------------------------ MODULE IpcProofs ------------------------------
(***************************************************************************)
(* The invariants of the rendezvous IPC, for every number of threads,      *)
(* endpoints and messages.                                                 *)
(*                                                                         *)
(* The lemmas are about a state f and the state g that a call leaves, in   *)
(* terms of what the calls do to every field.                              *)
(***************************************************************************)
EXTENDS Ipc, FiniteSetTheorems, TLAPS

-----------------------------------------------------------------------------
(* The ring buffer. *)

\* The position k places behind position h of the ring.
LEMMA Place ==
  ASSUME NEW h \in Positions, NEW k \in 0 .. THREADS
  PROVE  /\ (h + k) % THREADS = IF h + k < THREADS THEN h + k ELSE h + k - THREADS
         /\ (h + k) % THREADS \in Positions
<1>1. THREADS \in Nat \ {0} /\ h \in 0 .. THREADS - 1
  BY IpcSizesAssumption DEF Positions
<1>2. (h + k) % THREADS = IF h + k < THREADS THEN h + k ELSE h + k - THREADS
  <2>1. CASE h + k < THREADS
    BY <1>1, <2>1
  <2>2. CASE h + k >= THREADS
    <3>1. h + k - THREADS \in 0 .. THREADS - 1
      BY <1>1, <2>2
    <3>2. (h + k - THREADS) + 1 * THREADS = h + k
      BY <1>1
    <3> QED
      BY <1>1, <3>1, <3>2
  <2> QED
    BY <1>1, <2>1, <2>2
<1> QED
  BY <1>1, <1>2 DEF Positions

\* Different places have different positions; and the places once h has moved
\* on by one.
LEMMA Ring ==
  ASSUME NEW h \in Positions
  PROVE  /\ \A j, k \in Positions :
              (h + j) % THREADS = (h + k) % THREADS => j = k
         /\ \A k \in Positions : (((h + 1) % THREADS) + k) % THREADS
              = IF k = THREADS - 1 THEN h ELSE (h + (k + 1)) % THREADS
<1>1. THREADS \in Nat \ {0} /\ h \in 0 .. THREADS - 1
  BY IpcSizesAssumption DEF Positions
<1>2. ASSUME NEW j \in Positions, NEW k \in Positions,
             (h + j) % THREADS = (h + k) % THREADS
      PROVE  j = k
  <2>1. j \in 0 .. THREADS /\ k \in 0 .. THREADS
    BY <1>1 DEF Positions
  <2>2. (h + j) % THREADS = IF h + j < THREADS THEN h + j ELSE h + j - THREADS
    BY <2>1, Place
  <2>3. (h + k) % THREADS = IF h + k < THREADS THEN h + k ELSE h + k - THREADS
    BY <2>1, Place
  <2> QED
    BY <1>1, <1>2, <2>2, <2>3 DEF Positions
<1>3. ASSUME NEW k \in Positions
      PROVE  (((h + 1) % THREADS) + k) % THREADS
               = IF k = THREADS - 1 THEN h ELSE (h + (k + 1)) % THREADS
  <2> DEFINE g == (h + 1) % THREADS
  <2>1. 1 \in 0 .. THREADS /\ k \in 0 .. THREADS /\ k + 1 \in 0 .. THREADS
    BY <1>1 DEF Positions
  <2>2. g = (IF h + 1 < THREADS THEN h + 1 ELSE h + 1 - THREADS) /\ g \in Positions
    BY <2>1, Place
  <2> HIDE DEF g
  <2>3. (g + k) % THREADS = IF g + k < THREADS THEN g + k ELSE g + k - THREADS
    BY <2>1, <2>2, Place
  <2>4. (h + (k + 1)) % THREADS
          = IF h + (k + 1) < THREADS THEN h + (k + 1) ELSE h + (k + 1) - THREADS
    BY <2>1, Place
  <2>5. (g + k) % THREADS = IF k = THREADS - 1 THEN h ELSE (h + (k + 1)) % THREADS
    BY <1>1, <2>1, <2>2, <2>3, <2>4 DEF Positions
  <2> QED
    BY <2>5 DEF g
<1> QED
  BY <1>2, <1>3

\* A push leaves every place as it was but the first vacant one.
LEMMA PushEntries ==
  ASSUME NEW q \in Queue, NEW t \in Threads, q.len < THREADS
  PROVE  /\ Push(q, t) \in Queue /\ Push(q, t).len = q.len + 1
         /\ \A k \in Positions :
              EntryAt(Push(q, t), k) = IF k = q.len THEN t ELSE EntryAt(q, k)
<1> DEFINE p == (q.head + q.len) % THREADS
           es == [q.entries EXCEPT ![p] = t]
<1>1. q.head \in Positions /\ q.len \in Positions
      /\ q.entries \in [Positions -> Threads \cup {None}]
  BY IpcSizesAssumption DEF Queue, Positions
<1>2. \A j \in Positions : (q.head + j) % THREADS = p => j = q.len
  BY <1>1, Ring
<1>3. p \in Positions /\ \A k \in Positions : (q.head + k) % THREADS \in Positions
  <2>1. Positions \subseteq 0 .. THREADS
    BY IpcSizesAssumption DEF Positions
  <2> QED
    BY <1>1, <2>1, Place, Zenon
<1>4. /\ Push(q, t).entries = es
      /\ Push(q, t).head = q.head /\ Push(q, t).len = q.len + 1
      /\ Push(q, t) = [entries |-> es, head |-> q.head, len |-> q.len + 1]
  BY DEF Push
<1> HIDE DEF p
<1>5. es \in [Positions -> Threads \cup {None}]
  BY <1>1, <1>3
<1>6. \A k \in Positions : EntryAt(Push(q, t), k) = es[(q.head + k) % THREADS]
  BY <1>4 DEF EntryAt
<1>7. \A k \in Positions :
        es[(q.head + k) % THREADS] = IF k = q.len THEN t ELSE EntryAt(q, k)
  BY <1>1, <1>2, <1>3 DEF p, EntryAt
<1>8. q.len + 1 \in 0 .. THREADS
  BY <1>1, IpcSizesAssumption DEF Positions
<1> QED
  BY <1>1, <1>4, <1>5, <1>6, <1>7, <1>8 DEF Queue

\* A pop from a queue somebody waits in moves everybody one place forward.
LEMMA PopEntries ==
  ASSUME NEW q \in Queue, q.len # 0
  PROVE  /\ Pop(q) \in Queue /\ Pop(q).len = q.len - 1
         /\ Front(q) = EntryAt(q, 0)
         /\ \A k \in Positions :
              EntryAt(Pop(q), k) = IF k = THREADS - 1 THEN None ELSE EntryAt(q, k + 1)
<1> DEFINE es == [q.entries EXCEPT ![q.head] = None]
           g == (q.head + 1) % THREADS
<1>1. q.head \in Positions /\ q.len \in 0 .. THREADS
      /\ q.entries \in [Positions -> Threads \cup {None}]
  BY DEF Queue
<1>2. Pop(q) = [entries |-> es, head |-> g, len |-> q.len - 1]
  BY DEF Pop
<1>3. g \in Positions
  <2>1. 1 \in 0 .. THREADS
    BY IpcSizesAssumption
  <2> QED
    BY <1>1, <2>1, Place
<1>4. \A k \in Positions : (g + k) % THREADS
         = IF k = THREADS - 1 THEN q.head ELSE (q.head + (k + 1)) % THREADS
  BY <1>1, Ring
<1>5. 0 \in Positions /\ (q.head + 0) % THREADS = q.head
  <2>1. THREADS \in Nat \ {0} /\ 0 \in 0 .. THREADS
    BY IpcSizesAssumption
  <2>2. (q.head + 0) % THREADS
          = IF q.head + 0 < THREADS THEN q.head + 0 ELSE q.head + 0 - THREADS
    BY <1>1, <2>1, Place
  <2> QED
    BY <1>1, <2>1, <2>2 DEF Positions
<1>6. \A j \in Positions : /\ (q.head + j) % THREADS \in Positions
                           /\ (q.head + j) % THREADS = q.head => j = 0
  <2>1. Positions \subseteq 0 .. THREADS
    BY IpcSizesAssumption DEF Positions
  <2>2. \A j \in Positions : (q.head + j) % THREADS \in Positions
    BY <1>1, <2>1, Place, Zenon
  <2>3. \A j \in Positions :
          (q.head + j) % THREADS = (q.head + 0) % THREADS => j = 0
    BY <1>1, <1>5, Ring
  <2> QED
    BY <1>5, <2>2, <2>3
<1> HIDE DEF g
<1>7. \A k \in Positions : EntryAt(Pop(q), k) = es[(g + k) % THREADS]
  BY <1>2 DEF EntryAt
<1>8. ASSUME NEW k \in Positions
      PROVE  es[(g + k) % THREADS]
               = IF k = THREADS - 1 THEN None ELSE EntryAt(q, k + 1)
  <2>1. CASE k = THREADS - 1
    BY <1>1, <1>4, <2>1
  <2>2. CASE k # THREADS - 1
    <3>1. k + 1 \in Positions /\ k + 1 # 0
      BY <2>2, IpcSizesAssumption DEF Positions
    <3>2. (q.head + (k + 1)) % THREADS \in Positions \ {q.head}
      BY <1>6, <3>1
    <3> QED
      BY <1>1, <1>4, <2>2, <3>2 DEF EntryAt
  <2> QED
    BY <2>1, <2>2
<1>9. Front(q) = EntryAt(q, 0)
  BY <1>5 DEF Front, EntryAt
<1>10. es \in [Positions -> Threads \cup {None}] /\ q.len - 1 \in 0 .. THREADS
  BY <1>1, IpcSizesAssumption
<1> QED
  BY <1>2, <1>3, <1>7, <1>8, <1>9, <1>10 DEF Queue

\* Pushing a thread that is not in the queue adds it to the threads held.
LEMMA PushHolds ==
  ASSUME NEW q \in Queue, NEW T \in SUBSET Threads, Holds(q, T),
         NEW t \in Threads, t \notin T, q.len < THREADS
  PROVE  Holds(Push(q, t), T \cup {t})
<1> DEFINE p == Push(q, t)
<1>1. /\ p.len = q.len + 1 /\ q.len \in Nat /\ THREADS \in Nat
      /\ \A k \in 0 .. THREADS - 1 :
           EntryAt(p, k) = IF k = q.len THEN t ELSE EntryAt(q, k)
  BY PushEntries, IpcSizesAssumption DEF Positions, Queue
<1>2. /\ \A k \in 0 .. THREADS - 1 :
           IF k < q.len THEN EntryAt(q, k) \in T ELSE EntryAt(q, k) = None
      /\ \A x \in T : \E k \in 0 .. q.len - 1 : EntryAt(q, k) = x
      /\ \A j, k \in 0 .. q.len - 1 : EntryAt(q, j) = EntryAt(q, k) => j = k
  BY DEF Holds
<1> HIDE DEF p
<1>3. \A k \in 0 .. THREADS - 1 :
        IF k < p.len THEN EntryAt(p, k) \in T \cup {t} ELSE EntryAt(p, k) = None
  BY <1>1, <1>2
<1>4. \A x \in T \cup {t} : \E k \in 0 .. p.len - 1 : EntryAt(p, k) = x
  <2>1. q.len \in 0 .. p.len - 1 /\ EntryAt(p, q.len) = t
    BY <1>1
  <2>2. ASSUME NEW x \in T PROVE \E k \in 0 .. p.len - 1 : EntryAt(p, k) = x
    <3>1. PICK k \in 0 .. q.len - 1 : EntryAt(q, k) = x
      BY <1>2
    <3>2. k \in 0 .. p.len - 1 /\ EntryAt(p, k) = x
      BY <1>1, <3>1
    <3> QED
      BY <3>2
  <2> QED
    BY <2>1, <2>2
<1>5. ASSUME NEW j \in 0 .. p.len - 1, NEW k \in 0 .. p.len - 1,
             EntryAt(p, j) = EntryAt(p, k)
      PROVE  j = k
  <2>1. j \in 0 .. THREADS - 1 /\ k \in 0 .. THREADS - 1
    BY <1>1
  <2>2. /\ j = q.len \/ (j \in 0 .. q.len - 1 /\ EntryAt(p, j) = EntryAt(q, j)
                           /\ EntryAt(q, j) \in T)
        /\ k = q.len \/ (k \in 0 .. q.len - 1 /\ EntryAt(p, k) = EntryAt(q, k)
                           /\ EntryAt(q, k) \in T)
    BY <1>1, <1>2, <2>1
  <2>3. EntryAt(p, q.len) = t
    BY <1>1
  <2> QED
    BY <1>2, <1>5, <2>2, <2>3
<1> QED
  BY <1>3, <1>4, <1>5 DEF Holds, p

\* Popping takes away the front and nobody else.
LEMMA PopHolds ==
  ASSUME NEW q \in Queue, NEW T \in SUBSET Threads, Holds(q, T), q.len # 0
  PROVE  Front(q) \in T /\ Holds(Pop(q), T \ {Front(q)})
<1> DEFINE p == Pop(q)
           f == Front(q)
<1>1. /\ p.len = q.len - 1 /\ q.len \in 1 .. THREADS /\ THREADS \in Nat
      /\ f = EntryAt(q, 0)
      /\ \A k \in 0 .. THREADS - 1 :
           EntryAt(p, k) = IF k = THREADS - 1 THEN None ELSE EntryAt(q, k + 1)
  BY PopEntries, IpcSizesAssumption DEF Positions, Queue
<1>2. /\ \A k \in 0 .. THREADS - 1 :
           IF k < q.len THEN EntryAt(q, k) \in T ELSE EntryAt(q, k) = None
      /\ \A x \in T : \E k \in 0 .. q.len - 1 : EntryAt(q, k) = x
      /\ \A j, k \in 0 .. q.len - 1 : EntryAt(q, j) = EntryAt(q, k) => j = k
  BY DEF Holds
<1> HIDE DEF p, f
<1>3. f \in T
  BY <1>1, <1>2
<1>4. \A k \in 0 .. p.len - 1 : /\ k + 1 \in 0 .. q.len - 1 /\ k + 1 # 0
                                /\ k \in 0 .. THREADS - 1
                                /\ EntryAt(p, k) = EntryAt(q, k + 1)
  BY <1>1
<1>5. ASSUME NEW k \in 0 .. THREADS - 1
      PROVE  IF k < p.len THEN EntryAt(p, k) \in T \ {f} ELSE EntryAt(p, k) = None
  <2>1. CASE k < p.len
    <3>1. k \in 0 .. p.len - 1 /\ 0 \in 0 .. q.len - 1
      BY <1>1, <2>1
    <3>2. EntryAt(q, k + 1) \in T /\ EntryAt(q, k + 1) # EntryAt(q, 0)
      BY <1>1, <1>2, <1>4, <3>1
    <3> QED
      BY <1>1, <1>4, <2>1, <3>1, <3>2
  <2>2. CASE ~(k < p.len)
    BY <1>1, <1>2, <2>2
  <2> QED
    BY <2>1, <2>2
<1>6. ASSUME NEW x \in T \ {f} PROVE \E k \in 0 .. p.len - 1 : EntryAt(p, k) = x
  <2>1. PICK k \in 0 .. q.len - 1 : EntryAt(q, k) = x
    BY <1>2
  <2>2. k # 0
    BY <1>1, <2>1
  <2>3. k - 1 \in 0 .. p.len - 1 /\ (k - 1) + 1 = k
    BY <1>1, <2>2
  <2>4. EntryAt(p, k - 1) = x
    BY <1>4, <2>1, <2>3
  <2> QED
    BY <2>3, <2>4
<1>7. ASSUME NEW j \in 0 .. p.len - 1, NEW k \in 0 .. p.len - 1,
             EntryAt(p, j) = EntryAt(p, k)
      PROVE  j = k
  <2>1. j + 1 = k + 1
    BY <1>2, <1>4, <1>7
  <2> QED
    BY <1>1, <2>1
<1> QED
  BY <1>3, <1>5, <1>6, <1>7 DEF Holds, p, f

\* pop returns None from an empty queue and a waiting thread from another one;
\* an empty queue holds nobody.
LEMMA FrontOf ==
  ASSUME NEW q \in Queue, NEW T \in SUBSET Threads, Holds(q, T)
  PROVE  /\ Front(q) = None <=> q.len = 0
         /\ q.len = 0 => T = {} /\ Pop(q) = q
         /\ q.len # 0 => Front(q) \in T
<1>1. q.len # 0 => Front(q) \in T
  BY PopHolds
<1>2. q.len = 0 => T = {}
  BY DEF Holds
<1> QED
  BY <1>1, <1>2, IpcNoneAssumption DEF Front, Pop

\* A queue has room for any thread that is not in it: THREADS entries cannot
\* hold THREADS different other threads.
LEMMA Room ==
  ASSUME NEW q \in Queue, NEW T \in SUBSET Threads, Holds(q, T),
         NEW t \in Threads, t \notin T
  PROVE  q.len < THREADS
<1> SUFFICES ASSUME q.len >= THREADS PROVE FALSE
  BY IpcSizesAssumption DEF Queue
<1>1. q.len = THREADS /\ THREADS \in Nat \ {0}
  BY IpcSizesAssumption DEF Queue
<1> DEFINE S == 0 .. THREADS - 1
           f == [k \in S |-> EntryAt(q, k)]
<1>2. f \in [S -> S \ {t}]
  <2>1. \A k \in S : k < q.len /\ EntryAt(q, k) \in T
    BY <1>1 DEF Holds
  <2>2. T \subseteq S \ {t}
    BY DEF Threads
  <2> QED
    BY <2>1, <2>2, Zenon
<1>3. IsFiniteSet(S) /\ Cardinality(S) = THREADS
  <2>1. 0 \in Int /\ THREADS - 1 \in Int /\ ~(0 > THREADS - 1)
    BY <1>1
  <2>2. IsFiniteSet(S) /\ Cardinality(S) = (THREADS - 1) - 0 + 1
    BY <2>1, FS_Interval
  <2> QED
    BY <1>1, <2>2
<1>4. t \in S /\ IsFiniteSet(S \ {t}) /\ Cardinality(S \ {t}) = Cardinality(S) - 1
  BY <1>3, FS_RemoveElement, Zenon DEF Threads
<1>5. Cardinality(S \ {t}) < Cardinality(S)
  BY <1>1, <1>3, <1>4
<1> HIDE DEF f
<1>6. \E x, y \in S : x # y /\ f[x] = f[y]
  BY <1>2, <1>3, <1>4, <1>5, FS_PigeonHole, ZenonT(60)
<1>7. \A x, y \in S : EntryAt(q, x) = EntryAt(q, y) => x = y
  BY <1>1 DEF Holds
<1> QED
  BY <1>6, <1>7 DEF f

-----------------------------------------------------------------------------
(* The inductive invariant: the four safety properties together.  That queues *)
(* and states agree makes room in the queues, without which a failing push    *)
(* would break the agreement; and a reply target can only be trusted because  *)
(* a thread in state ReplyBlocked is in no queue and so is woken by nobody    *)
(* else.                                                                      *)

Agree(f) ==
  \A e \in Endpoints :
    /\ Holds(f.endpoints[e].senders, InState(f, Sending(e)))
    /\ Holds(f.endpoints[e].receivers, InState(f, Receiving(e)))

OneSided(f) ==
  \A e \in Endpoints :
    f.endpoints[e].senders.len = 0 \/ f.endpoints[e].receivers.len = 0

TargetsWait(f) ==
  \A s \in Threads : f.threads[s].reply_target # None =>
    f.threads[f.threads[s].reply_target].state = ReplyBlocked(s)

Sound(f) == f \in IpcState /\ Agree(f) /\ OneSided(f) /\ TargetsWait(f)

IpcInv == Sound(ipc)

\* The states of two threads are equal only if both parts are.
LEMMA StatesDiffer ==
  /\ \A a, b : Sending(a) = Sending(b) => a = b
  /\ \A a, b : Receiving(a) = Receiving(b) => a = b
  /\ \A a, b : ReplyBlocked(a) = ReplyBlocked(b) => a = b
  /\ \A a, b : Sending(a) # Receiving(b) /\ Sending(a) # ReplyBlocked(b)
                 /\ Receiving(a) # ReplyBlocked(b)
  /\ \A a : Runnable \notin {Sending(a), Receiving(a), ReplyBlocked(a)}
  BY DEF Sending, Receiving, ReplyBlocked, Runnable, State

\* The parts of a state have their types.
LEMMA Parts ==
  ASSUME NEW f \in IpcState
  PROVE  /\ \A e \in Endpoints : /\ f.endpoints[e].senders \in Queue
                                 /\ f.endpoints[e].receivers \in Queue
         /\ \A t \in Threads : /\ f.threads[t].reply_target \in Threads \cup {None}
                               /\ f.threads[t].outgoing \in Messages
         /\ \A s : InState(f, s) \in SUBSET Threads
  BY DEF IpcState, Endpoint, Thread, InState

\* How the fields the invariant is about may change in a step from f to g.
StateOnly(f, g, t, s) ==
  \A x \in Threads :
    g.threads[x].state = IF x = t THEN s ELSE f.threads[x].state
SameStates(f, g) == \A x \in Threads : g.threads[x].state = f.threads[x].state
SameTargets(f, g) ==
  \A x \in Threads : g.threads[x].reply_target = f.threads[x].reply_target
TargetOnly(f, g, t, c) ==
  \A x \in Threads :
    g.threads[x].reply_target = IF x = t THEN c ELSE f.threads[x].reply_target
SendersOnly(f, g, e, q) ==
  \A x \in Endpoints :
    /\ g.endpoints[x].senders = IF x = e THEN q ELSE f.endpoints[x].senders
    /\ g.endpoints[x].receivers = f.endpoints[x].receivers
ReceiversOnly(f, g, e, q) ==
  \A x \in Endpoints :
    /\ g.endpoints[x].receivers = IF x = e THEN q ELSE f.endpoints[x].receivers
    /\ g.endpoints[x].senders = f.endpoints[x].senders

\* Messages and flags do not matter to the invariant, and a reply target may be
\* dropped.
LEMMA Quiet ==
  ASSUME NEW f, Sound(f), NEW g \in IpcState, SameStates(f, g),
         g.endpoints = f.endpoints,
         \A x \in Threads :
           g.threads[x].reply_target \in {None, f.threads[x].reply_target}
  PROVE  Sound(g)
<1>1. \A s : InState(g, s) = InState(f, s)
  BY DEF SameStates, InState
<1>2. Agree(g) /\ OneSided(g)
  BY <1>1 DEF Sound, Agree, OneSided
<1>3. TargetsWait(g)
  BY Parts DEF Sound, TargetsWait, SameStates
<1> QED
  BY <1>2, <1>3 DEF Sound

\* A runnable thread blocks as a sender where no receiver waits.
LEMMA BlockSender ==
  ASSUME NEW f, Sound(f), NEW g \in IpcState, NEW t \in Threads,
         NEW e \in Endpoints, f.threads[t].state = Runnable,
         f.endpoints[e].receivers.len = 0,
         StateOnly(f, g, t, Sending(e)), SameTargets(f, g),
         SendersOnly(f, g, e, Push(f.endpoints[e].senders, t))
  PROVE  Sound(g)
<1> DEFINE q == f.endpoints[e].senders
           T == InState(f, Sending(e))
<1>1. q \in Queue /\ T \in SUBSET Threads /\ Holds(q, T) /\ t \notin T
  BY Parts, StatesDiffer, Zenon DEF Sound, Agree, InState
<1>2. q.len < THREADS
  BY <1>1, Room
<1>3. Holds(Push(q, t), T \cup {t})
  BY <1>1, <1>2, PushHolds
<1>4. InState(g, Sending(e)) = T \cup {t}
  BY DEF StateOnly, InState
<1>5. \A x \in Endpoints : x # e => InState(g, Sending(x)) = InState(f, Sending(x))
  BY StatesDiffer DEF StateOnly, InState
<1>6. \A x \in Endpoints : InState(g, Receiving(x)) = InState(f, Receiving(x))
  BY StatesDiffer DEF StateOnly, InState
<1> HIDE DEF q, T
<1>7. Agree(g)
  BY <1>3, <1>4, <1>5, <1>6, Zenon DEF Sound, Agree, SendersOnly, q
<1>8. OneSided(g)
  BY DEF Sound, OneSided, SendersOnly
<1>9. TargetsWait(g)
  BY Parts, StatesDiffer DEF Sound, TargetsWait, SameTargets, StateOnly
<1> QED
  BY <1>7, <1>8, <1>9 DEF Sound

\* A runnable thread blocks as a receiver where no sender waits.
LEMMA BlockReceiver ==
  ASSUME NEW f, Sound(f), NEW g \in IpcState, NEW t \in Threads,
         NEW e \in Endpoints, f.threads[t].state = Runnable,
         f.endpoints[e].senders.len = 0,
         StateOnly(f, g, t, Receiving(e)), SameTargets(f, g),
         ReceiversOnly(f, g, e, Push(f.endpoints[e].receivers, t))
  PROVE  Sound(g)
<1> DEFINE q == f.endpoints[e].receivers
           T == InState(f, Receiving(e))
<1>1. q \in Queue /\ T \in SUBSET Threads /\ Holds(q, T) /\ t \notin T
  BY Parts, StatesDiffer, Zenon DEF Sound, Agree, InState
<1>2. q.len < THREADS
  BY <1>1, Room
<1>3. Holds(Push(q, t), T \cup {t})
  BY <1>1, <1>2, PushHolds
<1>4. InState(g, Receiving(e)) = T \cup {t}
  BY DEF StateOnly, InState
<1>5. \A x \in Endpoints : x # e => InState(g, Receiving(x)) = InState(f, Receiving(x))
  BY StatesDiffer DEF StateOnly, InState
<1>6. \A x \in Endpoints : InState(g, Sending(x)) = InState(f, Sending(x))
  BY StatesDiffer DEF StateOnly, InState
<1> HIDE DEF q, T
<1>7. Agree(g)
  BY <1>3, <1>4, <1>5, <1>6 DEF Sound, Agree, ReceiversOnly, q
<1>8. OneSided(g)
  BY DEF Sound, OneSided, ReceiversOnly
<1>9. TargetsWait(g)
  BY Parts, StatesDiffer DEF Sound, TargetsWait, SameTargets, StateOnly
<1> QED
  BY <1>7, <1>8, <1>9 DEF Sound

\* The sender at the front of a queue leaves it and becomes runnable.
LEMMA WakeSender ==
  ASSUME NEW f, Sound(f), NEW g \in IpcState, NEW e \in Endpoints,
         f.endpoints[e].senders.len # 0,
         StateOnly(f, g, Front(f.endpoints[e].senders), Runnable), SameTargets(f, g),
         SendersOnly(f, g, e, Pop(f.endpoints[e].senders))
  PROVE  Sound(g)
<1> DEFINE q == f.endpoints[e].senders
           T == InState(f, Sending(e))
           t == Front(q)
<1>1. q \in Queue /\ T \in SUBSET Threads /\ Holds(q, T) /\ q.len # 0
  BY Parts DEF Sound, Agree
<1>2. t \in T /\ Holds(Pop(q), T \ {t}) /\ Pop(q).len = q.len - 1 /\ q.len \in Nat
  BY <1>1, PopHolds, PopEntries DEF Queue
<1>3. t \in Threads /\ f.threads[t].state = Sending(e) /\ StateOnly(f, g, t, Runnable)
  BY <1>2 DEF InState
<1> HIDE DEF t
<1>4. InState(g, Sending(e)) = T \ {t}
  BY <1>3, StatesDiffer DEF StateOnly, InState
<1>5. \A x \in Endpoints : x # e => InState(g, Sending(x)) = InState(f, Sending(x))
  BY <1>3, StatesDiffer DEF StateOnly, InState
<1>6. \A x \in Endpoints : InState(g, Receiving(x)) = InState(f, Receiving(x))
  BY <1>3, StatesDiffer DEF StateOnly, InState
<1> HIDE DEF q, T
<1>7. Agree(g)
  BY <1>2, <1>4, <1>5, <1>6, ZenonT(60) DEF Sound, Agree, SendersOnly, q
<1>8. OneSided(g)
  BY <1>1 DEF Sound, OneSided, SendersOnly, q
<1>9. TargetsWait(g)
  BY <1>3, Parts, StatesDiffer DEF Sound, TargetsWait, SameTargets, StateOnly
<1> QED
  BY <1>7, <1>8, <1>9 DEF Sound

\* The receiver at the front of a queue leaves it and becomes runnable.
LEMMA WakeReceiver ==
  ASSUME NEW f, Sound(f), NEW g \in IpcState, NEW e \in Endpoints,
         f.endpoints[e].receivers.len # 0,
         StateOnly(f, g, Front(f.endpoints[e].receivers), Runnable), SameTargets(f, g),
         ReceiversOnly(f, g, e, Pop(f.endpoints[e].receivers))
  PROVE  Sound(g)
<1> DEFINE q == f.endpoints[e].receivers
           T == InState(f, Receiving(e))
           t == Front(q)
<1>1. q \in Queue /\ T \in SUBSET Threads /\ Holds(q, T) /\ q.len # 0
  BY Parts DEF Sound, Agree
<1>2. t \in T /\ Holds(Pop(q), T \ {t}) /\ Pop(q).len = q.len - 1 /\ q.len \in Nat
  BY <1>1, PopHolds, PopEntries DEF Queue
<1>3. t \in Threads /\ f.threads[t].state = Receiving(e) /\ StateOnly(f, g, t, Runnable)
  BY <1>2 DEF InState
<1> HIDE DEF t
<1>4. InState(g, Receiving(e)) = T \ {t}
  BY <1>3, StatesDiffer DEF StateOnly, InState
<1>5. \A x \in Endpoints : x # e => InState(g, Receiving(x)) = InState(f, Receiving(x))
  BY <1>3, StatesDiffer DEF StateOnly, InState
<1>6. \A x \in Endpoints : InState(g, Sending(x)) = InState(f, Sending(x))
  BY <1>3, StatesDiffer DEF StateOnly, InState
<1> HIDE DEF q, T
<1>7. Agree(g)
  BY <1>2, <1>4, <1>5, <1>6, Zenon DEF Sound, Agree, ReceiversOnly, q
<1>8. OneSided(g)
  BY <1>1 DEF Sound, OneSided, ReceiversOnly, q
<1>9. TargetsWait(g)
  BY <1>3, Parts, StatesDiffer DEF Sound, TargetsWait, SameTargets, StateOnly
<1> QED
  BY <1>7, <1>8, <1>9 DEF Sound

\* A runnable client is bound to a server until the server replies.
LEMMA Bind ==
  ASSUME NEW f, Sound(f), NEW g \in IpcState, NEW c \in Threads, NEW s \in Threads,
         f.threads[c].state = Runnable, g.endpoints = f.endpoints,
         StateOnly(f, g, c, ReplyBlocked(s)), TargetOnly(f, g, s, c)
  PROVE  Sound(g)
<1>1. \A x \in Endpoints : /\ InState(g, Sending(x)) = InState(f, Sending(x))
                           /\ InState(g, Receiving(x)) = InState(f, Receiving(x))
  BY StatesDiffer DEF StateOnly, InState
<1>2. Agree(g) /\ OneSided(g)
  BY <1>1 DEF Sound, Agree, OneSided
<1>3. TargetsWait(g)
  BY Parts, StatesDiffer DEF Sound, TargetsWait, TargetOnly, StateOnly
<1> QED
  BY <1>2, <1>3 DEF Sound

\* A server answers the client it owes a reply to.
LEMMA Unbind ==
  ASSUME NEW f, Sound(f), NEW g \in IpcState, NEW s \in Threads,
         f.threads[s].reply_target # None, g.endpoints = f.endpoints,
         StateOnly(f, g, f.threads[s].reply_target, Runnable),
         TargetOnly(f, g, s, None)
  PROVE  Sound(g)
<1> DEFINE c == f.threads[s].reply_target
<1>1. c \in Threads /\ f.threads[c].state = ReplyBlocked(s)
  BY Parts DEF Sound, TargetsWait
<1>2. \A x \in Endpoints : /\ InState(g, Sending(x)) = InState(f, Sending(x))
                           /\ InState(g, Receiving(x)) = InState(f, Receiving(x))
  BY <1>1, StatesDiffer DEF StateOnly, InState
<1>3. Agree(g) /\ OneSided(g)
  BY <1>2 DEF Sound, Agree, OneSided
<1>4. TargetsWait(g)
  BY <1>1, Parts, StatesDiffer DEF Sound, TargetsWait, TargetOnly, StateOnly
<1> QED
  BY <1>3, <1>4 DEF Sound

-----------------------------------------------------------------------------
(* Each operation preserves the invariant.  All but reply also leave everybody *)
(* waiting who waits for a reply.                                              *)

StillWait(f, g) ==
  \A c, s \in Threads : f.threads[c].state = ReplyBlocked(s) =>
                          g.threads[c].state = ReplyBlocked(s)

\* A step that changes the state of one thread, not itself reply-blocked.
LEMMA Undisturbed ==
  ASSUME NEW f, NEW g, NEW t, NEW s, StateOnly(f, g, t, s),
         \A x \in Threads : f.threads[t].state # ReplyBlocked(x)
  PROVE  StillWait(f, g)
  BY DEF StateOnly, StillWait

\* What Bound does.
LEMMA BoundFields ==
  ASSUME NEW f \in IpcState, NEW c \in Threads, NEW s \in Threads
  PROVE  /\ Bound(f, c, s) \in IpcState
         /\ Bound(f, c, s).endpoints = f.endpoints
         /\ StateOnly(f, Bound(f, c, s), c, ReplyBlocked(s))
         /\ TargetOnly(f, Bound(f, c, s), s, c)
<1> DEFINE g == [f EXCEPT !.threads[c].state = ReplyBlocked(s)]
<1>1. ReplyBlocked(s) \in ThreadStates
  BY DEF ThreadStates
<1>2. /\ g \in IpcState /\ g.endpoints = f.endpoints
      /\ StateOnly(f, g, c, ReplyBlocked(s)) /\ SameTargets(f, g)
  BY <1>1 DEF IpcState, Thread, StateOnly, SameTargets
<1> HIDE DEF g
<1> DEFINE h == [g EXCEPT !.threads[s].reply_target = c]
<1>3. h \in IpcState /\ h.endpoints = g.endpoints /\ SameStates(g, h) /\ TargetOnly(g, h, s, c)
  BY <1>2 DEF IpcState, Thread, SameStates, TargetOnly
<1>4. Bound(f, c, s) = h
  BY DEF Bound, g
<1> HIDE DEF h
<1> QED
  BY <1>2, <1>3, <1>4 DEF StateOnly, SameStates, SameTargets, TargetOnly

\* A sender finds no receiver, so there is room for it in the queue.
LEMMA EnqueueSound ==
  ASSUME NEW f, Sound(f), NEW t \in Threads, NEW e \in Endpoints, NEW m \in Messages,
         f.threads[t].state = Runnable, f.endpoints[e].receivers.len = 0
  PROVE  /\ Sound(Enqueue(f, t, e, m).ipc)
         /\ StillWait(f, Enqueue(f, t, e, m).ipc)
<1> DEFINE q == f.endpoints[e].senders
           T == InState(f, Sending(e))
<1>1. q \in Queue /\ T \in SUBSET Threads /\ Holds(q, T) /\ t \notin T /\ f \in IpcState
  BY Parts, StatesDiffer, Zenon DEF Sound, Agree, InState
<1>2. q.len < THREADS /\ Push(q, t) \in Queue
  BY <1>1, Room, PushEntries
<1> DEFINE b == [f EXCEPT !.threads[t] = [@ EXCEPT !.outgoing = m, !.state = Sending(e)]]
           g == [b EXCEPT !.endpoints[e].senders = Push(q, t)]
<1>3. Enqueue(f, t, e, m).ipc = g
  <2>1. ~Full(q)
    BY <1>1, <1>2, IpcSizesAssumption DEF Full, Queue
  <2> QED
    BY <2>1 DEF Enqueue, Result
<1> HIDE DEF q
<1>4. Sending(e) \in ThreadStates /\ f \in IpcState
  BY <1>1 DEF ThreadStates
<1>5. b \in IpcState /\ b.endpoints = f.endpoints
      /\ StateOnly(f, b, t, Sending(e)) /\ SameTargets(f, b)
  BY <1>4, ZenonT(60) DEF IpcState, Thread, StateOnly, SameTargets
<1> HIDE DEF b
<1>6. g \in IpcState /\ g.threads = b.threads /\ SendersOnly(b, g, e, Push(q, t))
  BY <1>2, <1>5, ZenonT(60) DEF IpcState, Endpoint, SendersOnly
<1> HIDE DEF g
<1>7. /\ StateOnly(f, g, t, Sending(e)) /\ SameTargets(f, g)
      /\ SendersOnly(f, g, e, Push(q, t))
  BY <1>5, <1>6 DEF StateOnly, SameTargets, SendersOnly
<1>8. Sound(g)
  BY <1>6, <1>7, BlockSender DEF q
<1>9. StillWait(f, g)
  BY <1>7, StatesDiffer, Undisturbed
<1> QED
  BY <1>3, <1>8, <1>9

\* One thread gets a new value.
LEMMA Updated ==
  ASSUME NEW f \in IpcState, NEW t \in Threads, NEW th \in Thread
  PROVE  /\ [f EXCEPT !.threads[t] = th] \in IpcState
         /\ [f EXCEPT !.threads[t] = th].endpoints = f.endpoints
         /\ [f EXCEPT !.threads[t] = th].threads[t] = th
         /\ \A x \in Threads \ {t} : [f EXCEPT !.threads[t] = th].threads[x] = f.threads[x]
  BY DEF IpcState

\* One queue of receivers gets a new value.
LEMMA Requeued ==
  ASSUME NEW f \in IpcState, NEW e \in Endpoints, NEW q \in Queue
  PROVE  /\ [f EXCEPT !.endpoints[e].receivers = q] \in IpcState
         /\ [f EXCEPT !.endpoints[e].receivers = q].threads = f.threads
         /\ ReceiversOnly(f, [f EXCEPT !.endpoints[e].receivers = q], e, q)
<1> DEFINE E == [f.endpoints[e] EXCEPT !.receivers = q]
<1>1. f.endpoints[e] \in Endpoint
  BY DEF IpcState
<1>2. E \in Endpoint /\ E.receivers = q /\ E.senders = f.endpoints[e].senders
  BY <1>1 DEF Endpoint
<1>3. [f EXCEPT !.endpoints[e].receivers = q] = [f EXCEPT !.endpoints[e] = E]
  OBVIOUS
<1> HIDE DEF E
<1> QED
  BY <1>2, <1>3 DEF IpcState, ReceiversOnly

\* send and call.
LEMMA SendOrCallSound ==
  ASSUME NEW f, Sound(f), NEW t, NEW e, NEW m \in Messages, NEW kind
  PROVE  /\ Sound(SendOrCall(f, t, e, m, kind).ipc)
         /\ StillWait(f, SendOrCall(f, t, e, m, kind).ipc)
<1> DEFINE call == kind = "call"
           flagged == [f EXCEPT !.threads[t].is_call = call]
           r == Front(f.endpoints[e].receivers)
           popped == [flagged EXCEPT !.endpoints[e].receivers = Pop(@)]
           woken == [popped EXCEPT !.threads[r] = [@ EXCEPT !.inbox = m,
                                                            !.state = Runnable]]
           g == SendOrCall(f, t, e, m, kind).ipc
<1>1. g = IF RunnableError(f, t) # "Ok" THEN f
          ELSE IF e \notin Endpoints THEN flagged
          ELSE IF r = None THEN Enqueue(popped, t, e, m).ipc
          ELSE IF kind = "call" THEN Bound(woken, t, r) ELSE woken
  BY DEF SendOrCall, Result
<1>2. f \in IpcState /\ call \in BOOLEAN
  BY DEF Sound
<1> HIDE DEF call
<1>3. CASE RunnableError(f, t) # "Ok"
  BY <1>1, <1>3 DEF StillWait
<1>4. CASE RunnableError(f, t) = "Ok"
  <2>1. t \in Threads /\ f.threads[t].state = Runnable
    BY <1>4 DEF RunnableError
  <2>2. flagged \in IpcState /\ flagged.endpoints = f.endpoints
        /\ SameStates(f, flagged) /\ SameTargets(f, flagged)
    BY <1>2, <2>1 DEF IpcState, Thread, SameStates, SameTargets
  <2> HIDE DEF flagged
  <2>3. Sound(flagged) /\ StillWait(f, flagged) /\ flagged.threads[t].state = Runnable
    BY <2>1, <2>2, Quiet DEF SameStates, SameTargets, StillWait
  <2>4. CASE e \notin Endpoints
    BY <1>1, <1>4, <2>3, <2>4
  <2>5. CASE e \in Endpoints
    <3> DEFINE q == f.endpoints[e].receivers
               T == InState(f, Receiving(e))
    <3>1. q \in Queue /\ T \in SUBSET Threads /\ Holds(q, T)
      BY <1>2, <2>5, Parts DEF Sound, Agree
    <3>2. /\ r = None <=> q.len = 0
          /\ q.len = 0 => Pop(q) = q
          /\ q.len # 0 => r \in T
      BY <3>1, FrontOf
    <3>3. Pop(q) \in Queue
      BY <3>1, <3>2, PopEntries
    <3>4. popped = [flagged EXCEPT !.endpoints[e].receivers = Pop(q)]
      BY <2>2
    <3> HIDE DEF q, r, popped
    <3>5. /\ popped \in IpcState /\ popped.threads = flagged.threads
          /\ ReceiversOnly(flagged, popped, e, Pop(q))
      BY <2>2, <2>5, <3>3, <3>4, Requeued
    <3>6. CASE r = None
      <4>1. popped.endpoints = flagged.endpoints
        <5>1. flagged.endpoints[e].receivers = Pop(q)
          BY <2>2, <3>2, <3>6 DEF q
        <5> QED
          BY <2>2, <2>5, <3>4, <5>1 DEF IpcState, Endpoint
      <4>2. Sound(popped) /\ popped.threads[t].state = Runnable
        BY <2>3, <3>5, <4>1, Quiet DEF SameStates
      <4>3. popped.endpoints[e].receivers.len = 0
        BY <2>2, <3>2, <3>6, <4>1 DEF q
      <4>4. Sound(Enqueue(popped, t, e, m).ipc)
            /\ StillWait(popped, Enqueue(popped, t, e, m).ipc)
        BY <2>1, <2>5, <4>2, <4>3, EnqueueSound
      <4> QED
        BY <1>1, <1>4, <2>3, <2>5, <3>5, <3>6, <4>4 DEF StillWait
    <3>7. CASE r # None
      <4>1. r \in Threads /\ f.threads[r].state = Receiving(e) /\ r # t
        BY <2>1, <3>1, <3>2, <3>7, StatesDiffer DEF InState
      <4>2. /\ woken \in IpcState /\ woken.endpoints = popped.endpoints
            /\ StateOnly(popped, woken, r, Runnable) /\ SameTargets(popped, woken)
        <5> DEFINE D == [popped.threads[r] EXCEPT !.inbox = m]
                   R == [D EXCEPT !.state = Runnable]
        <5>1. popped.threads[r] \in Thread /\ Runnable \in ThreadStates
          BY <3>5, <4>1 DEF IpcState, ThreadStates
        <5>2. D \in Thread /\ D.reply_target = popped.threads[r].reply_target
          BY <5>1 DEF Thread
        <5>3. woken = [popped EXCEPT !.threads[r] = R]
          OBVIOUS
        <5> HIDE DEF D
        <5>4. /\ R \in Thread /\ R.state = Runnable
              /\ R.reply_target = popped.threads[r].reply_target
          BY <5>1, <5>2 DEF Thread
        <5> HIDE DEF R, woken
        <5>5. /\ woken \in IpcState /\ woken.endpoints = popped.endpoints
              /\ woken.threads[r] = R
              /\ \A x \in Threads \ {r} : woken.threads[x] = popped.threads[x]
          BY <3>5, <4>1, <5>3, <5>4, Updated
        <5> QED
          BY <5>4, <5>5 DEF StateOnly, SameTargets
      <4> HIDE DEF woken
      <4>3. /\ StateOnly(flagged, woken, r, Runnable) /\ SameTargets(flagged, woken)
            /\ ReceiversOnly(flagged, woken, e, Pop(q))
        BY <3>5, <4>2 DEF StateOnly, SameTargets, ReceiversOnly
      <4>4. q = flagged.endpoints[e].receivers /\ r = Front(q) /\ q.len # 0
        BY <2>2, <3>2, <3>7 DEF q, r
      <4>5. Sound(woken)
        BY <2>3, <2>5, <4>2, <4>3, <4>4, WakeReceiver
      <4>6. flagged.threads[r].state = Receiving(e)
        BY <2>2, <4>1 DEF SameStates
      <4>7. StillWait(flagged, woken) /\ woken.threads[t].state = Runnable
        <5>1. \A x \in Threads : flagged.threads[r].state # ReplyBlocked(x)
          BY <4>6, StatesDiffer
        <5>2. StillWait(flagged, woken)
          BY <4>3, <5>1, Undisturbed
        <5> QED
          BY <2>1, <2>3, <4>1, <4>3, <5>2 DEF StateOnly
      <4>8. /\ Sound(Bound(woken, t, r))
            /\ StateOnly(woken, Bound(woken, t, r), t, ReplyBlocked(r))
        BY <2>1, <4>1, <4>2, <4>5, <4>7, BoundFields, Bind
      <4>9. StillWait(woken, Bound(woken, t, r))
        BY <4>7, <4>8, StatesDiffer, Undisturbed
      <4> QED
        BY <1>1, <1>4, <2>3, <2>5, <3>7, <4>5, <4>7, <4>8, <4>9 DEF StillWait
    <3> QED
      BY <3>6, <3>7
  <2> QED
    BY <2>4, <2>5
<1> QED
  BY <1>3, <1>4

\* receive.
LEMMA ReceiveSound ==
  ASSUME NEW f, Sound(f), NEW r, NEW e
  PROVE  /\ Sound(Receive(f, r, e).ipc)
         /\ StillWait(f, Receive(f, r, e).ipc)
<1> DEFINE s == Front(f.endpoints[e].senders)
           p == f.endpoints[e].receivers
           popped == [f EXCEPT !.endpoints[e].senders = Pop(@)]
           blocked == [popped EXCEPT !.threads[r].state = Receiving(e)]
           pushed == [blocked EXCEPT !.endpoints[e].receivers = Push(p, r)]
           taken == Transferred(popped, s, r)
           woken == [taken EXCEPT !.threads[s].state = Runnable]
           g == Receive(f, r, e).ipc
<1>1. g = IF RunnableError(f, r) # "Ok" THEN f
          ELSE IF e \notin Endpoints THEN f
          ELSE IF s = None /\ Full(p) THEN blocked
          ELSE IF s = None THEN pushed
          ELSE IF f.threads[s].is_call THEN Bound(taken, s, r) ELSE woken
  BY DEF Receive, Result
<1>2. f \in IpcState
  BY DEF Sound
<1>3. CASE RunnableError(f, r) # "Ok" \/ e \notin Endpoints
  BY <1>1, <1>3, Zenon DEF StillWait
<1>4. CASE RunnableError(f, r) = "Ok" /\ e \in Endpoints
  <2> DEFINE q == f.endpoints[e].senders
             T == InState(f, Sending(e))
  <2>1. r \in Threads /\ f.threads[r].state = Runnable /\ e \in Endpoints
    BY <1>4 DEF RunnableError
  <2>2. q \in Queue /\ T \in SUBSET Threads /\ Holds(q, T)
    BY <1>2, <2>1, Parts DEF Sound, Agree
  <2>3. /\ s = None <=> q.len = 0
        /\ q.len = 0 => Pop(q) = q
        /\ q.len # 0 => s \in T
    BY <2>2, FrontOf
  <2>4. Pop(q) \in Queue
    BY <2>2, <2>3, PopEntries
  <2>5. popped = [f EXCEPT !.endpoints[e].senders = Pop(q)]
    OBVIOUS
  <2> HIDE DEF q, s, popped
  <2>6. /\ popped \in IpcState /\ popped.threads = f.threads
        /\ SendersOnly(f, popped, e, Pop(q))
    BY <1>2, <2>1, <2>4, <2>5, ZenonT(60) DEF IpcState, Endpoint, SendersOnly
  <2>7. CASE s = None
    <3> DEFINE U == InState(f, Receiving(e))
    <3>1. p \in Queue /\ U \in SUBSET Threads /\ Holds(p, U) /\ r \notin U
      BY <1>2, <2>1, Parts, StatesDiffer, Zenon DEF Sound, Agree, InState
    <3>2. p.len < THREADS /\ Push(p, r) \in Queue /\ ~Full(p)
      <4>1. p.len < THREADS
        BY <2>1, <3>1, Room
      <4> QED
        BY <2>1, <3>1, <4>1, PushEntries, IpcSizesAssumption DEF Full, Queue
    <3> HIDE DEF p
    <3>3. SendersOnly(f, popped, e, q) /\ q = f.endpoints[e].senders
      BY <2>3, <2>6, <2>7 DEF q
    <3>4. Receiving(e) \in ThreadStates
      BY <2>1 DEF ThreadStates
    <3>5. /\ blocked \in IpcState /\ blocked.endpoints = popped.endpoints
          /\ StateOnly(popped, blocked, r, Receiving(e)) /\ SameTargets(popped, blocked)
      BY <2>1, <2>6, <3>4 DEF IpcState, Thread, StateOnly, SameTargets
    <3> HIDE DEF blocked
    <3>6. /\ pushed \in IpcState /\ pushed.threads = blocked.threads
          /\ ReceiversOnly(blocked, pushed, e, Push(p, r))
      BY <2>1, <3>2, <3>5 DEF IpcState, Endpoint, ReceiversOnly
    <3> HIDE DEF pushed
    <3>7. /\ StateOnly(f, pushed, r, Receiving(e)) /\ SameTargets(f, pushed)
      BY <2>6, <3>5, <3>6 DEF StateOnly, SameTargets
    <3>8. ReceiversOnly(f, pushed, e, Push(p, r))
      BY <3>3, <3>5, <3>6 DEF ReceiversOnly, SendersOnly
    <3>9. Sound(pushed)
      BY <2>1, <2>3, <2>7, <3>3, <3>6, <3>7, <3>8, BlockReceiver DEF p
    <3>10. StillWait(f, pushed)
      BY <2>1, <3>7, StatesDiffer, Undisturbed
    <3> QED
      BY <1>1, <1>4, <2>7, <3>2, <3>9, <3>10
  <2>8. CASE s # None
    <3>1. s \in Threads /\ f.threads[s].state = Sending(e) /\ r # s
      BY <2>1, <2>2, <2>3, <2>8, StatesDiffer DEF InState
    <3>2. f.threads[s].outgoing \in Messages
      BY <1>2, <3>1, Parts
    <3>3. /\ taken \in IpcState /\ taken.endpoints = popped.endpoints
          /\ SameStates(popped, taken) /\ SameTargets(popped, taken)
      BY <2>1, <2>6, <3>2 DEF Transferred, IpcState, Thread, SameStates, SameTargets
    <3> HIDE DEF taken
    <3>4. /\ woken \in IpcState /\ woken.endpoints = taken.endpoints
          /\ StateOnly(taken, woken, s, Runnable) /\ SameTargets(taken, woken)
      BY <3>1, <3>3, ZenonT(60) DEF IpcState, Thread, StateOnly, SameTargets, ThreadStates
    <3> HIDE DEF woken
    <3>5. /\ StateOnly(f, woken, s, Runnable) /\ SameTargets(f, woken)
          /\ SendersOnly(f, woken, e, Pop(q))
      BY <2>6, <3>3, <3>4 DEF StateOnly, SameStates, SameTargets, SendersOnly
    <3>6. q = f.endpoints[e].senders /\ s = Front(q) /\ q.len # 0
      BY <2>3, <2>8 DEF q, s
    <3>7. Sound(woken)
      BY <2>1, <3>4, <3>5, <3>6, WakeSender
    <3>8. \A x \in Threads : f.threads[s].state # ReplyBlocked(x)
      BY <3>1, StatesDiffer
    <3>9. StillWait(f, woken)
      BY <3>5, <3>8, Undisturbed
    <3> DEFINE bound == Bound(taken, s, r)
    <3>10. /\ bound \in IpcState /\ bound.endpoints = taken.endpoints
           /\ StateOnly(taken, bound, s, ReplyBlocked(r)) /\ TargetOnly(taken, bound, r, s)
      BY <2>1, <3>1, <3>3, BoundFields
    <3> HIDE DEF bound
    <3>11. /\ bound.endpoints = woken.endpoints /\ woken.threads[s].state = Runnable
           /\ StateOnly(woken, bound, s, ReplyBlocked(r)) /\ TargetOnly(woken, bound, r, s)
      BY <3>1, <3>4, <3>10 DEF StateOnly, TargetOnly, SameTargets
    <3>12. Sound(bound)
      BY <2>1, <3>1, <3>7, <3>10, <3>11, Bind
    <3>13. StateOnly(f, bound, s, ReplyBlocked(r))
      BY <2>6, <3>3, <3>10 DEF StateOnly, SameStates
    <3>14. StillWait(f, bound)
      BY <3>8, <3>13, Undisturbed
    <3> QED
      BY <1>1, <1>4, <2>8, <3>7, <3>9, <3>12, <3>14 DEF bound
  <2> QED
    BY <2>7, <2>8
<1> QED
  BY <1>3, <1>4

\* What reply does: nothing but, perhaps, wake the one client the server owes a
\* reply to, with the message, and drop the debt.
Answered(f, g) ==
  \A c, s \in Threads :
    f.threads[c].state = ReplyBlocked(s) /\ g.threads[c].state # ReplyBlocked(s)
      => /\ f.threads[s].reply_target = c /\ g.threads[s].reply_target = None
         /\ g.threads[c].state = Runnable /\ g.threads[c].inbox \in Messages

\* reply, with any arguments, leaves a sound state sound.
LEMMA ReplySound ==
  ASSUME NEW f, Sound(f), NEW s, NEW m \in Messages
  PROVE  Sound(Reply(f, s, m).ipc) /\ Answered(f, Reply(f, s, m).ipc)
<1> DEFINE c == f.threads[s].reply_target
           dropped == [f EXCEPT !.threads[s].reply_target = None]
           woken == [dropped EXCEPT !.threads[c] = [@ EXCEPT !.inbox = m,
                                                             !.state = Runnable]]
           g == Reply(f, s, m).ipc
<1>1. g = IF RunnableError(f, s) # "Ok" THEN f
          ELSE IF c = None \/ f.threads[c].state # ReplyBlocked(s) THEN dropped
          ELSE woken
  BY DEF Reply, Result
<1>2. f \in IpcState
  BY DEF Sound
<1>3. CASE RunnableError(f, s) # "Ok"
  BY <1>1, <1>3 DEF Answered
<1>4. CASE RunnableError(f, s) = "Ok"
  <2>1. s \in Threads /\ f.threads[s].state = Runnable
    BY <1>4 DEF RunnableError
  <2>2. /\ dropped \in IpcState /\ dropped.endpoints = f.endpoints
        /\ SameStates(f, dropped) /\ TargetOnly(f, dropped, s, None)
    BY <1>2, <2>1 DEF IpcState, Thread, SameStates, TargetOnly
  <2> HIDE DEF dropped
  <2>3. Sound(dropped) /\ Answered(f, dropped)
    BY <2>2, Quiet DEF SameStates, TargetOnly, Answered
  <2>4. CASE c = None \/ f.threads[c].state # ReplyBlocked(s)
    BY <1>1, <1>4, <2>3, <2>4
  <2>5. CASE ~(c = None \/ f.threads[c].state # ReplyBlocked(s))
    <3>1. c \in Threads /\ f.threads[c].state = ReplyBlocked(s) /\ c # s
      BY <1>2, <2>1, <2>5, Parts, StatesDiffer
    <3> HIDE DEF c
    <3>2. /\ woken \in IpcState /\ woken.endpoints = dropped.endpoints
          /\ StateOnly(dropped, woken, c, Runnable) /\ SameTargets(dropped, woken)
          /\ woken.threads[c].inbox = m
      BY <2>2, <3>1, ZenonT(60) DEF IpcState, Thread, StateOnly, SameTargets, ThreadStates
    <3> HIDE DEF woken
    <3>3. StateOnly(f, woken, c, Runnable) /\ TargetOnly(f, woken, s, None)
      BY <2>2, <3>2 DEF StateOnly, TargetOnly, SameStates, SameTargets
    <3>4. c = f.threads[s].reply_target /\ c # None
      BY <2>5 DEF c
    <3>5. Sound(woken)
      BY <2>1, <2>2, <3>2, <3>3, <3>4, Unbind
    <3>6. Answered(f, woken)
      BY <2>1, <3>1, <3>2, <3>3, <3>4, StatesDiffer DEF Answered, StateOnly, TargetOnly
    <3> QED
      BY <1>1, <1>4, <2>5, <3>5, <3>6
  <2> QED
    BY <2>4, <2>5
<1> QED
  BY <1>3, <1>4

\* take_message.
LEMMA TakeMessageSound ==
  ASSUME NEW f, Sound(f), NEW t
  PROVE  Sound(TakeMessage(f, t)) /\ StillWait(f, TakeMessage(f, t))
<1> DEFINE g == TakeMessage(f, t)
<1>1. CASE t \notin Threads
  BY <1>1 DEF TakeMessage, StillWait
<1>2. CASE t \in Threads
  <2>1. f \in IpcState
    BY DEF Sound
  <2>2. /\ g \in IpcState /\ g.endpoints = f.endpoints
        /\ SameStates(f, g) /\ SameTargets(f, g)
    BY <1>2, <2>1 DEF TakeMessage, IpcState, Thread, SameStates, SameTargets
  <2> HIDE DEF g
  <2>3. Sound(g) /\ StillWait(f, g)
    BY <2>2, Quiet DEF SameStates, SameTargets, StillWait
  <2> QED
    BY <2>3 DEF g
<1> QED
  BY <1>1, <1>2

-----------------------------------------------------------------------------
(* What the calls do to every field, for the proofs that build on them. *)

\* Thread t waits at e with message m, in the last place of the queue.
Waits(f, g, t, e, m) ==
  /\ g.threads[t].state = Sending(e) /\ g.threads[t].outgoing = m
  /\ g.threads[t].inbox = f.threads[t].inbox
  /\ g.threads[t].reply_target = f.threads[t].reply_target
  /\ \A x \in Threads \ {t} : g.threads[x] = f.threads[x]
  /\ SendersOnly(f, g, e, Push(f.endpoints[e].senders, t))

\* Message m of s has come to r; s is left in the given state, and r with the
\* given right to reply.  What s keeps of its message does not matter any more.
Handed(f, g, s, r, m, state, target) ==
  /\ g.threads[r].state = Runnable /\ g.threads[r].inbox = m
  /\ g.threads[r].reply_target = target
  /\ g.threads[s].state = state
  /\ g.threads[s].inbox = f.threads[s].inbox
  /\ g.threads[s].reply_target = f.threads[s].reply_target
  /\ \A x \in Threads \ {s, r} : g.threads[x] = f.threads[x]

\* g is f with c waiting for the answer of s.
BoundTo(f, g, c, s) ==
  /\ g.endpoints = f.endpoints
  /\ g.threads[c].state = ReplyBlocked(s)
  /\ g.threads[c].inbox = f.threads[c].inbox
  /\ g.threads[c].reply_target = f.threads[c].reply_target
  /\ g.threads[s].state = f.threads[s].state
  /\ g.threads[s].inbox = f.threads[s].inbox
  /\ g.threads[s].reply_target = c
  /\ \A x \in Threads \ {c, s} : g.threads[x] = f.threads[x]

\* What Bound does.
LEMMA BoundEffect ==
  ASSUME NEW f \in IpcState, NEW c \in Threads, NEW s \in Threads, c # s,
         NEW g, g = Bound(f, c, s)
  PROVE  BoundTo(f, g, c, s)
<1> DEFINE blocked == [f.threads[c] EXCEPT !.state = ReplyBlocked(s)]
           h == [f EXCEPT !.threads[c] = blocked]
           answering == [h.threads[s] EXCEPT !.reply_target = c]
<1>1. f.threads[c] \in Thread /\ ReplyBlocked(s) \in ThreadStates
  BY DEF IpcState, ThreadStates
<1>2. /\ blocked \in Thread /\ blocked.state = ReplyBlocked(s)
      /\ blocked.inbox = f.threads[c].inbox /\ blocked.reply_target = f.threads[c].reply_target
  BY <1>1 DEF Thread
<1>3. Bound(f, c, s) = [h EXCEPT !.threads[s] = answering]
  BY DEF Bound
<1> HIDE DEF blocked
<1>4. /\ h \in IpcState /\ h.endpoints = f.endpoints /\ h.threads[c] = blocked
      /\ \A x \in Threads \ {c} : h.threads[x] = f.threads[x]
  BY <1>2, Updated
<1> HIDE DEF h
<1>5. h.threads[s] \in Thread
  BY <1>4 DEF IpcState
<1>6. /\ answering \in Thread /\ answering.reply_target = c
      /\ answering.inbox = h.threads[s].inbox /\ answering.state = h.threads[s].state
  BY <1>5 DEF Thread
<1> HIDE DEF answering
<1>7. /\ g.endpoints = h.endpoints /\ g.threads[s] = answering
      /\ \A x \in Threads \ {s} : g.threads[x] = h.threads[x]
  BY <1>3, <1>4, <1>6, Updated
<1> QED
  BY <1>2, <1>4, <1>6, <1>7 DEF BoundTo

\* Thread t waits, or hands its message to r, the front of the receivers q.
SendOrCallDoes(f, g, t, e, m, kind, q, r) ==
  \/ /\ q.len = 0 /\ Waits(f, g, t, e, m)
     /\ kind = "call" => g.threads[t].is_call
     /\ kind # "call" => ~g.threads[t].is_call
  \/ /\ q.len # 0 /\ r \in Threads \ {t} /\ f.threads[r].state = Receiving(e)
     /\ kind = "call" => Handed(f, g, t, r, m, ReplyBlocked(r), t)
     /\ kind # "call" => Handed(f, g, t, r, m, Runnable, f.threads[r].reply_target)
     /\ ReceiversOnly(f, g, e, Pop(q))

\* send and call of a runnable thread: it waits with its message, or the first
\* receiver in the queue gets the message and, for a call, the right to answer.
LEMMA SendOrCallEffect ==
  ASSUME NEW f, Sound(f), NEW t \in Threads, NEW e \in Endpoints,
         NEW m \in Messages, NEW kind, f.threads[t].state = Runnable,
         NEW g, g = SendOrCall(f, t, e, m, kind).ipc,
         NEW q, q = f.endpoints[e].receivers, NEW r, r = Front(q)
  PROVE  SendOrCallDoes(f, g, t, e, m, kind, q, r)
<1> DEFINE call == kind = "call"
           T == [f.threads[t] EXCEPT !.is_call = call]
           flagged == [f EXCEPT !.threads[t] = T]
           popped == [flagged EXCEPT !.endpoints[e].receivers = Pop(q)]
           R == [popped.threads[r] EXCEPT !.inbox = m, !.state = Runnable]
           woken == [popped EXCEPT !.threads[r] = R]
           p == f.endpoints[e].senders
<1>1. f \in IpcState /\ RunnableError(f, t) = "Ok" /\ f.threads[t] \in Thread
  BY DEF Sound, RunnableError, IpcState
<1>2. /\ q \in Queue /\ Pop(q) \in Queue
      /\ r = None <=> q.len = 0
      /\ q.len = 0 => Pop(q) = q
      /\ q.len # 0 => r \in Threads \ {t} /\ f.threads[r].state = Receiving(e)
  <2> DEFINE U == InState(f, Receiving(e))
  <2>1. q \in Queue /\ U \in SUBSET Threads /\ Holds(q, U)
    BY <1>1, Parts DEF Sound, Agree
  <2>2. /\ r = None <=> q.len = 0
        /\ q.len = 0 => Pop(q) = q
        /\ q.len # 0 => r \in U
    BY <2>1, FrontOf
  <2>3. Pop(q) \in Queue
    BY <2>1, <2>2, PopEntries
  <2>4. q.len # 0 => r \in Threads \ {t} /\ f.threads[r].state = Receiving(e)
    BY <2>2, StatesDiffer DEF InState
  <2> QED
    BY <2>1, <2>2, <2>3, <2>4
<1>3. ~Full(p) /\ p \in Queue /\ Push(p, t) \in Queue
  <2> DEFINE U == InState(f, Sending(e))
  <2>1. p \in Queue /\ U \in SUBSET Threads /\ Holds(p, U)
    BY <1>1, Parts DEF Sound, Agree
  <2>2. t \notin U
    BY StatesDiffer DEF InState
  <2>3. p.len < THREADS /\ p.len \in Nat
    BY <2>1, <2>2, Room, SMTT(60) DEF Queue
  <2>4. ~Full(p)
    BY <2>3, IpcSizesAssumption, SMTT(60) DEF Full
  <2> QED
    BY <2>1, <2>3, <2>4, PushEntries
<1>4. /\ T \in Thread /\ T.is_call = call /\ T.state = Runnable
      /\ T.inbox = f.threads[t].inbox /\ T.reply_target = f.threads[t].reply_target
  <2>1. call \in BOOLEAN
    OBVIOUS
  <2> HIDE DEF call
  <2> QED
    BY <1>1, <2>1 DEF Thread
<1>5. flagged = [f EXCEPT !.threads[t].is_call = call]
  OBVIOUS
<1> HIDE DEF T
<1>6. /\ flagged \in IpcState /\ flagged.endpoints = f.endpoints
      /\ flagged.threads[t] = T
      /\ \A x \in Threads \ {t} : flagged.threads[x] = f.threads[x]
  BY <1>1, <1>4, Updated
<1>7. g = IF r = None THEN Enqueue(popped, t, e, m).ipc
          ELSE IF kind = "call" THEN Bound(woken, t, r) ELSE woken
  <2>1. popped = [flagged EXCEPT !.endpoints[e].receivers = Pop(@)]
    BY <1>6
  <2>2. woken = [popped EXCEPT !.threads[r] = [@ EXCEPT !.inbox = m,
                                                        !.state = Runnable]]
    OBVIOUS
  <2> HIDE DEF flagged, popped, woken
  <2> QED
    BY <1>1, <1>5, <2>1, <2>2 DEF SendOrCall, Result
<1> HIDE DEF call
<1> HIDE DEF flagged
<1>8. /\ popped \in IpcState /\ popped.threads = flagged.threads
      /\ ReceiversOnly(f, popped, e, Pop(q))
  BY <1>2, <1>6, ZenonT(60) DEF IpcState, Endpoint, ReceiversOnly
<1> HIDE DEF popped
<1>9. CASE q.len = 0
  <2> DEFINE B == [popped.threads[t] EXCEPT !.outgoing = m, !.state = Sending(e)]
             b == [popped EXCEPT !.threads[t] = B]
             h == [b EXCEPT !.endpoints[e].senders = Push(p, t)]
  <2>1. popped.endpoints[e].senders = p
    BY <1>8 DEF ReceiversOnly
  <2>2. g = h
    BY <1>2, <1>3, <1>7, <1>9, <2>1 DEF Enqueue, Result
  <2>3. Sending(e) \in ThreadStates
    BY DEF ThreadStates
  <2> HIDE DEF p
  <2>4. /\ B \in Thread /\ B.state = Sending(e) /\ B.outgoing = m /\ B.is_call = call
        /\ B.inbox = T.inbox /\ B.reply_target = T.reply_target
    <3>1. popped.threads[t] = T
      BY <1>6, <1>8
    <3> DEFINE D == [T EXCEPT !.outgoing = m]
    <3>2. /\ D \in Thread /\ D.outgoing = m /\ D.is_call = call
          /\ D.inbox = T.inbox /\ D.reply_target = T.reply_target
      BY <1>4 DEF Thread
    <3>3. B = [D EXCEPT !.state = Sending(e)]
      BY <3>1
    <3> HIDE DEF B, D
    <3> QED
      BY <2>3, <3>2, <3>3 DEF Thread
  <2> HIDE DEF B
  <2>5. /\ b \in IpcState /\ b.endpoints = popped.endpoints /\ b.threads[t] = B
        /\ \A x \in Threads \ {t} : b.threads[x] = popped.threads[x]
    BY <1>8, <2>4, Updated
  <2> HIDE DEF b
  <2>6. h.threads = b.threads /\ SendersOnly(b, h, e, Push(p, t))
    BY <1>3, <2>5 DEF IpcState, Endpoint, SendersOnly
  <2> HIDE DEF h
  <2>7. SendersOnly(f, g, e, Push(p, t))
    BY <1>2, <1>8, <1>9, <2>2, <2>5, <2>6, SMTT(60) DEF SendersOnly, ReceiversOnly
  <2>8. /\ g.threads[t] = B
        /\ \A x \in Threads \ {t} : g.threads[x] = f.threads[x]
    BY <1>6, <1>8, <2>2, <2>5, <2>6
  <2>9. Waits(f, g, t, e, m)
    BY <1>4, <2>4, <2>7, <2>8 DEF Waits, p
  <2>10. g.threads[t].is_call = call
    BY <2>4, <2>8
  <2>11. (kind = "call" => g.threads[t].is_call) /\ (kind # "call" => ~g.threads[t].is_call)
    BY <2>10, Zenon DEF call
  <2> QED
    BY <1>9, <2>9, <2>11, Zenon DEF SendOrCallDoes
<1>10. CASE q.len # 0
  <2>1. r \in Threads /\ r # t /\ f.threads[r].state = Receiving(e) /\ r # None
    BY <1>2, <1>10
  <2>2. popped.threads[r] = f.threads[r] /\ f.threads[r] \in Thread
        /\ Runnable \in ThreadStates
    BY <1>1, <1>6, <1>8, <2>1 DEF IpcState, ThreadStates
  <2>3. /\ R \in Thread /\ R.state = Runnable /\ R.inbox = m
        /\ R.reply_target = f.threads[r].reply_target
    <3> DEFINE D == [f.threads[r] EXCEPT !.inbox = m]
    <3>1. /\ D \in Thread /\ D.inbox = m
          /\ D.reply_target = f.threads[r].reply_target
      BY <2>2, ZenonT(60) DEF Thread
    <3>2. R = [D EXCEPT !.state = Runnable]
      BY <2>2
    <3> HIDE DEF D, R
    <3> QED
      BY <2>2, <3>1, <3>2, ZenonT(60) DEF Thread
  <2> HIDE DEF R
  <2>4. /\ woken \in IpcState /\ woken.endpoints = popped.endpoints
        /\ woken.threads[r] = R
        /\ \A x \in Threads \ {r} : woken.threads[x] = popped.threads[x]
    BY <1>8, <2>1, <2>3, Updated
  <2> HIDE DEF woken
  <2>5. /\ woken.threads[t] = T
        /\ \A x \in Threads \ {t, r} : woken.threads[x] = f.threads[x]
    BY <1>6, <1>8, <2>1, <2>4
  <2>6. CASE kind # "call"
    <3>1. g = woken
      BY <1>7, <2>1, <2>6
    <3>2. Handed(f, g, t, r, m, Runnable, f.threads[r].reply_target)
      BY <1>4, <2>3, <2>4, <2>5, <3>1, ZenonT(60) DEF Handed
    <3>3. ReceiversOnly(f, g, e, Pop(q))
      BY <1>8, <2>4, <3>1 DEF ReceiversOnly
    <3> QED
      BY <1>10, <2>1, <2>6, <3>2, <3>3, Zenon DEF SendOrCallDoes
  <2>7. CASE kind = "call"
    <3>1. g = Bound(woken, t, r)
      BY <1>7, <2>1, <2>7
    <3>2. /\ g.endpoints = woken.endpoints
          /\ g.threads[t].state = ReplyBlocked(r)
          /\ g.threads[t].inbox = woken.threads[t].inbox
          /\ g.threads[t].reply_target = woken.threads[t].reply_target
          /\ g.threads[r].state = woken.threads[r].state
          /\ g.threads[r].inbox = woken.threads[r].inbox
          /\ g.threads[r].reply_target = t
          /\ \A x \in Threads \ {t, r} : g.threads[x] = woken.threads[x]
      <4>1. BoundTo(woken, g, t, r)
        BY <2>1, <2>4, <3>1, BoundEffect, Zenon
      <4> QED
        BY <4>1, Zenon DEF BoundTo
    <3>3. Handed(f, g, t, r, m, ReplyBlocked(r), t)
      BY <1>4, <2>3, <2>4, <2>5, <3>2, SMTT(60), ZenonT(60) DEF Handed
    <3>4. ReceiversOnly(f, g, e, Pop(q))
      BY <1>8, <2>4, <3>2, SMTT(60), ZenonT(60) DEF ReceiversOnly
    <3> QED
      BY <1>10, <2>1, <2>7, <3>3, <3>4, Zenon DEF SendOrCallDoes
  <2> QED
    BY <2>6, <2>7, Zenon
<1> QED
  BY <1>9, <1>10, Zenon

\* Thread r waits, or takes the message of s, the front of the senders q.
ReceiveDoes(f, g, r, e, q, s) ==
  \/ /\ q.len = 0 /\ g.threads[r].state = Receiving(e)
     /\ g.threads[r].inbox = f.threads[r].inbox
     /\ g.threads[r].reply_target = f.threads[r].reply_target
     /\ \A x \in Threads \ {r} : g.threads[x] = f.threads[x]
     /\ ReceiversOnly(f, g, e, Push(f.endpoints[e].receivers, r))
  \/ /\ q.len # 0 /\ s \in Threads \ {r} /\ f.threads[s].state = Sending(e)
     /\ f.threads[s].is_call =>
          Handed(f, g, s, r, f.threads[s].outgoing, ReplyBlocked(r), s)
     /\ ~f.threads[s].is_call =>
          Handed(f, g, s, r, f.threads[s].outgoing, Runnable,
                 f.threads[r].reply_target)
     /\ SendersOnly(f, g, e, Pop(q))

\* receive of a runnable thread: it waits, or gets the message of the first
\* sender in the queue, which a call binds to it.
LEMMA ReceiveEffect ==
  ASSUME NEW f, Sound(f), NEW r \in Threads, NEW e \in Endpoints,
         f.threads[r].state = Runnable, NEW g, g = Receive(f, r, e).ipc,
         NEW q, q = f.endpoints[e].senders, NEW s, s = Front(q)
  PROVE  ReceiveDoes(f, g, r, e, q, s)
<1> DEFINE p == f.endpoints[e].receivers
           popped == [f EXCEPT !.endpoints[e].senders = Pop(q)]
           B == [popped.threads[r] EXCEPT !.state = Receiving(e)]
           blocked == [popped EXCEPT !.threads[r] = B]
           pushed == [blocked EXCEPT !.endpoints[e].receivers = Push(p, r)]
           R == [popped.threads[r] EXCEPT !.inbox = popped.threads[s].outgoing]
           taken == [popped EXCEPT !.threads[r] = R]
           S == [taken.threads[s] EXCEPT !.state = Runnable]
           woken == [taken EXCEPT !.threads[s] = S]
           call == f.threads[s].is_call
<1>1. f \in IpcState /\ RunnableError(f, r) = "Ok" /\ f.threads[r] \in Thread
  BY DEF Sound, RunnableError, IpcState
<1>2. /\ q \in Queue /\ Pop(q) \in Queue
      /\ s = None <=> q.len = 0
      /\ q.len = 0 => Pop(q) = q
      /\ q.len # 0 => s \in Threads \ {r} /\ f.threads[s].state = Sending(e)
  <2> DEFINE U == InState(f, Sending(e))
  <2>1. q \in Queue /\ U \in SUBSET Threads /\ Holds(q, U)
    BY <1>1, Parts DEF Sound, Agree
  <2>2. /\ s = None <=> q.len = 0
        /\ q.len = 0 => Pop(q) = q
        /\ q.len # 0 => s \in U
    BY <2>1, FrontOf
  <2>3. Pop(q) \in Queue
    BY <2>1, <2>2, PopEntries
  <2>4. q.len # 0 => s \in Threads \ {r} /\ f.threads[s].state = Sending(e)
    BY <2>2, StatesDiffer DEF InState
  <2> QED
    BY <2>1, <2>2, <2>3, <2>4
<1>3. ~Full(p) /\ p \in Queue /\ Push(p, r) \in Queue
  <2> DEFINE U == InState(f, Receiving(e))
  <2>1. p \in Queue /\ U \in SUBSET Threads /\ Holds(p, U)
    BY <1>1, Parts DEF Sound, Agree
  <2>2. r \notin U
    BY StatesDiffer DEF InState
  <2>3. p.len < THREADS /\ p.len \in Nat
    BY <2>1, <2>2, Room, SMTT(60) DEF Queue
  <2>4. ~Full(p)
    BY <2>3, IpcSizesAssumption DEF Full
  <2> QED
    BY <2>1, <2>3, <2>4, PushEntries
<1>4. g = IF s = None THEN pushed ELSE IF call THEN Bound(taken, s, r) ELSE woken
  <2> DEFINE front == Front(f.endpoints[e].senders)
             pop == [f EXCEPT !.endpoints[e].senders = Pop(@)]
             block == [pop EXCEPT !.threads[r].state = Receiving(e)]
             take == Transferred(pop, front, r)
  <2>1. g = IF RunnableError(f, r) # "Ok" THEN f
            ELSE IF e \notin Endpoints THEN f
            ELSE IF front = None /\ Full(p) THEN block
            ELSE IF front = None
                 THEN [block EXCEPT !.endpoints[e].receivers = Push(p, r)]
            ELSE IF f.threads[front].is_call THEN Bound(take, front, r)
            ELSE [take EXCEPT !.threads[front].state = Runnable]
    BY ZenonT(60) DEF Receive, Result
  <2>2. pop = popped /\ front = s
    OBVIOUS
  <2> HIDE DEF pop, popped, front
  <2>3. block = blocked /\ take = taken
    BY <2>2 DEF Transferred
  <2> HIDE DEF block, blocked, take, taken
  <2>4. [take EXCEPT !.threads[front].state = Runnable] = woken
    BY <2>2, <2>3
  <2> HIDE DEF woken
  <2> QED
    BY <1>1, <1>3, <2>1, <2>2, <2>3, <2>4, ZenonT(60)
<1>5. /\ popped \in IpcState /\ popped.threads = f.threads
      /\ SendersOnly(f, popped, e, Pop(q))
  BY <1>1, <1>2 DEF IpcState, Endpoint, SendersOnly
<1> HIDE DEF popped
<1>6. CASE q.len = 0
  <2> HIDE DEF p
  <2>1. Receiving(e) \in ThreadStates
    BY DEF ThreadStates
  <2>2. /\ B \in Thread /\ B.state = Receiving(e) /\ B.inbox = f.threads[r].inbox
        /\ B.reply_target = f.threads[r].reply_target
    BY <1>1, <1>5, <2>1 DEF Thread
  <2> HIDE DEF B
  <2>3. /\ blocked \in IpcState /\ blocked.endpoints = popped.endpoints
        /\ blocked.threads[r] = B
        /\ \A x \in Threads \ {r} : blocked.threads[x] = popped.threads[x]
    BY <1>5, <2>2, Updated
  <2> HIDE DEF blocked
  <2>4. pushed.threads = blocked.threads /\ ReceiversOnly(blocked, pushed, e, Push(p, r))
    BY <1>3, <2>3 DEF IpcState, Endpoint, ReceiversOnly
  <2> HIDE DEF pushed
  <2>5. g = pushed
    BY <1>2, <1>4, <1>6
  <2>6. ReceiversOnly(f, g, e, Push(p, r))
    BY <1>2, <1>5, <1>6, <2>3, <2>4, <2>5, SMTT(60) DEF SendersOnly, ReceiversOnly
  <2>7. g.threads[r] = B /\ \A x \in Threads \ {r} : g.threads[x] = f.threads[x]
    BY <1>5, <2>3, <2>4, <2>5
  <2> QED
    BY <1>6, <2>2, <2>6, <2>7, Zenon DEF ReceiveDoes, p
<1>7. CASE q.len # 0
  <2>1. s \in Threads /\ s # r /\ f.threads[s].state = Sending(e) /\ s # None
    BY <1>2, <1>7
  <2> DEFINE m == f.threads[s].outgoing
  <2>2. f.threads[s] \in Thread /\ m \in Messages /\ Runnable \in ThreadStates
    BY <1>1, <2>1 DEF IpcState, Thread, ThreadStates
  <2>3. /\ R \in Thread /\ R.inbox = m /\ R.state = Runnable
        /\ R.reply_target = f.threads[r].reply_target
    BY <1>1, <1>5, <2>2, ZenonT(60) DEF Thread
  <2> HIDE DEF R
  <2>4. /\ taken \in IpcState /\ taken.endpoints = popped.endpoints
        /\ taken.threads[r] = R
        /\ \A x \in Threads \ {r} : taken.threads[x] = f.threads[x]
    BY <1>5, <2>3, Updated
  <2> HIDE DEF taken
  <2>5. taken.threads[s] = f.threads[s]
    BY <2>1, <2>4
  <2> HIDE DEF m, call
  <2>6. CASE ~call
    <3>1. g = woken
      BY <1>4, <2>1, <2>6
    <3>2. /\ S \in Thread /\ S.state = Runnable /\ S.inbox = f.threads[s].inbox
          /\ S.reply_target = f.threads[s].reply_target
      BY <2>2, <2>5, ZenonT(60) DEF Thread
    <3> HIDE DEF S
    <3>3. /\ g.endpoints = taken.endpoints /\ g.threads[s] = S
          /\ \A x \in Threads \ {s} : g.threads[x] = taken.threads[x]
      BY <2>1, <2>4, <3>1, <3>2, Updated, SMTT(60)
    <3>4. Handed(f, g, s, r, m, Runnable, f.threads[r].reply_target)
      BY <2>1, <2>3, <2>4, <3>2, <3>3, ZenonT(60) DEF Handed
    <3>5. SendersOnly(f, g, e, Pop(q))
      BY <1>5, <2>4, <3>3 DEF SendersOnly
    <3> QED
      BY <1>7, <2>1, <2>6, <3>4, <3>5, Zenon DEF ReceiveDoes, m, call
  <2>7. CASE call
    <3>1. g = Bound(taken, s, r)
      BY <1>4, <2>1, <2>7
    <3>2. /\ g.endpoints = taken.endpoints
          /\ g.threads[s].state = ReplyBlocked(r)
          /\ g.threads[s].inbox = taken.threads[s].inbox
          /\ g.threads[s].reply_target = taken.threads[s].reply_target
          /\ g.threads[r].state = taken.threads[r].state
          /\ g.threads[r].inbox = taken.threads[r].inbox
          /\ g.threads[r].reply_target = s
          /\ \A x \in Threads \ {s, r} : g.threads[x] = taken.threads[x]
      <4>1. BoundTo(taken, g, s, r)
        BY <2>1, <2>4, <3>1, BoundEffect, Zenon
      <4> QED
        BY <4>1, Zenon DEF BoundTo
    <3>3. Handed(f, g, s, r, m, ReplyBlocked(r), s)
      BY <2>3, <2>4, <2>5, <3>2, ZenonT(60) DEF Handed
    <3>4. SendersOnly(f, g, e, Pop(q))
      BY <1>5, <2>4, <3>2, ZenonT(60) DEF SendersOnly
    <3> QED
      BY <1>7, <2>1, <2>7, <3>3, <3>4, Zenon DEF ReceiveDoes, m, call
  <2> QED
    BY <2>6, <2>7, Zenon
<1> QED
  BY <1>6, <1>7, Zenon

\* Thread s spends its right to reply, and its client c wakes with m.
ReplyDoes(f, g, s, m, c) ==
  /\ g.endpoints = f.endpoints
  /\ g.threads[s].reply_target = None
  /\ g.threads[s].state = Runnable
  /\ g.threads[s].inbox = f.threads[s].inbox
  /\ \/ c = None /\ \A x \in Threads \ {s} : g.threads[x] = f.threads[x]
     \/ /\ c \in Threads \ {s} /\ f.threads[c].state = ReplyBlocked(s)
        /\ g.threads[c].state = Runnable /\ g.threads[c].inbox = m
        /\ g.threads[c].reply_target = f.threads[c].reply_target
        /\ \A x \in Threads \ {s, c} : g.threads[x] = f.threads[x]

\* reply of a runnable thread: its client, if it has one, is woken with the
\* message, and the right to reply is spent.
LEMMA ReplyEffect ==
  ASSUME NEW f, Sound(f), NEW s \in Threads, NEW m \in Messages,
         f.threads[s].state = Runnable, NEW g, g = Reply(f, s, m).ipc,
         NEW c, c = f.threads[s].reply_target
  PROVE  ReplyDoes(f, g, s, m, c)
<1> DEFINE S == [f.threads[s] EXCEPT !.reply_target = None]
           dropped == [f EXCEPT !.threads[s] = S]
           W == [dropped.threads[c] EXCEPT !.inbox = m, !.state = Runnable]
           woken == [dropped EXCEPT !.threads[c] = W]
<1>1. f \in IpcState /\ RunnableError(f, s) = "Ok" /\ f.threads[s] \in Thread
  BY DEF Sound, RunnableError, IpcState
<1>2. c # None => c \in Threads \ {s} /\ f.threads[c].state = ReplyBlocked(s)
  <2>1. c \in Threads \cup {None}
    BY <1>1, Parts
  <2>2. c # None => f.threads[c].state = ReplyBlocked(s)
    BY DEF Sound, TargetsWait
  <2> QED
    BY <2>1, <2>2, StatesDiffer
<1>3. g = IF c = None THEN dropped ELSE woken
  <2>1. dropped = [f EXCEPT !.threads[s].reply_target = None]
    OBVIOUS
  <2>2. woken = [dropped EXCEPT !.threads[c] = [@ EXCEPT !.inbox = m, !.state = Runnable]]
    OBVIOUS
  <2> HIDE DEF dropped, woken
  <2> QED
    BY <1>1, <1>2, <2>1, <2>2 DEF Reply, Result
<1>4. /\ S \in Thread /\ S.reply_target = None /\ S.state = Runnable
      /\ S.inbox = f.threads[s].inbox
  BY <1>1 DEF Thread
<1> HIDE DEF S
<1>5. /\ dropped \in IpcState /\ dropped.endpoints = f.endpoints
      /\ dropped.threads[s] = S
      /\ \A x \in Threads \ {s} : dropped.threads[x] = f.threads[x]
  BY <1>1, <1>4, Updated
<1> HIDE DEF dropped
<1>6. CASE c = None
  BY <1>3, <1>4, <1>5, <1>6, ZenonT(60) DEF ReplyDoes
<1>7. CASE c # None
  <2>1. c \in Threads /\ c # s /\ f.threads[c].state = ReplyBlocked(s)
    BY <1>2, <1>7
  <2>2. dropped.threads[c] = f.threads[c] /\ f.threads[c] \in Thread
        /\ Runnable \in ThreadStates
    BY <1>1, <1>5, <2>1 DEF IpcState, ThreadStates
  <2>3. /\ W \in Thread /\ W.state = Runnable /\ W.inbox = m
        /\ W.reply_target = f.threads[c].reply_target
    <3> DEFINE D == [f.threads[c] EXCEPT !.inbox = m]
    <3>1. /\ D \in Thread /\ D.inbox = m
          /\ D.reply_target = f.threads[c].reply_target
      BY <2>2, Zenon DEF Thread
    <3>2. W = [D EXCEPT !.state = Runnable]
      BY <2>2
    <3> HIDE DEF D, W
    <3> QED
      BY <2>2, <3>1, <3>2 DEF Thread
  <2> HIDE DEF W
  <2>4. /\ g.endpoints = dropped.endpoints /\ g.threads[c] = W
        /\ \A x \in Threads \ {c} : g.threads[x] = dropped.threads[x]
    BY <1>3, <1>5, <1>7, <2>1, <2>3, Updated
  <2> QED
    BY <1>4, <1>5, <2>1, <2>3, <2>4, ZenonT(60) DEF ReplyDoes
<1> QED
  BY <1>6, <1>7, Zenon

\* take_message: the inbox is emptied.
LEMMA TakeMessageEffect ==
  ASSUME NEW f \in IpcState, NEW t \in Threads, NEW g, g = TakeMessage(f, t)
  PROVE  /\ g.endpoints = f.endpoints
         /\ g.threads[t].inbox = None
         /\ g.threads[t].state = f.threads[t].state
         /\ g.threads[t].outgoing = f.threads[t].outgoing
         /\ g.threads[t].is_call = f.threads[t].is_call
         /\ g.threads[t].reply_target = f.threads[t].reply_target
         /\ \A x \in Threads \ {t} : g.threads[x] = f.threads[x]
  BY DEF TakeMessage, IpcState, Thread

-----------------------------------------------------------------------------
(* The invariant of every behaviour. *)

\* The state RendezvousIpc::new returns is sound.
LEMMA EmptySound == Sound(EmptyIpc)
<1>1. THREADS \in Nat \ {0} /\ 0 \in Positions /\ 0 \in 0 .. THREADS
  BY IpcSizesAssumption DEF Positions
<1>2. EmptyQueue \in Queue
  BY <1>1 DEF EmptyQueue, Queue
<1>3. EmptyThread \in Thread
  BY IpcSizesAssumption DEF EmptyThread, Thread, ThreadStates
<1>4. EmptyIpc \in IpcState
  BY <1>2, <1>3 DEF EmptyIpc, IpcState, Endpoint
<1>5. Holds(EmptyQueue, {})
  <2>1. \A k \in 0 .. THREADS - 1 : EntryAt(EmptyQueue, k) = None
    <3> SUFFICES ASSUME NEW k \in 0 .. THREADS - 1
                 PROVE  EntryAt(EmptyQueue, k) = None
      OBVIOUS
    <3>1. (0 + k) % THREADS \in Positions
      BY <1>1 DEF Positions
    <3> QED
      BY <3>1 DEF EntryAt, EmptyQueue
  <2> QED
    BY <1>1, <2>1 DEF Holds, EmptyQueue
<1>6. \A t \in Threads : /\ EmptyIpc.threads[t].state = Runnable
                         /\ EmptyIpc.threads[t].reply_target = None
  BY DEF EmptyIpc, EmptyThread
<1>7. \A e \in Endpoints : /\ EmptyIpc.endpoints[e].senders = EmptyQueue
                           /\ EmptyIpc.endpoints[e].receivers = EmptyQueue
  BY DEF EmptyIpc
<1>8. \A e : InState(EmptyIpc, Sending(e)) = {} /\ InState(EmptyIpc, Receiving(e)) = {}
  BY <1>6, StatesDiffer DEF InState
<1>9. EmptyQueue.len = 0
  BY DEF EmptyQueue
<1> QED
  BY <1>4, <1>5, <1>6, <1>7, <1>8, <1>9, ZenonT(60) DEF Sound, Agree, OneSided, TargetsWait

\* Every call leaves a sound state sound, and a call other than reply leaves
\* every waiting client waiting.
LEMMA StepSound ==
  ASSUME IpcInv, Next
  PROVE  IpcInv' /\ (StillWait(ipc, ipc') \/ Answered(ipc, ipc'))
<1>1. Sound(ipc)
  BY DEF IpcInv
<1>2. ASSUME NEW t \in ThreadArgs, NEW e \in EndpointArgs, NEW m \in Messages,
             DoSend(t, e, m)
      PROVE  Sound(ipc') /\ StillWait(ipc, ipc')
  BY <1>1, <1>2, SendOrCallSound DEF DoSend, Send
<1>3. ASSUME NEW t \in ThreadArgs, NEW e \in EndpointArgs, NEW m \in Messages,
             DoCall(t, e, m)
      PROVE  Sound(ipc') /\ StillWait(ipc, ipc')
  BY <1>1, <1>3, SendOrCallSound DEF DoCall, Call
<1>4. ASSUME NEW t \in ThreadArgs, NEW e \in EndpointArgs, DoReceive(t, e)
      PROVE  Sound(ipc') /\ StillWait(ipc, ipc')
  BY <1>1, <1>4, ReceiveSound DEF DoReceive
<1>5. ASSUME NEW t \in ThreadArgs, NEW m \in Messages, DoReply(t, m)
      PROVE  Sound(ipc') /\ Answered(ipc, ipc')
  BY <1>1, <1>5, ReplySound DEF DoReply
<1>6. ASSUME NEW t \in ThreadArgs, DoTakeMessage(t)
      PROVE  Sound(ipc') /\ StillWait(ipc, ipc')
  BY <1>1, <1>6, TakeMessageSound DEF DoTakeMessage
<1> QED
  BY <1>2, <1>3, <1>4, <1>5, <1>6 DEF Next, IpcInv

\* Every state the calls of RendezvousIpc can reach is sound, for any number of
\* threads, endpoints and messages.
THEOREM IpcSound == Spec => []IpcInv
<1>1. Init => IpcInv
  BY EmptySound DEF Init, IpcInv
<1>2. IpcInv /\ [Next]_ipc => IpcInv'
  <2>1. CASE Next
    BY <2>1, StepSound
  <2>2. CASE UNCHANGED ipc
    BY <2>2 DEF IpcInv
  <2> QED
    BY <2>1, <2>2
<1> QED
  BY <1>1, <1>2, PTL DEF Spec

-----------------------------------------------------------------------------
(* The theorems. *)

\* Every field of the thread table and of the ring buffers stays in its range.
THEOREM IpcTypes == Spec => []TypeOK
<1>1. IpcInv => TypeOK
  BY DEF IpcInv, Sound, TypeOK
<1> QED
  BY <1>1, IpcSound, PTL

\* send, call and receive keep the queues and the thread states in agreement.
THEOREM QueuesAgree == Spec => []QueuedIffBlocked
<1>1. IpcInv => QueuedIffBlocked
  BY DEF IpcInv, Sound, Agree, QueuedIffBlocked
<1> QED
  BY <1>1, IpcSound, PTL

\* QueueFull is never returned: by the pigeonhole principle the ring of THREADS
\* entries has room for every thread that can still make a call.
THEOREM QueuesHaveRoom == Spec => []RoomForTheRunnable
<1>1. IpcInv => RoomForTheRunnable
  <2> SUFFICES ASSUME IpcInv, NEW t \in Threads, NEW e \in Endpoints,
                      ipc.threads[t].state = Runnable
               PROVE  /\ ~Full(ipc.endpoints[e].senders)
                      /\ ~Full(ipc.endpoints[e].receivers)
    BY DEF RoomForTheRunnable
  <2> DEFINE q == ipc.endpoints[e].senders
             p == ipc.endpoints[e].receivers
             T == InState(ipc, Sending(e))
             U == InState(ipc, Receiving(e))
  <2>1. /\ q \in Queue /\ T \in SUBSET Threads /\ Holds(q, T) /\ t \notin T
        /\ p \in Queue /\ U \in SUBSET Threads /\ Holds(p, U) /\ t \notin U
    BY Parts, StatesDiffer, Zenon DEF IpcInv, Sound, Agree, InState
  <2> HIDE DEF p, q, T, U
  <2>2. q.len < THREADS
    BY <2>1, Room
  <2>3. p.len < THREADS
    BY <2>1, Room
  <2> QED
    BY <2>1, <2>2, <2>3, IpcSizesAssumption DEF Full, Queue, p, q
<1> QED
  BY <1>1, IpcSound, PTL

\* A rendezvous is never missed: an endpoint has waiting senders or waiting
\* receivers, never both.
THEOREM RendezvousNotMissed == Spec => []NeverBothWaiting
<1>1. IpcInv => NeverBothWaiting
  BY DEF IpcInv, Sound, OneSided, NeverBothWaiting
<1> QED
  BY <1>1, IpcSound, PTL

\* The thread a server may reply to is blocked on that server's reply.
THEOREM TargetsAreWaiting == Spec => []ReplyTargetWaits
<1>1. IpcInv => ReplyTargetWaits
  BY DEF IpcInv, Sound, TargetsWait, ReplyTargetWaits
<1> QED
  BY <1>1, IpcSound, PTL

\* A blocked client is woken by one reply of its server and by no other call.
THEOREM RepliesWakeOnce == Spec => ReplyWakesOnce
<1> DEFINE A == \A c, s \in Threads :
                  /\ ipc.threads[c].state = ReplyBlocked(s)
                  /\ ipc'.threads[c].state # ReplyBlocked(s)
                  => /\ ipc.threads[s].reply_target = c
                     /\ ipc'.threads[s].reply_target = None
                     /\ ipc'.threads[c].state = Runnable
                     /\ ipc'.threads[c].inbox # None
<1>1. IpcInv /\ [Next]_ipc => [A]_ipc
  <2>1. CASE IpcInv /\ Next
    <3>1. StillWait(ipc, ipc') \/ Answered(ipc, ipc')
      BY <2>1, StepSound
    <3> QED
      BY <3>1, IpcNoneAssumption DEF StillWait, Answered
  <2> QED
    BY <2>1
<1> QED
  BY <1>1, IpcSound, PTL DEF Spec, ReplyWakesOnce

=============================================================================
