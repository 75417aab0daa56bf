---------------------------- MODULE TcpServerProofs ----------------------------
(***************************************************************************)
(* Machine-checked proofs about TcpServer, for any clients, any number of  *)
(* io threads and messages: no raw Channel pointer outlives its object,    *)
(* callbacks come in pairs, rooms hold the living, and objects are touched *)
(* by their own thread only.                                               *)
(***************************************************************************)
EXTENDS TcpServer, SequenceLemmas, FiniteSetTheorems

-----------------------------------------------------------------------------
(* What is queued, when a task is posted, run or broadcast *)

LEMMA QueuedAt ==
  ASSUME NEW queue \in Seq(Task)
  PROVE  /\ DOMAIN queue = 1..Len(queue) /\ Len(queue) \in Nat
         /\ \A i \in DOMAIN queue : queue[i] \in Task /\ queue[i] \in Queued(queue)
         /\ \A t \in Queued(queue) : t \in Task /\ \E i \in DOMAIN queue : queue[i] = t
BY LenProperties, ElementOfSeq DEF Queued

LEMMA PostedLast ==
  ASSUME NEW queue \in Seq(Task), NEW t \in Task
  PROVE  /\ Append(queue, t) \in Seq(Task)
         /\ Queued(Append(queue, t)) = Queued(queue) \cup {t}
         /\ Once(queue) /\ (t \notin Queued(queue) \/ t.op = "sendInLoop")
              => Once(Append(queue, t))
<1> DEFINE longer == Append(queue, t)
<1>1. /\ longer \in Seq(Task) /\ Len(longer) = Len(queue) + 1
      /\ \A i \in 1..Len(queue) : longer[i] = queue[i]
      /\ longer[Len(queue) + 1] = t
  BY AppendProperties
<1>2. DOMAIN queue = 1..Len(queue) /\ Len(queue) \in Nat /\ DOMAIN longer = 1..Len(queue) + 1
  BY <1>1, LenProperties
<1> HIDE DEF longer
<1>3. Queued(longer) = Queued(queue) \cup {t}
  <2>1. Queued(longer) \subseteq Queued(queue) \cup {t}
    <3> SUFFICES ASSUME NEW i \in DOMAIN longer
                 PROVE  longer[i] \in Queued(queue) \cup {t}
      BY DEF Queued
    <3>1. CASE i = Len(queue) + 1
      BY <1>1, <3>1
    <3>2. CASE i # Len(queue) + 1
      <4>1. i \in DOMAIN queue
        BY <1>2, <3>2
      <4> QED BY <1>1, <1>2, <4>1 DEF Queued
    <3> QED BY <3>1, <3>2
  <2>2. t \in Queued(longer)
    BY <1>1, <1>2 DEF Queued
  <2>3. ASSUME NEW i \in DOMAIN queue
        PROVE  queue[i] \in Queued(longer)
    BY <1>1, <1>2 DEF Queued
  <2> QED BY <2>1, <2>2, <2>3 DEF Queued
<1>4. ASSUME Once(queue), t \notin Queued(queue) \/ t.op = "sendInLoop"
      PROVE  Once(longer)
  <2> SUFFICES ASSUME NEW i \in DOMAIN longer, NEW j \in DOMAIN longer, longer[i] = longer[j],
                      longer[i].op # "sendInLoop"
               PROVE  i = j
    BY DEF Once
  <2>1. CASE i \in DOMAIN queue /\ j \in DOMAIN queue
    BY <1>1, <1>2, <1>4, <2>1 DEF Once
  <2>2. CASE i = Len(queue) + 1 /\ j = Len(queue) + 1
    BY <2>2
  <2>3. CASE i \in DOMAIN queue /\ j = Len(queue) + 1
    BY <1>1, <1>2, <1>4, <2>3 DEF Queued
  <2>4. CASE i = Len(queue) + 1 /\ j \in DOMAIN queue
    BY <1>1, <1>2, <1>4, <2>4 DEF Queued
  <2> QED BY <1>2, <2>1, <2>2, <2>3, <2>4
<1> QED BY <1>1, <1>3, <1>4 DEF longer

LEMMA RunFirst ==
  ASSUME NEW queue \in Seq(Task), queue # << >>
  PROVE  /\ Tail(queue) \in Seq(Task) /\ Head(queue) \in Queued(queue)
         /\ Queued(Tail(queue)) \subseteq Queued(queue)
         /\ Queued(queue) \subseteq Queued(Tail(queue)) \cup {Head(queue)}
         /\ Once(queue) => Once(Tail(queue))
         /\ Once(queue) /\ Head(queue).op # "sendInLoop" => Head(queue) \notin Queued(Tail(queue))
<1> DEFINE rest == Tail(queue)
<1>1. /\ rest \in Seq(Task) /\ Len(rest) = Len(queue) - 1 /\ Head(queue) = queue[1]
      /\ \A i \in 1..Len(rest) : rest[i] = queue[i + 1]
  BY HeadTailProperties
<1>2. /\ DOMAIN queue = 1..Len(queue) /\ Len(queue) \in Nat \ {0}
      /\ DOMAIN rest = 1..Len(queue) - 1
  BY <1>1, LenProperties, EmptySeq
<1> HIDE DEF rest
<1>3. Head(queue) \in Queued(queue)
  BY <1>1, <1>2 DEF Queued
<1>4. ASSUME NEW i \in DOMAIN rest
      PROVE  i + 1 \in DOMAIN queue /\ rest[i] = queue[i + 1] /\ i + 1 # 1
  BY <1>1, <1>2
<1>5. Queued(rest) \subseteq Queued(queue)
  BY <1>4 DEF Queued
<1>6. Queued(queue) \subseteq Queued(rest) \cup {Head(queue)}
  <2> SUFFICES ASSUME NEW i \in DOMAIN queue, i # 1
               PROVE  queue[i] \in Queued(rest)
    BY <1>1 DEF Queued
  <2>1. i - 1 \in DOMAIN rest /\ (i - 1) + 1 = i
    BY <1>2
  <2> QED BY <1>4, <2>1 DEF Queued
<1>7. ASSUME Once(queue)
      PROVE  /\ Once(rest)
             /\ Head(queue).op # "sendInLoop" => Head(queue) \notin Queued(rest)
  <2>1. Once(rest)
    <3> SUFFICES ASSUME NEW i \in DOMAIN rest, NEW j \in DOMAIN rest, rest[i] = rest[j],
                        rest[i].op # "sendInLoop"
                 PROVE  i = j
      BY DEF Once
    <3>1. i + 1 = j + 1
      BY <1>4, <1>7 DEF Once
    <3> QED BY <1>2, <3>1
  <2>2. ASSUME Head(queue).op # "sendInLoop", NEW i \in DOMAIN rest, rest[i] = Head(queue)
        PROVE  FALSE
    <3>1. 1 \in DOMAIN queue /\ queue[1] = queue[i + 1]
      BY <1>1, <1>2, <1>4, <2>2
    <3> QED BY <1>1, <1>4, <1>7, <2>2, <3>1 DEF Once
  <2> QED BY <2>1, <2>2 DEF Queued
<1> QED BY <1>1, <1>3, <1>5, <1>6, <1>7 DEF rest

LEMMA SentBehind ==
  ASSUME NEW queue \in Seq(Task), NEW sends \in Seq(Task),
         \A i \in DOMAIN sends : sends[i].op = "sendInLoop"
  PROVE  /\ queue \o sends \in Seq(Task)
         /\ Queued(queue \o sends) = Queued(queue) \cup Queued(sends)
         /\ Once(queue) => Once(queue \o sends)
<1> DEFINE all == queue \o sends
<1>1. /\ all \in Seq(Task) /\ Len(all) = Len(queue) + Len(sends)
      /\ \A i \in 1..Len(queue) + Len(sends) :
            all[i] = IF i <= Len(queue) THEN queue[i] ELSE sends[i - Len(queue)]
  BY ConcatProperties
<1>2. /\ DOMAIN queue = 1..Len(queue) /\ Len(queue) \in Nat
      /\ DOMAIN sends = 1..Len(sends) /\ Len(sends) \in Nat
      /\ DOMAIN all = 1..Len(queue) + Len(sends)
  BY <1>1, LenProperties
<1> HIDE DEF all
<1>3. ASSUME NEW i \in DOMAIN all
      PROVE  \/ i \in DOMAIN queue /\ all[i] = queue[i]
             \/ i - Len(queue) \in DOMAIN sends /\ all[i] = sends[i - Len(queue)]
  BY <1>1, <1>2
<1>4. ASSUME NEW i \in DOMAIN queue
      PROVE  i \in DOMAIN all /\ all[i] = queue[i]
  BY <1>1, <1>2
<1>5. ASSUME NEW i \in DOMAIN sends
      PROVE  Len(queue) + i \in DOMAIN all /\ all[Len(queue) + i] = sends[i]
  <2>1. /\ Len(queue) + i \in 1..Len(queue) + Len(sends) /\ ~(Len(queue) + i <= Len(queue))
        /\ (Len(queue) + i) - Len(queue) = i
    BY <1>2
  <2> QED BY <1>1, <1>2, <2>1
<1>6. Queued(all) = Queued(queue) \cup Queued(sends)
  <2>1. Queued(all) \subseteq Queued(queue) \cup Queued(sends)
    BY <1>3 DEF Queued
  <2>2. Queued(queue) \subseteq Queued(all)
    BY <1>4 DEF Queued
  <2>3. Queued(sends) \subseteq Queued(all)
    BY <1>5 DEF Queued
  <2> QED BY <2>1, <2>2, <2>3
<1>7. ASSUME Once(queue)
      PROVE  Once(all)
  <2> SUFFICES ASSUME NEW i \in DOMAIN all, NEW j \in DOMAIN all, all[i] = all[j],
                      all[i].op # "sendInLoop"
               PROVE  i = j
    BY DEF Once
  <2>1. i \in DOMAIN queue /\ all[i] = queue[i] /\ j \in DOMAIN queue /\ all[j] = queue[j]
    BY <1>3
  <2> QED BY <1>7, <2>1 DEF Once
<1> QED BY <1>1, <1>6, <1>7 DEF all

-----------------------------------------------------------------------------
(* The queues of all loops *)

Queues == [Loops -> Seq(Task)]

Joined(f, p) == [l \in Loops |-> f[l] \o p[l]]

WithoutFirst(queue, l) == [queue EXCEPT ![l] = Tail(@)]

WithSends(p, sends) == [l \in Loops |-> p[l] \o sends[l]]

Ops == {"connectEstablished", "erase", "connectDestroyed", "sendInLoop"}

LEMMA TaskMade ==
  ASSUME NEW c \in Conns, NEW op \in Ops
  PROVE  [op |-> op, conn |-> c] \in Task
BY DEF Task, Ops

LEMMA JoinedTyped ==
  ASSUME NEW f \in Queues, NEW p \in Queues
  PROVE  Joined(f, p) \in Queues
<1> SUFFICES ASSUME NEW l \in Loops
             PROVE  f[l] \o p[l] \in Seq(Task)
  BY DEF Joined, Queues
<1> QED BY ConcatProperties DEF Queues

(* queueInLoop puts a task behind all others. *)
LEMMA JoinPost ==
  ASSUME NEW f \in Queues, NEW p \in Queues, NEW l \in Loops, NEW c \in Conns, NEW op \in Ops
  PROVE  Post(p, l, op, c) \in Queues /\ Joined(f, Post(p, l, op, c)) = Post(Joined(f, p), l, op, c)
<1> DEFINE t == [op |-> op, conn |-> c]
<1>1. t \in Task
  BY TaskMade
<1> HIDE DEF t
<1>2. ASSUME NEW s \in Seq(Task), NEW q \in Seq(Task)
      PROVE  s \o Append(q, t) = Append(s \o q, t)
  <2>1. <<t>> \in Seq(Task) /\ s \o q \in Seq(Task)
    BY <1>1, ConcatProperties
  <2> QED BY <1>1, <2>1, AppendIsConcat, ConcatAssociative
<1>3. Post(p, l, op, c) = [p EXCEPT ![l] = Append(@, t)]
  BY DEF Post, t
<1>4. Post(Joined(f, p), l, op, c) = [k \in Loops |-> IF k = l THEN Append(f[k] \o p[k], t)
                                                             ELSE f[k] \o p[k]]
  BY DEF Post, Joined, t
<1>5. Post(p, l, op, c) = [k \in Loops |-> IF k = l THEN Append(p[k], t) ELSE p[k]]
  BY <1>3 DEF Queues
<1>6. Append(p[l], t) \in Seq(Task)
  BY <1>1, AppendProperties DEF Queues
<1>7. Post(p, l, op, c) \in Queues
  BY <1>5, <1>6 DEF Queues
<1>8. f[l] \o Append(p[l], t) = Append(f[l] \o p[l], t)
  BY <1>2 DEF Queues
<1> QED BY <1>4, <1>5, <1>7, <1>8 DEF Joined

(* A functor that runs was the first of them. *)
LEMMA JoinRun ==
  ASSUME NEW f \in Queues, NEW p \in Queues, NEW l \in Loops, f[l] # << >>
  PROVE  /\ WithoutFirst(f, l) \in Queues
         /\ Joined(WithoutFirst(f, l), p) = WithoutFirst(Joined(f, p), l)
         /\ Joined(f, p)[l] # << >> /\ Head(Joined(f, p)[l]) = Head(f[l])
<1> DEFINE q == f[l]
           r == p[l]
<1>1. q \in Seq(Task) /\ r \in Seq(Task) /\ q # << >>
  BY DEF Queues
<1> HIDE DEF q, r
<1>2. Tail(q) \in Seq(Task) /\ Len(q) \in Nat \ {0} /\ Len(r) \in Nat
  BY <1>1, HeadTailProperties, EmptySeq, LenProperties
<1>3. /\ q \o r \in Seq(Task) /\ Len(q \o r) = Len(q) + Len(r)
      /\ \A i \in 1..Len(q) + Len(r) : (q \o r)[i] = IF i <= Len(q) THEN q[i] ELSE r[i - Len(q)]
  BY <1>1, ConcatProperties
<1>4. q \o r # << >> /\ Head(q \o r) = Head(q)
  <2>1. Len(q \o r) # 0 /\ 1 \in 1..Len(q) + Len(r) /\ 1 <= Len(q)
    BY <1>2, <1>3
  <2>2. q \o r # << >>
    BY <2>1, EmptySeq
  <2> QED BY <1>1, <1>3, <2>1, <2>2, HeadTailProperties
<1>5. Tail(q) \o r = Tail(q \o r)
  <2>1. /\ Tail(q \o r) \in Seq(Task) /\ Len(Tail(q \o r)) = Len(q) + Len(r) - 1
        /\ \A i \in 1..Len(q) + Len(r) - 1 : Tail(q \o r)[i] = (q \o r)[i + 1]
    BY <1>3, <1>4, HeadTailProperties
  <2>2. /\ Len(Tail(q)) = Len(q) - 1
        /\ \A i \in 1..Len(q) - 1 : Tail(q)[i] = q[i + 1]
    BY <1>1, HeadTailProperties
  <2>3. /\ Tail(q) \o r \in Seq(Task) /\ Len(Tail(q) \o r) = Len(q) - 1 + Len(r)
        /\ \A i \in 1..Len(q) - 1 + Len(r) :
             (Tail(q) \o r)[i] = IF i <= Len(q) - 1 THEN Tail(q)[i] ELSE r[i - (Len(q) - 1)]
    BY <1>1, <1>2, <2>2, ConcatProperties
  <2>4. Len(q) - 1 + Len(r) = Len(q) + Len(r) - 1
    BY <1>2
  <2>5. ASSUME NEW i \in 1..Len(q) + Len(r) - 1
        PROVE  (Tail(q) \o r)[i] = Tail(q \o r)[i]
    <3>1. i + 1 \in 1..Len(q) + Len(r) /\ (i + 1) - Len(q) = i - (Len(q) - 1)
      BY <1>2
    <3>2. CASE i <= Len(q) - 1
      <4>1. i \in 1..Len(q) - 1 /\ i + 1 <= Len(q)
        BY <1>2, <3>2
      <4> QED BY <1>3, <2>1, <2>2, <2>3, <2>4, <3>1, <3>2, <4>1
    <3>3. CASE ~(i <= Len(q) - 1)
      <4>1. ~(i + 1 <= Len(q))
        BY <1>2, <3>3
      <4> QED BY <1>3, <2>1, <2>3, <2>4, <3>1, <3>3, <4>1
    <3> QED BY <3>2, <3>3
  <2> QED BY <2>1, <2>3, <2>4, <2>5, SeqEqual
<1>6. WithoutFirst(f, l) = [k \in Loops |-> IF k = l THEN Tail(q) ELSE f[k]]
  BY DEF Queues, WithoutFirst, q
<1>7. WithoutFirst(Joined(f, p), l)
        = [k \in Loops |-> IF k = l THEN Tail(q \o r) ELSE f[k] \o p[k]]
  BY DEF Joined, WithoutFirst, q, r
<1>8. Joined(WithoutFirst(f, l), p)
        = [k \in Loops |-> IF k = l THEN Tail(q) \o r ELSE f[k] \o p[k]]
  BY <1>6 DEF Joined, r
<1>9. Joined(f, p)[l] = q \o r
  BY DEF Joined, q, r
<1>10. WithoutFirst(f, l) \in Queues
  BY <1>2, <1>6 DEF Queues
<1>11. Head(q) = Head(f[l])
  BY DEF q
<1> QED BY <1>4, <1>5, <1>7, <1>8, <1>9, <1>10, <1>11

(* doPendingFunctors swaps: nothing is lost, nothing overtakes. *)
LEMMA JoinSwap ==
  ASSUME NEW f \in Queues, NEW p \in Queues, NEW l \in Loops, f[l] = << >>
  PROVE  /\ [f EXCEPT ![l] = p[l]] \in Queues /\ [p EXCEPT ![l] = << >>] \in Queues
         /\ Joined([f EXCEPT ![l] = p[l]], [p EXCEPT ![l] = << >>]) = Joined(f, p)
<1>1. p[l] \in Seq(Task) /\ << >> \in Seq(Task)
  BY EmptySeq DEF Queues
<1>2. p[l] \o << >> = << >> \o p[l]
  BY <1>1, ConcatEmptySeq
<1>3. [f EXCEPT ![l] = p[l]] \in Queues /\ [p EXCEPT ![l] = << >>] \in Queues
  BY <1>1 DEF Queues
<1> QED BY <1>2, <1>3 DEF Joined, Queues

(* A broadcast posts to all loops at once. *)
LEMMA JoinSent ==
  ASSUME NEW f \in Queues, NEW p \in Queues, NEW sends \in Queues
  PROVE  /\ WithSends(p, sends) \in Queues
         /\ \A k \in Loops : Joined(f, WithSends(p, sends))[k] = Joined(f, p)[k] \o sends[k]
<1>1. ASSUME NEW k \in Loops
      PROVE  /\ p[k] \o sends[k] \in Seq(Task)
             /\ f[k] \o (p[k] \o sends[k]) = (f[k] \o p[k]) \o sends[k]
  BY ConcatProperties, ConcatAssociative DEF Queues
<1> QED BY <1>1 DEF Joined, Queues, WithSends

LEMMA TasksJoined == tasks = Joined(functors, pending) /\ tasks' = Joined(functors', pending')
BY DEF tasks, Joined

-----------------------------------------------------------------------------
(* The invariant, in parts *)

LEMMA TypedQueues ==
  ASSUME ServerTypeOK
  PROVE  functors \in Queues /\ pending \in Queues /\ tasks \in Queues
<1>1. functors \in Queues /\ pending \in Queues
  BY DEF ServerTypeOK, Queues
<1> QED BY <1>1, JoinedTyped, TasksJoined

(* All that a step of one connection leaves alone. *)
OnlyOf(c) ==
  \A d \in Conns \ {c} :
    /\ state_'[d] = state_[d] /\ loopOf'[d] = loopOf[d]
    /\ index_'[d] = index_[d] /\ view'[d] = view[d] /\ peer'[d] = peer[d]
    /\ d \in connections_' <=> d \in connections_

LEMMA OtherTasksFit ==
  ASSUME NEW c \in Conns, OnlyOf(c), NEW l \in Loops, NEW t \in Task, t.conn # c, TaskFits(l, t)
  PROVE  TaskFits(l, t)'
<1>1. t.conn \in Conns \ {c}
  BY DEF Task
<1> QED BY <1>1 DEF OnlyOf, TaskFits

LEMMA OthersLive ==
  ASSUME NEW c \in Conns, OnlyOf(c), \A d \in Conns : LifeOf(d), LifeOf(c)'
  PROVE  \A d \in Conns : LifeOf(d)'
<1> SUFFICES ASSUME NEW d \in Conns, d # c
             PROVE  LifeOf(d)'
  OBVIOUS
<1> QED BY DEF OnlyOf, LifeOf

(* Steps that leave queues, states and the table alone. *)
LEMMA SameTasks ==
  ASSUME TasksFit, TasksOnce, UNCHANGED <<functors, pending, loopOf, state_, connections_>>
  PROVE  TasksFit' /\ TasksOnce'
BY DEF TasksFit, TasksOnce, TaskFits, tasks

LEMMA SameLives ==
  ASSUME \A c \in Conns : LifeOf(c), UNCHANGED <<state_, connections_, peer, index_, view>>
  PROVE  \A c \in Conns : LifeOf(c)'
BY DEF LifeOf

(* A task put behind others that still fit, and not a second of its kind.   *)
LEMMA PostFits ==
  ASSUME NEW q \in Queues, NEW k \in Loops, NEW c \in Conns, NEW op \in Ops,
         tasks' = Post(q, k, op, c), TaskFits(k, [op |-> op, conn |-> c])',
         [op |-> op, conn |-> c] \notin Queued(q[k]),
         \A j \in Loops : Once(q[j]) /\ \A t \in Queued(q[j]) : TaskFits(j, t)'
  PROVE  TasksFit' /\ TasksOnce'
<1> DEFINE new == [op |-> op, conn |-> c]
<1>1. new \in Task /\ new \notin Queued(q[k]) /\ TaskFits(k, new)'
  BY TaskMade
<1>2. q[k] \in Seq(Task) /\ tasks' = [q EXCEPT ![k] = Append(@, new)]
  BY DEF Queues, Post
<1> HIDE DEF new
<1>3. ASSUME NEW j \in Loops
      PROVE  /\ Queued(tasks'[j]) \subseteq Queued(q[j]) \cup (IF j = k THEN {new} ELSE {})
             /\ Once(tasks'[j])
  <2>1. CASE j = k
    <3>1. tasks'[j] = Append(q[k], new)
      BY <1>2, <2>1 DEF Queues
    <3> QED BY <1>1, <1>2, <2>1, <3>1, PostedLast
  <2>2. CASE j # k
    BY <1>2, <2>2 DEF Queues
  <2> QED BY <2>1, <2>2
<1>4. ASSUME NEW j \in Loops, NEW t \in Queued(tasks'[j])
      PROVE  TaskFits(j, t)'
  <2>1. CASE t \in Queued(q[j])
    BY <2>1
  <2>2. CASE j = k /\ t = new
    BY <1>1, <2>2
  <2> QED BY <1>3, <2>1, <2>2
<1> QED BY <1>3, <1>4 DEF TasksFit, TasksOnce

(* A connection that is handled is up, and its own loop handles it. *)
LEMMA HandledIsUp ==
  ASSUME ServerIInv, NEW l \in Loops, NEW c \in Conns, Handling(l, c)
  PROVE  /\ phase[l] = "events" /\ loopOf[c] = l /\ state_[c] \in {"kConnected", "kDisconnecting"}
         /\ c \in connections_ /\ index_[c] = "kAdded" /\ view[c] = "up"
         /\ active' = [active EXCEPT ![l] = @ \ {c}] /\ c \in active[l]
<1>1. c \in active[l] /\ c # Listen
  BY ListenAssumption DEF Handling
<1>2. loopOf[c] = l
  BY <1>1 DEF ServerIInv, ServerTypeOK
<1>3. state_[c] \in {"kConnected", "kDisconnecting"}
  BY <1>1 DEF ServerIInv, Rounds
<1> QED BY <1>1, <1>2, <1>3 DEF ServerIInv, LifeOf, Handling

-----------------------------------------------------------------------------
(* Clients and the start *)

LEMMA startLoopKeeps ==
  ASSUME ServerIInv, startLoop
  PROVE  ServerIInv'
<1> USE DEF startLoop, client, conn, app, loopVars
<1>1. ~listening /\ loops_ \in Nat /\ threadNum_ \in Nat
  BY ThreadNumAssumption DEF ServerIInv, PoolFirst, ServerTypeOK
<1>2. PoolFirst'
  BY <1>1 DEF ServerIInv, PoolFirst, ServerTypeOK
<1>3. ServerTypeOK'
  <2>1. loops_' \in 0..threadNum_ /\ loopOf' \in [Conns -> 0..loops_']
    BY <1>1, ThreadNumAssumption DEF ServerIInv, ServerTypeOK
  <2> QED BY <2>1 DEF ServerIInv, ServerTypeOK
<1>4. Rounds' /\ IsFiniteSet(rooms') /\ RoomsHoldTheLiving'
  BY DEF ServerIInv, Rounds, RoomsHoldTheLiving
<1> QED BY <1>2, <1>3, <1>4, SameTasks, SameLives DEF ServerIInv

LEMMA listenKeeps ==
  ASSUME ServerIInv, listen
  PROVE  ServerIInv'
<1> USE DEF listen, client, conn, app, loopVars
<1>1. PoolFirst'
  BY DEF ServerIInv, PoolFirst
<1>2. ServerTypeOK'
  BY DEF ServerIInv, ServerTypeOK
<1>3. Rounds' /\ IsFiniteSet(rooms') /\ RoomsHoldTheLiving'
  BY DEF ServerIInv, Rounds, RoomsHoldTheLiving
<1> QED BY <1>1, <1>2, <1>3, SameTasks, SameLives DEF ServerIInv

LEMMA clientsKeep ==
  ASSUME ServerIInv, NEW c \in Conns, connect(c) \/ close(c)
  PROVE  ServerIInv'
<1> USE DEF connect, close, pool, started, conn, app, loopVars
<1>1. /\ UNCHANGED <<unread, connections_, threadNum_, loops_, listening, next_, loopOf, state_,
                     index_, rooms, view, phase, active, pending, functors, held>>
      /\ \E end \in {"connected", "closed"} : peer' = [peer EXCEPT ![c] = end]
      /\ listening \/ peer[c] # "away"
  BY DEF ServerIInv, ServerTypeOK
<1>2. listening
  BY <1>1 DEF ServerIInv, PoolFirst
<1>3. ServerTypeOK'
  BY <1>1 DEF ServerIInv, ServerTypeOK
<1>4. PoolFirst' /\ Rounds' /\ IsFiniteSet(rooms') /\ RoomsHoldTheLiving'
  BY <1>1, <1>2 DEF ServerIInv, PoolFirst, Rounds, RoomsHoldTheLiving
<1>5. \A d \in Conns : LifeOf(d)'
  <2>1. \A d \in Conns : peer'[d] = "away" => peer[d] = "away"
    BY <1>1 DEF ServerIInv, ServerTypeOK
  <2> QED BY <1>1, <2>1 DEF ServerIInv, LifeOf
<1> QED BY <1>1, <1>3, <1>4, <1>5, SameTasks DEF ServerIInv

-----------------------------------------------------------------------------
(* A loop's round *)

LEMMA pollKeeps ==
  ASSUME ServerIInv, NEW l \in Loops, poll(l)
  PROVE  ServerIInv'
<1>1. /\ UNCHANGED <<peer, unread, connections_, threadNum_, loops_, listening, next_, loopOf, state_,
                     index_, rooms, view, pending, functors, held>>
      /\ phase[l] = "poll" /\ phase' = [phase EXCEPT ![l] = "events"]
  BY DEF poll, client, pool, started, conn, app
<1>2. PICK ready : /\ ready \subseteq {Listen} \cup {c \in Conns : loopOf[c] = l /\ Registered(c)}
                   /\ active' = [active EXCEPT ![l] = ready]
  BY DEF poll
<1>3. ASSUME NEW c \in Conns, Registered(c)
      PROVE  state_[c] \in {"kConnected", "kDisconnecting"}
  BY <1>3 DEF ServerIInv, ServerTypeOK, States, LifeOf, Registered
<1>4. ServerTypeOK'
  <2>1. phase' \in [Loops -> {"poll", "events", "functors"}]
    BY <1>1 DEF ServerIInv, ServerTypeOK
  <2>2. DOMAIN active' = Loops
    BY <1>2 DEF ServerIInv, ServerTypeOK
  <2>3. \A k \in Loops : active'[k] \subseteq {Listen} \cup {c \in Conns : loopOf[c] = k}
    BY <1>2 DEF ServerIInv, ServerTypeOK
  <2> QED BY <1>1, <2>1, <2>2, <2>3 DEF ServerIInv, ServerTypeOK
<1>5. Rounds'
  <2>1. \A k \in Loops : \A c \in active'[k] \ {Listen} : state_[c] \in {"kConnected", "kDisconnecting"}
    BY <1>2, <1>3 DEF ServerIInv, ServerTypeOK, Rounds
  <2>2. functors[l] = << >>
    BY <1>1 DEF ServerIInv, Rounds
  <2>3. ASSUME NEW k \in Loops
        PROVE  /\ active'[k] # {} => phase'[k] = "events"
               /\ functors[k] # << >> => phase'[k] = "functors"
    BY <1>1, <1>2, <2>2 DEF ServerIInv, ServerTypeOK, Rounds
  <2> QED BY <1>1, <2>1, <2>3 DEF Rounds
<1>6. PoolFirst' /\ IsFiniteSet(rooms') /\ RoomsHoldTheLiving'
  BY <1>1 DEF ServerIInv, PoolFirst, RoomsHoldTheLiving
<1> QED BY <1>1, <1>4, <1>5, <1>6, SameTasks, SameLives DEF ServerIInv

LEMMA AcceptFailsKeeps ==
  ASSUME ServerIInv, AcceptFails
  PROVE  ServerIInv'
<1>1. /\ UNCHANGED <<peer, unread, connections_, threadNum_, loops_, listening, next_, loopOf, state_,
                     index_, rooms, view, pending, functors, held, phase>>
      /\ active' = [active EXCEPT ![Base] = @ \ {Listen}]
  BY DEF AcceptFails, client, pool, started, conn, app
<1>2. \A k \in Loops : active'[k] \subseteq active[k]
  BY <1>1 DEF ServerIInv, ServerTypeOK
<1>3. ServerTypeOK'
  BY <1>1, <1>2 DEF ServerIInv, ServerTypeOK
<1>4. Rounds'
  BY <1>1, <1>2 DEF ServerIInv, Rounds
<1>5. PoolFirst' /\ IsFiniteSet(rooms') /\ RoomsHoldTheLiving'
  BY <1>1 DEF ServerIInv, PoolFirst, RoomsHoldTheLiving
<1> QED BY <1>1, <1>3, <1>4, <1>5, SameTasks, SameLives DEF ServerIInv

LEMMA doPendingFunctorsKeeps ==
  ASSUME ServerIInv, NEW l \in Loops, doPendingFunctors(l)
  PROVE  ServerIInv'
<1>1. /\ UNCHANGED <<peer, unread, connections_, threadNum_, loops_, listening, next_, loopOf, state_,
                     index_, rooms, view, active, held>>
      /\ phase[l] = "events" /\ active[l] = {} /\ phase' = [phase EXCEPT ![l] = "functors"]
      /\ functors' = [functors EXCEPT ![l] = pending[l]]
      /\ pending' = [pending EXCEPT ![l] = << >>]
  BY DEF doPendingFunctors, client, pool, started, conn, app
<1>2. functors[l] = << >>
  BY <1>1 DEF ServerIInv, Rounds
<1>3. functors' \in Queues /\ pending' \in Queues /\ tasks' = tasks
  <2>1. functors \in Queues /\ pending \in Queues
    BY TypedQueues DEF ServerIInv
  <2> QED BY <1>1, <1>2, <2>1, JoinSwap, TasksJoined
<1>4. ServerTypeOK'
  BY <1>1, <1>3 DEF ServerIInv, ServerTypeOK, Queues
<1>5. Rounds'
  BY <1>1 DEF ServerIInv, ServerTypeOK, Rounds
<1>6. TasksFit' /\ TasksOnce'
  BY <1>1, <1>3 DEF ServerIInv, TasksFit, TasksOnce, TaskFits
<1>7. PoolFirst' /\ IsFiniteSet(rooms') /\ RoomsHoldTheLiving'
  BY <1>1 DEF ServerIInv, PoolFirst, RoomsHoldTheLiving
<1> QED BY <1>1, <1>4, <1>5, <1>6, <1>7, SameLives DEF ServerIInv

LEMMA FunctorsDoneKeeps ==
  ASSUME ServerIInv, NEW l \in Loops, FunctorsDone(l)
  PROVE  ServerIInv'
<1>1. /\ UNCHANGED <<peer, unread, connections_, threadNum_, loops_, listening, next_, loopOf, state_,
                     index_, rooms, view, active, pending, functors>>
      /\ phase[l] = "functors" /\ functors[l] = << >> /\ phase' = [phase EXCEPT ![l] = "poll"]
      /\ held' = [held EXCEPT ![l] = {}]
  BY DEF FunctorsDone, client, pool, started, conn, app
<1>2. active[l] = {}
  BY <1>1 DEF ServerIInv, Rounds
<1>3. ServerTypeOK'
  BY <1>1 DEF ServerIInv, ServerTypeOK
<1>4. Rounds'
  BY <1>1, <1>2 DEF ServerIInv, ServerTypeOK, Rounds
<1>5. PoolFirst' /\ IsFiniteSet(rooms') /\ RoomsHoldTheLiving'
  BY <1>1 DEF ServerIInv, PoolFirst, RoomsHoldTheLiving
<1> QED BY <1>1, <1>3, <1>4, <1>5, SameTasks, SameLives DEF ServerIInv

-----------------------------------------------------------------------------
(* A channel is handled *)

LEMMA quitKeeps ==
  ASSUME ServerIInv, NEW l \in Loops, NEW c \in Conns, quit(l, c)
  PROVE  ServerIInv'
<1>1. /\ UNCHANGED <<peer, connections_, threadNum_, loops_, listening, next_, loopOf,
                     index_, view, pending, functors, held, phase, rooms>>
      /\ Handling(l, c) /\ unread[c] > 0 /\ unread' = [unread EXCEPT ![c] = @ - 1]
      /\ state_' = [state_ EXCEPT ![c] = IF @ = "kConnected" THEN "kDisconnecting" ELSE @]
  BY DEF quit, handleReadLine, pool, started
<1>2. /\ active' = [active EXCEPT ![l] = @ \ {c}]
      /\ state_[c] \in {"kConnected", "kDisconnecting"}
      /\ c \in connections_ /\ index_[c] = "kAdded" /\ view[c] = "up"
  BY <1>1, HandledIsUp
<1>3. \A k \in Loops : active'[k] \subseteq active[k]
  BY <1>2 DEF ServerIInv, ServerTypeOK
<1>4. unread' \in [Conns -> 0..MaxMessages]
  BY <1>1, MessagesAssumption DEF ServerIInv, ServerTypeOK
<1>5. state_' \in [Conns -> States] /\ state_'[c] = "kDisconnecting" /\ OnlyOf(c)
  BY <1>1, <1>2 DEF ServerIInv, ServerTypeOK, States, OnlyOf
<1>6. ServerTypeOK'
  <2>1. \A d \in Conns : state_'[d] # "unborn" => state_[d] # "unborn"
    BY <1>2, <1>5 DEF OnlyOf
  <2> QED BY <1>1, <1>2, <1>3, <1>4, <1>5, <2>1 DEF ServerIInv, ServerTypeOK
<1>7. Rounds'
  BY <1>1, <1>3, <1>5 DEF ServerIInv, ServerTypeOK, Rounds, OnlyOf
<1>8. \A d \in Conns : LifeOf(d)'
  <2>1. peer[c] # "away"
    BY <1>2 DEF ServerIInv, LifeOf
  <2>2. LifeOf(c)'
    BY <1>1, <1>2, <1>5, <2>1 DEF LifeOf
  <2> QED BY <1>5, <2>2, OthersLive DEF ServerIInv
<1>9. TasksFit' /\ TasksOnce'
  <2>1. tasks' = tasks
    BY <1>1 DEF tasks
  <2>2. ASSUME NEW k \in Loops, NEW t \in Queued(tasks[k])
        PROVE  TaskFits(k, t)'
    <3>1. t \in Task /\ TaskFits(k, t)
      BY <2>2, TypedQueues, QueuedAt DEF ServerIInv, TasksFit, Queues
    <3>2. CASE t.conn = c
      BY <1>1, <1>2, <1>5, <3>1, <3>2 DEF TaskFits
    <3> QED BY <1>5, <3>1, <3>2, OtherTasksFit
  <2> QED BY <2>1, <2>2 DEF ServerIInv, TasksFit, TasksOnce
<1>10. PoolFirst' /\ RoomsHoldTheLiving' /\ IsFiniteSet(rooms')
  BY <1>1 DEF ServerIInv, PoolFirst, RoomsHoldTheLiving
<1> QED BY <1>6, <1>7, <1>8, <1>9, <1>10 DEF ServerIInv

LEMMA FunctionIsSeq ==
  ASSUME NEW S, NEW n \in Nat, NEW f \in [1..n -> S]
  PROVE  f \in Seq(S)
BY SeqDef

(* What a broadcast posts: sends, to members on other loops. *)
LEMMA MembersSentTo ==
  ASSUME ServerIInv, NEW l \in Loops, NEW room \in SUBSET Conns, IsFiniteSet(room),
         sendToMembers(l, room)
  PROVE  \E sends \in Queues :
           /\ pending' = [k \in Loops |-> pending[k] \o sends[k]]
           /\ \A k \in Loops : \A i \in DOMAIN sends[k] :
                /\ sends[k][i].op = "sendInLoop" /\ sends[k][i].conn \in room
                /\ sends[k][i].conn \in Conns /\ loopOf[sends[k][i].conn] = k
                /\ state_[sends[k][i].conn] = "kConnected"
<1> DEFINE members == {d \in room : state_[d] = "kConnected"}
           on(k) == {d \in members : loopOf[d] = k /\ k # l}
           post(order) == [i \in DOMAIN order |-> [op |-> "sendInLoop", conn |-> order[i]]]
<1>1. PICK order \in [Loops -> UNION {SetToSeqs(on(k)) : k \in Loops}] :
        /\ \A k \in Loops : order[k] \in SetToSeqs(on(k))
        /\ pending' = [k \in Loops |-> pending[k] \o post(order[k])]
  BY Zenon DEF sendToMembers
<1>2. ASSUME NEW k \in Loops
      PROVE  /\ post(order[k]) \in Seq(Task)
             /\ \A i \in DOMAIN post(order[k]) :
                  post(order[k])[i].op = "sendInLoop" /\ post(order[k])[i].conn \in on(k)
  <2>1. IsFiniteSet(on(k)) /\ on(k) \subseteq Conns
    BY FS_Subset
  <2>2. Cardinality(on(k)) \in Nat
    BY <2>1, FS_CardinalityType
  <2>3. order[k] \in [1..Cardinality(on(k)) -> on(k)]
    BY <1>1 DEF SetToSeqs
  <2>4. post(order[k]) \in [1..Cardinality(on(k)) -> Task]
    BY <2>1, <2>3 DEF Task
  <2>5. post(order[k]) \in Seq(Task)
    BY <2>2, <2>4, FunctionIsSeq
  <2> QED BY <2>3, <2>5
<1> DEFINE sends == [k \in Loops |-> post(order[k])]
<1>3. sends \in Queues /\ \A k \in Loops : sends[k] = post(order[k])
  BY <1>2 DEF Queues
<1>4. pending' = [k \in Loops |-> pending[k] \o sends[k]]
  BY <1>1, <1>3
<1>5. \A k \in Loops : on(k) \subseteq Conns
  OBVIOUS
<1>6. ASSUME NEW k \in Loops, NEW i \in DOMAIN sends[k]
      PROVE  /\ sends[k][i].op = "sendInLoop" /\ sends[k][i].conn \in room
             /\ sends[k][i].conn \in Conns /\ loopOf[sends[k][i].conn] = k
             /\ state_[sends[k][i].conn] = "kConnected"
  <2>1. i \in DOMAIN post(order[k]) /\ sends[k][i] = post(order[k])[i]
    BY <1>3
  <2>2. sends[k][i].op = "sendInLoop" /\ sends[k][i].conn \in on(k)
    BY <1>2, <2>1
  <2> QED BY <1>5, <2>2
<1> HIDE DEF sends
<1> QED BY <1>3, <1>4, <1>6

(* Only members that are registered already change their interest. *)
LEMMA SendersStayAdded ==
  ASSUME ServerIInv, NEW l \in Loops, NEW room, sendToMembers(l, room)
  PROVE  index_' = index_
<1>1. PICK blocked \in SUBSET {d \in room : state_[d] = "kConnected"} :
        index_' = [d \in Conns |-> IF d \in blocked THEN updateChannel(index_[d], TRUE)
                                                   ELSE index_[d]]
  BY DEF sendToMembers
<1>2. \A d \in Conns : d \in blocked => index_[d] = "kAdded"
  BY <1>1 DEF ServerIInv, LifeOf
<1>3. index_' = [d \in Conns |-> index_[d]]
  BY <1>1, <1>2 DEF updateChannel
<1> QED BY <1>3 DEF ServerIInv, ServerTypeOK

(* What "/join" and a spoken line have in common: the room in which the     *)
(* line is heard. *)
LEMMA LineHeard ==
  ASSUME ServerIInv, NEW l \in Loops, NEW c \in Conns, join(l, c) \/ broadcast(l, c)
  PROVE  /\ handleReadLine(l, c) /\ state_' = state_ /\ sendToMembers(l, rooms')
         /\ rooms' \in SUBSET Conns /\ IsFiniteSet(rooms')
         /\ rooms' = rooms \/ rooms' = rooms \cup {c}
<1>1. handleReadLine(l, c) /\ state_' = state_ /\ (rooms' = rooms \/ rooms' = rooms \cup {c})
  BY DEF join, broadcast
<1>2. sendToMembers(l, rooms')
  <2>1. CASE join(l, c)
    BY <2>1 DEF join
  <2>2. CASE broadcast(l, c)
    <3>1. rooms' = rooms /\ sendToMembers(l, rooms)
      BY <2>2 DEF broadcast
    <3> QED BY <3>1
  <2> QED BY <2>1, <2>2
<1>3. rooms' \in SUBSET Conns /\ IsFiniteSet(rooms')
  <2>1. rooms \in SUBSET Conns /\ IsFiniteSet(rooms) /\ IsFiniteSet(rooms \cup {c})
    BY FS_AddElement DEF ServerIInv, ServerTypeOK
  <2> QED BY <1>1, <2>1
<1> QED BY <1>1, <1>2, <1>3

LEMMA LineKeeps ==
  ASSUME ServerIInv, NEW l \in Loops, NEW c \in Conns, join(l, c) \/ broadcast(l, c)
  PROVE  ServerIInv'
<1>1. /\ UNCHANGED <<peer, connections_, threadNum_, loops_, listening, next_, loopOf, state_,
                     view, functors, held, phase>>
      /\ Handling(l, c) /\ unread[c] > 0 /\ unread' = [unread EXCEPT ![c] = @ - 1]
  BY LineHeard DEF handleReadLine, pool, started
<1>2. active' = [active EXCEPT ![l] = @ \ {c}] /\ view[c] = "up"
  BY <1>1, HandledIsUp
<1>3. \A k \in Loops : active'[k] \subseteq active[k]
  BY <1>2 DEF ServerIInv, ServerTypeOK
<1>4. unread' \in [Conns -> 0..MaxMessages]
  BY <1>1, MessagesAssumption DEF ServerIInv, ServerTypeOK
<1>5. PICK sends \in Queues :
           /\ pending' = [k \in Loops |-> pending[k] \o sends[k]]
           /\ \A k \in Loops : \A i \in DOMAIN sends[k] :
                /\ sends[k][i].op = "sendInLoop" /\ sends[k][i].conn \in rooms'
                /\ sends[k][i].conn \in Conns /\ loopOf[sends[k][i].conn] = k
                /\ state_[sends[k][i].conn] = "kConnected"
  BY LineHeard, MembersSentTo
<1>6. index_' = index_
  BY LineHeard, SendersStayAdded
<1>7. /\ pending' \in Queues /\ tasks' \in Queues /\ tasks \in Queues
      /\ \A k \in Loops : tasks'[k] = tasks[k] \o sends[k]
  <2>1. functors \in Queues /\ pending \in Queues /\ tasks \in Queues
    BY TypedQueues DEF ServerIInv
  <2>2. /\ pending' \in Queues
        /\ \A k \in Loops : Joined(functors, pending')[k] = Joined(functors, pending)[k] \o sends[k]
    <3>1. pending' = WithSends(pending, sends)
      BY <1>5 DEF WithSends
    <3>2. /\ WithSends(pending, sends) \in Queues
          /\ \A k \in Loops : Joined(functors, WithSends(pending, sends))[k]
                                = Joined(functors, pending)[k] \o sends[k]
      BY <2>1, JoinSent
    <3> QED BY <3>1, <3>2
  <2>3. tasks = Joined(functors, pending) /\ tasks' = Joined(functors, pending')
    BY <1>1, TasksJoined
  <2> QED BY <2>1, <2>2, <2>3, JoinedTyped
<1>8. ServerTypeOK'
  BY LineHeard, <1>1, <1>2, <1>3, <1>4, <1>6, <1>7 DEF ServerIInv, ServerTypeOK, Queues
<1>9. Rounds'
  BY <1>1, <1>3 DEF ServerIInv, Rounds
<1>10. ASSUME NEW k \in Loops
       PROVE  Once(tasks'[k]) /\ \A t \in Queued(tasks'[k]) : TaskFits(k, t)'
  <2>1. tasks[k] \in Seq(Task) /\ sends[k] \in Seq(Task)
    BY <1>7 DEF Queues
  <2>2. /\ Queued(tasks'[k]) = Queued(tasks[k]) \cup Queued(sends[k])
        /\ Once(tasks[k]) => Once(tasks'[k])
    <3>1. \A i \in DOMAIN sends[k] : sends[k][i].op = "sendInLoop"
      BY <1>5
    <3>2. tasks'[k] = tasks[k] \o sends[k]
      BY <1>7
    <3> QED BY <2>1, <3>1, <3>2, SentBehind
  <2>3. \A t \in Task : TaskFits(k, t) => TaskFits(k, t)'
    BY <1>1 DEF TaskFits
  <2>4. \A t \in Queued(tasks[k]) : TaskFits(k, t)'
    BY <2>1, <2>3, QueuedAt DEF ServerIInv, TasksFit
  <2>5. \A t \in Queued(sends[k]) : TaskFits(k, t)'
    BY <1>1, <1>5 DEF Queued, TaskFits
  <2> QED BY <2>2, <2>4, <2>5 DEF ServerIInv, TasksOnce
<1>11. TasksFit' /\ TasksOnce'
  BY <1>10 DEF TasksFit, TasksOnce
<1>12. PoolFirst' /\ RoomsHoldTheLiving' /\ IsFiniteSet(rooms')
  BY LineHeard, <1>1, <1>2 DEF ServerIInv, PoolFirst, RoomsHoldTheLiving
<1> QED BY <1>1, <1>6, <1>8, <1>9, <1>11, <1>12, SameLives DEF ServerIInv

(* The end-of-file of a client: the one place a connection closes. *)
LEMMA handleReadEofKeeps ==
  ASSUME ServerIInv, NEW l \in Loops, NEW c \in Conns, handleReadEof(l, c)
  PROVE  ServerIInv'
<1>1. /\ UNCHANGED <<peer, unread, threadNum_, loops_, listening, next_, loopOf, phase, functors, held>>
      /\ Handling(l, c) /\ peer[c] = "closed"
      /\ state_' = [state_ EXCEPT ![c] = "kDisconnected"]
      /\ index_' = [index_ EXCEPT ![c] = updateChannel(@, FALSE)]
      /\ ToldDown(c) /\ rooms' = rooms \ {c} /\ removeConnection(l, c)
  BY DEF handleReadEof, handleClose, onDisconnected, client, pool, started
<1>2. /\ active' = [active EXCEPT ![l] = @ \ {c}] /\ loopOf[c] = l
      /\ state_[c] \in {"kConnected", "kDisconnecting"}
      /\ c \in connections_ /\ index_[c] = "kAdded" /\ view[c] = "up"
  BY <1>1, HandledIsUp
<1>3. \A k \in Loops : active'[k] \subseteq active[k]
  BY <1>2 DEF ServerIInv, ServerTypeOK
<1>4. /\ view' = [view EXCEPT ![c] = "down"] /\ index_' = [index_ EXCEPT ![c] = "kDeleted"]
  BY <1>1, <1>2 DEF ToldDown, updateChannel
<1>5. PICK k \in Loops, op \in {"erase", "connectDestroyed"} :
        /\ pending' = Post(pending, k, op, c)
        /\ op = "erase" => k = Base /\ connections_' = connections_
        /\ op = "connectDestroyed" => k = loopOf[c] /\ connections_' = connections_ \ {c}
  <2>1. Base \in Loops /\ loopOf[c] \in Loops
    BY <1>2, ThreadNumAssumption DEF Base, Loops
  <2> QED BY <1>1, <2>1 DEF removeConnection, erase
<1>6. /\ state_' \in [Conns -> States] /\ state_'[c] = "kDisconnected"
      /\ index_' \in [Conns -> {"kNew", "kAdded", "kDeleted"}] /\ index_'[c] = "kDeleted"
      /\ view' \in [Conns -> {"none", "up", "down", "misordered"}] /\ view'[c] = "down"
      /\ OnlyOf(c)
  <2>1. /\ state_ \in [Conns -> States] /\ index_ \in [Conns -> {"kNew", "kAdded", "kDeleted"}]
        /\ view \in [Conns -> {"none", "up", "down", "misordered"}]
    BY DEF ServerIInv, ServerTypeOK
  <2>2. /\ state_' \in [Conns -> States] /\ state_'[c] = "kDisconnected"
        /\ \A d \in Conns \ {c} : state_'[d] = state_[d]
    BY <1>1, <2>1 DEF States
  <2>3. /\ index_' \in [Conns -> {"kNew", "kAdded", "kDeleted"}] /\ index_'[c] = "kDeleted"
        /\ view' \in [Conns -> {"none", "up", "down", "misordered"}] /\ view'[c] = "down"
        /\ \A d \in Conns \ {c} : index_'[d] = index_[d] /\ view'[d] = view[d]
    BY <1>4, <2>1
  <2>4. \A d \in Conns \ {c} : d \in connections_' <=> d \in connections_
    BY <1>5
  <2> QED BY <1>1, <2>2, <2>3, <2>4 DEF OnlyOf
<1>7. functors \in Queues /\ pending \in Queues /\ tasks \in Queues /\ op \in Ops
  BY TypedQueues DEF ServerIInv, Ops
<1>8. pending' \in Queues /\ tasks' = Post(tasks, k, op, c)
  BY <1>1, <1>5, <1>7, JoinPost, TasksJoined
<1>9. ServerTypeOK'
  <2>1. \A d \in Conns : state_'[d] # "unborn" => state_[d] # "unborn"
    BY <1>2, <1>6 DEF OnlyOf
  <2>2. connections_' \subseteq Conns /\ rooms' \subseteq Conns
    BY <1>1, <1>5 DEF ServerIInv, ServerTypeOK
  <2> QED BY <1>1, <1>2, <1>3, <1>6, <1>8, <2>1, <2>2 DEF ServerIInv, ServerTypeOK, Queues
<1>10. Rounds'
  <2>1. ASSUME NEW j \in Loops, NEW d \in active'[j] \ {Listen}
        PROVE  state_'[d] \in {"kConnected", "kDisconnecting"}
    <3>1. d \in Conns /\ d \in active[j] /\ loopOf[d] = j
      BY <1>3 DEF ServerIInv, ServerTypeOK
    <3>2. d # c
      BY <1>2, <3>1 DEF ServerIInv, ServerTypeOK
    <3> QED BY <1>6, <3>1, <3>2 DEF ServerIInv, Rounds, OnlyOf
  <2> QED BY <1>1, <1>3, <2>1 DEF ServerIInv, Rounds
<1>11. \A d \in Conns : LifeOf(d)'
  <2>1. LifeOf(c)'
    BY <1>1, <1>6 DEF LifeOf
  <2> QED BY <1>6, <2>1, OthersLive DEF ServerIInv
<1> DEFINE new == [op |-> op, conn |-> c]
<1>12. ASSUME NEW j \in Loops, NEW t \in Queued(tasks[j])
       PROVE  TaskFits(j, t)' /\ t # new
  <2>1. t \in Task /\ TaskFits(j, t)
    BY <1>7, QueuedAt DEF ServerIInv, TasksFit, Queues
  <2>2. CASE t.conn = c
    BY <1>1, <1>2, <1>6, <2>1, <2>2 DEF TaskFits
  <2> QED BY <1>6, <2>1, <2>2, OtherTasksFit
<1>13. TaskFits(k, new)'
  BY <1>1, <1>2, <1>5, <1>6 DEF TaskFits
<1>14. TasksFit' /\ TasksOnce'
  BY <1>7, <1>8, <1>12, <1>13, PostFits DEF ServerIInv, TasksOnce
<1>15. IsFiniteSet(rooms')
  BY <1>1, FS_Subset DEF ServerIInv
<1>16. PoolFirst' /\ RoomsHoldTheLiving'
  BY <1>1, <1>6 DEF ServerIInv, ServerTypeOK, PoolFirst, RoomsHoldTheLiving, OnlyOf
<1> QED BY <1>9, <1>10, <1>11, <1>14, <1>15, <1>16 DEF ServerIInv

-----------------------------------------------------------------------------
(* A functor runs *)

(* What is left to run is as it was, without the one that runs. *)
LEMMA RunningTakes ==
  ASSUME ServerIInv, NEW l \in Loops, NEW c \in Conns, NEW op \in Ops, Running(l, op, c)
  PROVE  LET run == [op |-> op, conn |-> c]
             ran == WithoutFirst(tasks, l)
         IN /\ functors' \in Queues /\ ran \in Queues /\ Joined(functors', pending) = ran
            /\ run \in Task /\ TaskFits(l, run) /\ phase[l] = "functors"
            /\ \A k \in Loops : /\ Once(ran[k]) /\ Queued(ran[k]) \subseteq Queued(tasks[k])
                                /\ \A t \in Queued(ran[k]) : t \in Task /\ TaskFits(k, t)
            /\ op # "sendInLoop" => run \notin Queued(ran[l])
<1> DEFINE run == [op |-> op, conn |-> c]
           ran == WithoutFirst(tasks, l)
<1>1. functors \in Queues /\ pending \in Queues /\ tasks \in Queues
  BY TypedQueues DEF ServerIInv
<1>2. /\ functors[l] # << >> /\ Head(functors[l]) = run /\ phase[l] = "functors"
      /\ functors' = WithoutFirst(functors, l)
  BY DEF Running, WithoutFirst
<1>3. tasks[l] # << >> /\ Head(tasks[l]) = run /\ functors' \in Queues /\ Joined(functors', pending) = ran
  BY <1>1, <1>2, JoinRun, TasksJoined
<1>4. tasks[l] \in Seq(Task)
  BY <1>1 DEF Queues
<1>5. /\ Tail(tasks[l]) \in Seq(Task) /\ run \in Queued(tasks[l])
      /\ Queued(Tail(tasks[l])) \subseteq Queued(tasks[l])
      /\ Once(Tail(tasks[l]))
      /\ run.op # "sendInLoop" => run \notin Queued(Tail(tasks[l]))
  <2>1. Once(tasks[l])
    BY DEF ServerIInv, TasksOnce
  <2> HIDE DEF run
  <2> QED BY <1>3, <1>4, <2>1, RunFirst
<1>6. /\ ran \in Queues /\ ran[l] = Tail(tasks[l])
      /\ \A k \in Loops : k # l => ran[k] = tasks[k]
  BY <1>1, <1>5 DEF Queues, WithoutFirst
<1> HIDE DEF ran
<1>7. \A k \in Loops : Queued(ran[k]) \subseteq Queued(tasks[k]) /\ Once(ran[k])
  BY <1>5, <1>6 DEF ServerIInv, TasksOnce
<1>8. \A k \in Loops : \A t \in Queued(tasks[k]) : t \in Task /\ TaskFits(k, t)
  BY <1>1, QueuedAt DEF ServerIInv, TasksFit, Queues
<1>9. op # "sendInLoop" => run \notin Queued(ran[l])
  BY <1>5, <1>6
<1>10. run \in Task /\ TaskFits(l, run)
  BY <1>5, <1>8
<1> QED BY <1>2, <1>3, <1>6, <1>7, <1>8, <1>9, <1>10 DEF ran

LEMMA RunSendInLoopKeeps ==
  ASSUME ServerIInv, NEW l \in Loops, NEW c \in Conns, RunSendInLoop(l, c)
  PROVE  ServerIInv'
<1>1. /\ UNCHANGED <<peer, unread, threadNum_, loops_, listening, next_, loopOf, phase, active,
                     connections_, state_, rooms, view, pending>>
      /\ Running(l, "sendInLoop", c) /\ sendInLoop(c)
      /\ functors' = [functors EXCEPT ![l] = Tail(@)] /\ held' = [held EXCEPT ![l] = @ \cup {c}]
  BY DEF RunSendInLoop, Running, client, pool, started, app
<1>2. index_' = index_
  <2>1. CASE state_[c] = "kConnected" /\ index_' = [index_ EXCEPT ![c] = updateChannel(@, TRUE)]
    <3>1. index_[c] = "kAdded"
      BY <2>1 DEF ServerIInv, LifeOf
    <3> QED BY <2>1, <3>1 DEF updateChannel, ServerIInv, ServerTypeOK
  <2> QED BY <1>1, <2>1 DEF sendInLoop
<1>3. "sendInLoop" \in Ops
  BY DEF Ops
<1> DEFINE ran == WithoutFirst(tasks, l)
<1>4. /\ functors' \in Queues /\ tasks' = ran /\ phase[l] = "functors"
      /\ \A k \in Loops : Once(ran[k]) /\ \A t \in Queued(ran[k]) : t \in Task /\ TaskFits(k, t)
  BY <1>1, <1>3, RunningTakes, TasksJoined
<1> HIDE DEF ran
<1>5. ServerTypeOK'
  BY <1>1, <1>2, <1>4 DEF ServerIInv, ServerTypeOK, Queues
<1>6. Rounds'
  BY <1>1, <1>4 DEF ServerIInv, ServerTypeOK, Rounds
<1>7. TasksFit' /\ TasksOnce'
  BY <1>1, <1>4 DEF TasksFit, TasksOnce, TaskFits
<1>8. PoolFirst' /\ IsFiniteSet(rooms') /\ RoomsHoldTheLiving'
  BY <1>1 DEF ServerIInv, PoolFirst, RoomsHoldTheLiving
<1> QED BY <1>1, <1>2, <1>5, <1>6, <1>7, <1>8, SameLives DEF ServerIInv

LEMMA RunConnectDestroyedKeeps ==
  ASSUME ServerIInv, NEW l \in Loops, NEW c \in Conns, RunConnectDestroyed(l, c)
  PROVE  ServerIInv'
<1>1. /\ UNCHANGED <<peer, unread, threadNum_, loops_, listening, next_, loopOf, phase, active,
                     connections_, pending>>
      /\ Running(l, "connectDestroyed", c) /\ connectDestroyed(c)
      /\ functors' = [functors EXCEPT ![l] = Tail(@)] /\ held' = [held EXCEPT ![l] = @ \cup {c}]
  BY DEF RunConnectDestroyed, Running, client, pool, started
<1>2. "connectDestroyed" \in Ops
  BY DEF Ops
<1> DEFINE run == [op |-> "connectDestroyed", conn |-> c]
           ran == WithoutFirst(tasks, l)
<1>3. /\ functors' \in Queues /\ tasks' = ran /\ phase[l] = "functors" /\ TaskFits(l, run)
      /\ \A k \in Loops : Once(ran[k]) /\ \A t \in Queued(ran[k]) : t \in Task /\ TaskFits(k, t)
  BY <1>1, <1>2, RunningTakes, TasksJoined
<1>4. state_[c] = "kDisconnected" /\ view[c] = "down"
  BY <1>3 DEF ServerIInv, TaskFits, LifeOf
<1>5. UNCHANGED <<state_, rooms, view>> /\ index_' = [index_ EXCEPT ![c] = "kNew"]
  BY <1>1, <1>4 DEF connectDestroyed, app
<1> HIDE DEF ran, run
<1>6. index_' \in [Conns -> {"kNew", "kAdded", "kDeleted"}] /\ index_'[c] = "kNew" /\ OnlyOf(c)
  BY <1>1, <1>5 DEF ServerIInv, ServerTypeOK, OnlyOf
<1>7. ServerTypeOK'
  BY <1>1, <1>3, <1>5, <1>6 DEF ServerIInv, ServerTypeOK, Queues
<1>8. Rounds'
  BY <1>1, <1>3, <1>5 DEF ServerIInv, ServerTypeOK, Rounds
<1>9. TasksFit' /\ TasksOnce'
  BY <1>1, <1>3, <1>5 DEF TasksFit, TasksOnce, TaskFits
<1>10. \A d \in Conns : LifeOf(d)'
  <2>1. LifeOf(c)'
    BY <1>1, <1>4, <1>5, <1>6 DEF ServerIInv, LifeOf
  <2> QED BY <1>6, <2>1, OthersLive DEF ServerIInv
<1>11. PoolFirst' /\ IsFiniteSet(rooms') /\ RoomsHoldTheLiving'
  BY <1>1, <1>5 DEF ServerIInv, PoolFirst, RoomsHoldTheLiving
<1> QED BY <1>7, <1>8, <1>9, <1>10, <1>11 DEF ServerIInv

(* The base loop forgets the connection and has its own loop destroy it. *)
LEMMA RunEraseKeeps ==
  ASSUME ServerIInv, NEW l \in Loops, NEW c \in Conns, RunErase(l, c)
  PROVE  ServerIInv'
<1>1. /\ UNCHANGED <<peer, unread, threadNum_, loops_, listening, next_, loopOf, phase, active,
                     state_, index_, rooms, view>>
      /\ Running(l, "erase", c)
      /\ connections_' = connections_ \ {c}
      /\ pending' = Post(pending, loopOf[c], "connectDestroyed", c)
      /\ functors' = [functors EXCEPT ![l] = Tail(@)] /\ held' = [held EXCEPT ![l] = @ \cup {c}]
  BY DEF RunErase, Running, erase, client, pool, started, app
<1>2. "erase" \in Ops /\ "connectDestroyed" \in Ops
  BY DEF Ops
<1> DEFINE run == [op |-> "erase", conn |-> c]
           ran == WithoutFirst(tasks, l)
           next == [op |-> "connectDestroyed", conn |-> c]
<1>3. /\ functors' \in Queues /\ ran \in Queues /\ Joined(functors', pending) = ran
      /\ TaskFits(l, run) /\ phase[l] = "functors" /\ run \notin Queued(ran[l])
      /\ \A k \in Loops : Once(ran[k]) /\ \A t \in Queued(ran[k]) : t \in Task /\ TaskFits(k, t)
  BY <1>1, <1>2, RunningTakes
<1>4. l = Base /\ state_[c] = "kDisconnected" /\ c \in connections_
  BY <1>3 DEF TaskFits
<1>5. PICK home \in Loops : home = loopOf[c]
  <2>1. loopOf[c] \in 0..loops_ /\ loops_ \in 0..threadNum_ /\ threadNum_ \in 0..MaxThreads
    BY DEF ServerIInv, ServerTypeOK
  <2> QED BY <2>1, ThreadNumAssumption DEF Loops
<1>6. pending' \in Queues /\ tasks' = Post(ran, home, "connectDestroyed", c)
  <2>1. pending \in Queues
    BY TypedQueues DEF ServerIInv
  <2> QED BY <1>1, <1>2, <1>3, <1>5, <2>1, JoinPost, TasksJoined
<1> HIDE DEF ran
<1>7. OnlyOf(c)
  BY <1>1 DEF OnlyOf
<1>8. ServerTypeOK'
  <2>1. held' \in [Loops -> SUBSET Conns] /\ connections_' \subseteq Conns
    BY <1>1 DEF ServerIInv, ServerTypeOK
  <2> HIDE DEF run, next
  <2> QED BY <1>1, <1>3, <1>6, <2>1 DEF ServerIInv, ServerTypeOK, Queues
<1>9. Rounds'
  BY <1>1, <1>3 DEF ServerIInv, ServerTypeOK, Rounds
<1>10. \A d \in Conns : LifeOf(d)'
  <2>1. LifeOf(c)'
    BY <1>1, <1>4 DEF ServerIInv, LifeOf
  <2> QED BY <1>7, <2>1, OthersLive DEF ServerIInv
<1>11. ASSUME NEW k \in Loops, NEW t \in Queued(ran[k])
       PROVE  TaskFits(k, t)' /\ t # next
  <2>1. t \in Task /\ TaskFits(k, t)
    BY <1>3
  <2>2. CASE t.conn = c
    <3>1. t.op # "erase"
      <4>1. SUFFICES ASSUME t.op = "erase" PROVE FALSE
        OBVIOUS
      <4>2. t = run
        BY <2>1, <2>2, <4>1 DEF Task
      <4>3. k = l
        BY <1>4, <2>1, <4>1 DEF TaskFits
      <4> QED BY <1>3, <4>2, <4>3
    <3> QED BY <1>1, <1>4, <2>1, <2>2, <3>1 DEF TaskFits
  <2> QED BY <1>7, <2>1, <2>2, OtherTasksFit
<1>12. TaskFits(home, next)'
  BY <1>1, <1>4, <1>5 DEF TaskFits
<1>13. TasksFit' /\ TasksOnce'
  BY <1>2, <1>3, <1>6, <1>11, <1>12, PostFits
<1>14. PoolFirst' /\ IsFiniteSet(rooms') /\ RoomsHoldTheLiving'
  BY <1>1 DEF ServerIInv, PoolFirst, RoomsHoldTheLiving
<1> QED BY <1>8, <1>9, <1>10, <1>13, <1>14 DEF ServerIInv

LEMMA RunConnectEstablishedKeeps ==
  ASSUME ServerIInv, NEW l \in Loops, NEW c \in Conns, RunConnectEstablished(l, c)
  PROVE  ServerIInv'
<1>1. /\ UNCHANGED <<peer, unread, threadNum_, loops_, listening, next_, loopOf, phase, active,
                     connections_, rooms, pending>>
      /\ Running(l, "connectEstablished", c)
      /\ state_' = [state_ EXCEPT ![c] = "kConnected"]
      /\ index_' = [index_ EXCEPT ![c] = updateChannel(@, TRUE)] /\ ToldUp(c)
      /\ functors' = [functors EXCEPT ![l] = Tail(@)] /\ held' = [held EXCEPT ![l] = @ \cup {c}]
  BY DEF RunConnectEstablished, Running, connectEstablished, client, pool, started
<1>2. "connectEstablished" \in Ops
  BY DEF Ops
<1> DEFINE run == [op |-> "connectEstablished", conn |-> c]
           ran == WithoutFirst(tasks, l)
<1>3. /\ functors' \in Queues /\ tasks' = ran
      /\ TaskFits(l, run) /\ phase[l] = "functors" /\ run \notin Queued(ran[l])
      /\ \A k \in Loops : Once(ran[k]) /\ \A t \in Queued(ran[k]) : t \in Task /\ TaskFits(k, t)
  BY <1>1, <1>2, RunningTakes, TasksJoined
<1>4. l = loopOf[c] /\ state_[c] = "kConnecting"
  BY <1>3 DEF TaskFits
<1>5. view[c] = "none" /\ index_[c] = "kNew" /\ c \in connections_ /\ peer[c] # "away"
  BY <1>4 DEF ServerIInv, LifeOf
<1>6. index_' = [index_ EXCEPT ![c] = "kAdded"] /\ view' = [view EXCEPT ![c] = "up"]
  BY <1>1, <1>5 DEF ToldUp, updateChannel
<1> HIDE DEF ran
<1>7. /\ state_' \in [Conns -> States] /\ state_'[c] = "kConnected"
      /\ index_' \in [Conns -> {"kNew", "kAdded", "kDeleted"}] /\ index_'[c] = "kAdded"
      /\ view' \in [Conns -> {"none", "up", "down", "misordered"}] /\ view'[c] = "up"
      /\ OnlyOf(c)
  <2>1. /\ state_ \in [Conns -> States] /\ index_ \in [Conns -> {"kNew", "kAdded", "kDeleted"}]
        /\ view \in [Conns -> {"none", "up", "down", "misordered"}]
    BY DEF ServerIInv, ServerTypeOK
  <2>2. /\ state_' \in [Conns -> States] /\ state_'[c] = "kConnected"
        /\ \A d \in Conns \ {c} : state_'[d] = state_[d]
    BY <1>1, <2>1 DEF States
  <2>3. /\ index_' \in [Conns -> {"kNew", "kAdded", "kDeleted"}] /\ index_'[c] = "kAdded"
        /\ view' \in [Conns -> {"none", "up", "down", "misordered"}] /\ view'[c] = "up"
        /\ \A d \in Conns \ {c} : index_'[d] = index_[d] /\ view'[d] = view[d]
    BY <1>6, <2>1
  <2> QED BY <1>1, <2>2, <2>3 DEF OnlyOf
<1>8. ServerTypeOK'
  <2>1. \A d \in Conns : state_'[d] # "unborn" => state_[d] # "unborn"
    BY <1>4, <1>7 DEF OnlyOf
  <2>2. \A d \in Conns : state_'[d] # "unborn" => (loopOf[d] = Base <=> threadNum_ = 0)
    BY <2>1 DEF ServerIInv, ServerTypeOK
  <2>3. held' \in [Loops -> SUBSET Conns]
    BY <1>1 DEF ServerIInv, ServerTypeOK
  <2> HIDE DEF run
  <2> QED BY <1>1, <1>3, <1>7, <2>2, <2>3 DEF ServerIInv, ServerTypeOK, Queues
<1>9. Rounds'
  BY <1>1, <1>3, <1>7 DEF ServerIInv, ServerTypeOK, Rounds, OnlyOf
<1>10. \A d \in Conns : LifeOf(d)'
  <2>1. LifeOf(c)'
    BY <1>1, <1>5, <1>7 DEF LifeOf
  <2> QED BY <1>7, <2>1, OthersLive DEF ServerIInv
<1>11. ASSUME NEW k \in Loops, NEW t \in Queued(ran[k])
       PROVE  TaskFits(k, t)'
  <2>1. t \in Task /\ TaskFits(k, t)
    BY <1>3
  <2>2. t.conn # c
    <3>1. SUFFICES ASSUME t.conn = c PROVE FALSE
      OBVIOUS
    <3>2. t.op = "connectEstablished" /\ k = l
      BY <1>4, <2>1, <3>1 DEF TaskFits, Task
    <3>3. t = run
      BY <2>1, <3>1, <3>2 DEF Task
    <3> QED BY <1>3, <3>2, <3>3
  <2> QED BY <1>7, <2>1, <2>2, OtherTasksFit
<1>12. TasksFit' /\ TasksOnce'
  BY <1>3, <1>11 DEF TasksFit, TasksOnce
<1>13. PoolFirst' /\ IsFiniteSet(rooms') /\ RoomsHoldTheLiving'
  BY <1>1, <1>7 DEF ServerIInv, ServerTypeOK, PoolFirst, RoomsHoldTheLiving, OnlyOf
<1> QED BY <1>8, <1>9, <1>10, <1>12, <1>13 DEF ServerIInv
-----------------------------------------------------------------------------
(* A client is let in *)

(* The loop it gets is one that runs, and the cursor stays among them.      *)
LEMMA NextLoopRuns ==
  ASSUME ServerIInv, listening
  PROVE  /\ loops_ \in Nat /\ loops_ = threadNum_ /\ getNextLoop \in 0..loops_ /\ getNextLoop \in Loops
         /\ getNextLoop = Base <=> threadNum_ = 0
         /\ cursor \in Nat /\ (cursor = 0 \/ cursor < loops_)
<1>1. /\ threadNum_ \in 0..MaxThreads /\ loops_ = threadNum_ /\ next_ \in Nat
      /\ next_ = 0 \/ next_ < loops_
  BY DEF ServerIInv, ServerTypeOK, PoolFirst
<1>2. loops_ \in Nat /\ loops_ <= MaxThreads
  BY <1>1, ThreadNumAssumption
<1>3. CASE loops_ = 0
  <2>1. getNextLoop = Base /\ cursor = next_
    BY <1>3 DEF getNextLoop, cursor
  <2> QED BY <1>1, <1>2, <1>3, <2>1, ThreadNumAssumption DEF Base, Loops
<1>4. CASE loops_ # 0
  <2>1. getNextLoop = next_ + 1 /\ cursor = (next_ + 1) % loops_ /\ next_ < loops_
    BY <1>1, <1>2, <1>4 DEF getNextLoop, cursor
  <2>2. cursor \in 0..loops_ - 1
    BY <1>1, <1>2, <1>4, <2>1
  <2>3. getNextLoop \in 1..loops_
    BY <1>1, <1>2, <2>1
  <2> QED BY <1>1, <1>2, <1>4, <2>2, <2>3, ThreadNumAssumption DEF Base, Loops
<1> QED BY <1>3, <1>4

LEMMA newConnectionKeeps ==
  ASSUME ServerIInv, NEW c \in Conns, newConnection(c)
  PROVE  ServerIInv'
<1>1. /\ UNCHANGED <<peer, unread, threadNum_, loops_, listening, rooms, phase, active, functors, held>>
      /\ phase[Base] = "events" /\ connections_' = connections_ \cup {c} /\ next_' = cursor
      /\ loopOf' = [loopOf EXCEPT ![c] = getNextLoop]
      /\ peer[c] # "away" /\ state_[c] = "unborn"
  BY DEF newConnection, backlog, insert, client, started
<1>2. listening
  BY <1>1 DEF ServerIInv, PoolFirst
<1>3. PICK home \in Loops : home = getNextLoop
  BY <1>2, NextLoopRuns
<1>4. /\ loops_ = threadNum_ /\ home \in 0..loops_ /\ (home = Base <=> threadNum_ = 0)
      /\ cursor \in Nat /\ (cursor = 0 \/ cursor < loops_)
  BY <1>2, <1>3, NextLoopRuns
<1>5. c \notin connections_ /\ index_[c] = "kNew" /\ view[c] = "none" /\ c \notin rooms
  BY <1>1 DEF ServerIInv, LifeOf, RoomsHoldTheLiving
<1>6. PICK born \in {"kConnecting", "kConnected"} :
        /\ state_' = [state_ EXCEPT ![c] = born]
        /\ born = "kConnected" => /\ index_' = [index_ EXCEPT ![c] = "kAdded"]
                                  /\ view' = [view EXCEPT ![c] = "up"]
                                  /\ pending' = pending
        /\ born = "kConnecting" => /\ UNCHANGED <<index_, view>>
                                   /\ pending' = Post(pending, home, "connectEstablished", c)
  <2>1. CASE getNextLoop = Base
    <3>1. /\ state_' = [state_ EXCEPT ![c] = "kConnected"] /\ pending' = pending
          /\ index_' = [index_ EXCEPT ![c] = updateChannel(@, TRUE)] /\ ToldUp(c)
      BY <2>1 DEF newConnection, connectEstablished
    <3>2. index_' = [index_ EXCEPT ![c] = "kAdded"] /\ view' = [view EXCEPT ![c] = "up"]
      BY <1>5, <3>1 DEF updateChannel, ToldUp
    <3> QED BY <3>1, <3>2
  <2>2. CASE getNextLoop # Base
    BY <1>3, <2>2 DEF newConnection
  <2> QED BY <2>1, <2>2
<1>7. /\ state_' \in [Conns -> States] /\ state_'[c] = born
      /\ loopOf' \in [Conns -> 0..loops_] /\ loopOf'[c] = home
      /\ index_' \in [Conns -> {"kNew", "kAdded", "kDeleted"}]
      /\ index_'[c] = (IF born = "kConnected" THEN "kAdded" ELSE "kNew")
      /\ view' \in [Conns -> {"none", "up", "down", "misordered"}]
      /\ view'[c] = (IF born = "kConnected" THEN "up" ELSE "none")
      /\ OnlyOf(c)
  <2>1. /\ state_ \in [Conns -> States] /\ index_ \in [Conns -> {"kNew", "kAdded", "kDeleted"}]
        /\ view \in [Conns -> {"none", "up", "down", "misordered"}] /\ loopOf \in [Conns -> 0..loops_]
    BY DEF ServerIInv, ServerTypeOK
  <2>2. /\ state_' \in [Conns -> States] /\ state_'[c] = born
        /\ \A d \in Conns \ {c} : state_'[d] = state_[d]
    BY <1>6, <2>1 DEF States
  <2>3. /\ loopOf' \in [Conns -> 0..loops_] /\ loopOf'[c] = home
        /\ \A d \in Conns \ {c} : loopOf'[d] = loopOf[d]
    BY <1>1, <1>3, <1>4, <2>1
  <2>4. /\ index_' \in [Conns -> {"kNew", "kAdded", "kDeleted"}]
        /\ index_'[c] = (IF born = "kConnected" THEN "kAdded" ELSE "kNew")
        /\ \A d \in Conns \ {c} : index_'[d] = index_[d]
    BY <1>5, <1>6, <2>1
  <2>5. /\ view' \in [Conns -> {"none", "up", "down", "misordered"}]
        /\ view'[c] = (IF born = "kConnected" THEN "up" ELSE "none")
        /\ \A d \in Conns \ {c} : view'[d] = view[d]
    BY <1>5, <1>6, <2>1
  <2>6. \A d \in Conns \ {c} : d \in connections_' <=> d \in connections_
    BY <1>1
  <2> QED BY <1>1, <2>2, <2>3, <2>4, <2>5, <2>6 DEF OnlyOf
<1>8. functors \in Queues /\ pending \in Queues /\ tasks \in Queues /\ "connectEstablished" \in Ops
  BY TypedQueues DEF ServerIInv, Ops
<1>9. /\ pending' \in Queues
      /\ born = "kConnected" => tasks' = tasks
      /\ born = "kConnecting" => tasks' = Post(tasks, home, "connectEstablished", c)
  BY <1>1, <1>3, <1>6, <1>8, JoinPost, TasksJoined
<1>10. \A l \in Loops : c \notin active[l]
  BY <1>1, ListenAssumption DEF ServerIInv, Rounds
<1>11. ServerTypeOK'
  <2>1. \A d \in Conns : state_'[d] # "unborn" => (loopOf'[d] = Base <=> threadNum_ = 0)
    BY <1>4, <1>7 DEF ServerIInv, ServerTypeOK, OnlyOf
  <2>2. \A l \in Loops : active[l] \subseteq {Listen} \cup {d \in Conns : loopOf'[d] = l}
    BY <1>7, <1>10 DEF ServerIInv, ServerTypeOK, OnlyOf
  <2>3. connections_' \subseteq Conns
    BY <1>1 DEF ServerIInv, ServerTypeOK
  <2> QED BY <1>1, <1>4, <1>7, <1>9, <2>1, <2>2, <2>3 DEF ServerIInv, ServerTypeOK, Queues
<1>12. Rounds'
  <2>1. ASSUME NEW l \in Loops, NEW d \in active[l] \ {Listen}
        PROVE  state_'[d] \in {"kConnected", "kDisconnecting"}
    <3>1. d \in Conns /\ d # c
      BY <1>10 DEF ServerIInv, ServerTypeOK
    <3> QED BY <1>7, <3>1 DEF ServerIInv, Rounds, OnlyOf
  <2> QED BY <1>1, <2>1 DEF ServerIInv, Rounds
<1>13. \A d \in Conns : LifeOf(d)'
  <2>1. c \in connections_'
    BY <1>1
  <2>2. LifeOf(c)'
    BY <1>1, <1>7, <2>1 DEF LifeOf
  <2> QED BY <1>7, <2>2, OthersLive DEF ServerIInv
<1> DEFINE welcome == [op |-> "connectEstablished", conn |-> c]
<1>14. ASSUME NEW l \in Loops, NEW t \in Queued(tasks[l])
       PROVE  TaskFits(l, t)' /\ t # welcome
  <2>1. t \in Task /\ TaskFits(l, t)
    BY <1>8, QueuedAt DEF ServerIInv, TasksFit, Queues
  <2>2. t.conn # c
    BY <1>1, <2>1 DEF TaskFits
  <2> QED BY <1>7, <2>1, <2>2, OtherTasksFit
<1>15. born = "kConnecting" => TaskFits(home, welcome)'
  BY <1>3, <1>7 DEF TaskFits
<1>16. TasksFit' /\ TasksOnce'
  <2>1. CASE born = "kConnected"
    BY <1>9, <1>14, <2>1 DEF ServerIInv, TasksFit, TasksOnce
  <2>2. CASE born = "kConnecting"
    BY <1>8, <1>9, <1>14, <1>15, <2>2, PostFits DEF ServerIInv, TasksOnce
  <2> QED BY <2>1, <2>2
<1>17. PoolFirst'
  BY <1>1, <1>4 DEF ServerIInv, PoolFirst
<1>18. IsFiniteSet(rooms') /\ RoomsHoldTheLiving'
  BY <1>1, <1>5, <1>7 DEF ServerIInv, ServerTypeOK, RoomsHoldTheLiving, OnlyOf
<1> QED BY <1>11, <1>12, <1>13, <1>16, <1>17, <1>18 DEF ServerIInv

-----------------------------------------------------------------------------
(* Theorems *)

LEMMA InitHolds == Init => ServerIInv
<1> SUFFICES ASSUME Init PROVE ServerIInv
  OBVIOUS
<1>1. functors \in Queues /\ pending \in Queues /\ \A l \in Loops : functors[l] = << >> /\ pending[l] = << >>
  BY EmptySeq DEF Init, Queues
<1>2. ASSUME NEW l \in Loops
      PROVE  tasks[l] = << >> /\ Queued(tasks[l]) = {} /\ DOMAIN tasks[l] = {}
  <2>1. << >> \in Seq(Task) /\ Len(<< >>) = 0 /\ DOMAIN << >> = {} /\ << >> \o << >> = << >>
    BY EmptySeq, ConcatEmptySeq
  <2>2. tasks[l] = << >>
    BY <1>1, <2>1 DEF tasks
  <2> QED BY <2>1, <2>2 DEF Queued
<1>3. ServerTypeOK
  <2>1. /\ threadNum_ \in 0..MaxThreads /\ loops_ = 0 /\ next_ = 0 /\ listening = FALSE
        /\ 0 \in 0..threadNum_ /\ MaxMessages \in 0..MaxMessages
    BY ThreadNumAssumption, MessagesAssumption DEF Init
  <2>2. /\ peer \in [Conns -> {"away", "connected", "closed"}]
        /\ unread \in [Conns -> 0..MaxMessages]
        /\ loopOf \in [Conns -> 0..loops_]
        /\ state_ \in [Conns -> States] /\ \A c \in Conns : state_[c] = "unborn"
        /\ index_ \in [Conns -> {"kNew", "kAdded", "kDeleted"}]
        /\ view \in [Conns -> {"none", "up", "down", "misordered"}]
    BY <2>1 DEF Init, States, Base
  <2>3. /\ phase \in [Loops -> {"poll", "events", "functors"}]
        /\ DOMAIN active = Loops /\ \A l \in Loops : active[l] = {}
        /\ held \in [Loops -> SUBSET Conns]
    BY DEF Init
  <2>4. connections_ = {} /\ rooms = {}
    BY DEF Init
  <2> QED BY <1>1, <2>1, <2>2, <2>3, <2>4 DEF ServerTypeOK, Queues
<1>4. IsFiniteSet(rooms) /\ PoolFirst /\ Rounds /\ RoomsHoldTheLiving
  BY <1>1, FS_EmptySet DEF Init, PoolFirst, Rounds, RoomsHoldTheLiving
<1>5. TasksFit /\ TasksOnce
  BY <1>2 DEF TasksFit, TasksOnce, Once
<1>6. \A c \in Conns : LifeOf(c)
  BY DEF Init, LifeOf
<1> QED BY <1>3, <1>4, <1>5, <1>6 DEF ServerIInv

LEMMA StepKeeps == ServerIInv /\ [Next]_vars => ServerIInv'
<1> SUFFICES ASSUME ServerIInv, [Next]_vars PROVE ServerIInv'
  OBVIOUS
<1>1. CASE startLoop \/ listen \/ AcceptFails
  BY <1>1, startLoopKeeps, listenKeeps, AcceptFailsKeeps
<1>2. ASSUME NEW c \in Conns, connect(c) \/ close(c) \/ newConnection(c)
      PROVE  ServerIInv'
  BY <1>2, clientsKeep, newConnectionKeeps
<1>3. ASSUME NEW l \in Loops, poll(l) \/ doPendingFunctors(l) \/ RunFunctor(l) \/ FunctorsDone(l)
      PROVE  ServerIInv'
  BY <1>3, pollKeeps, doPendingFunctorsKeeps, FunctorsDoneKeeps, RunConnectEstablishedKeeps,
     RunEraseKeeps, RunConnectDestroyedKeeps, RunSendInLoopKeeps DEF RunFunctor
<1>4. ASSUME NEW l \in Loops, NEW c \in Conns, HandleEvent(l, c)
      PROVE  ServerIInv'
  BY <1>4, handleReadEofKeeps, quitKeeps, LineKeeps DEF HandleEvent
<1>5. CASE UNCHANGED vars
  <2> USE <1>5 DEF vars, client, started, pool, conn, app, loopVars
  <2>1. ServerTypeOK' /\ PoolFirst' /\ Rounds' /\ IsFiniteSet(rooms') /\ RoomsHoldTheLiving'
    BY DEF ServerIInv, ServerTypeOK, PoolFirst, Rounds, RoomsHoldTheLiving
  <2> QED BY <2>1, SameTasks, SameLives DEF ServerIInv
<1> QED BY <1>1, <1>2, <1>3, <1>4, <1>5 DEF Next

(* The inductive invariant: what state_ says of the table, epoll and the    *)
(* application, and of every functor a loop has queued but not run.         *)
THEOREM ServerInductive == SafeSpec => []ServerIInv
BY InitHolds, StepKeeps, PTL DEF SafeSpec

(* Every variable of TcpServer keeps its type: in particular a channel is   *)
(* reported to the loop that owns it only, and the base loop owns           *)
(* connections only where TcpServer::setThreadNum asked for no io threads.  *)
THEOREM ServerTypeCorrect == SafeSpec => []ServerTypeOK
<1>1. ServerIInv => ServerTypeOK
  BY DEF ServerIInv
<1> QED BY <1>1, ServerInductive, PTL

(* Neither epoll nor a round's activeChannels_ names a connection that has  *)
(* been freed: TcpServer::removeConnection, TcpConnection::handleClose and  *)
(* connectDestroyed, whatever the loops do in between.                      *)
THEOREM NoChannelDangles == SafeSpec => []NoDanglingChannel
<1>1. ServerIInv => NoDanglingChannel
  <2> SUFFICES ASSUME ServerIInv, NEW c \in Conns, Freed(c)
               PROVE  index_[c] # "kAdded" /\ \A l \in Loops : c \notin active[l]
    BY DEF NoDanglingChannel
  <2>1. state_[c] \in States /\ state_[c] # "unborn" /\ c \notin connections_
    BY DEF ServerIInv, ServerTypeOK, Freed, Referenced
  <2>2. state_[c] = "kDisconnected"
    BY <2>1 DEF States, ServerIInv, LifeOf
  <2>3. \A l \in Loops : c \notin active[l]
    BY <2>2, ListenAssumption DEF ServerIInv, Rounds
  <2> QED BY <2>2, <2>3 DEF ServerIInv, LifeOf
<1> QED BY <1>1, ServerInductive, PTL

(* The application hears of each connection once that it is up and once     *)
(* that it is down, in that order: TcpConnection::connectEstablished,       *)
(* handleClose and connectDestroyed.                                        *)
THEOREM CallbacksComeInPairs == SafeSpec => []CallbacksPaired
<1>1. ServerIInv => CallbacksPaired
  <2> SUFFICES ASSUME ServerIInv, NEW c \in Conns
               PROVE  view[c] # "misordered"
    BY DEF CallbacksPaired
  <2>1. state_[c] \in States
    BY DEF ServerIInv, ServerTypeOK
  <2> QED BY <2>1 DEF States, ServerIInv, LifeOf
<1> QED BY <1>1, ServerInductive, PTL

(* A room holds only connections the application believes to be up:         *)
(* RoomManager::join and leave as ChatServer::onConnection calls them.      *)
THEOREM RoomsHoldOnlyTheLiving == SafeSpec => []RoomsHoldTheLiving
<1>1. ServerIInv => RoomsHoldTheLiving
  BY DEF ServerIInv
<1> QED BY <1>1, ServerInductive, PTL

(* Only the steps below touch a channel or the table, and each is of the    *)
(* right thread: handlers take their channel off the round, functors leave  *)
(* the batch, an accepted client leaves the backlog.                        *)
LEMMA Touches ==
  ASSUME ServerIInv, [Next]_vars, index_' # index_ \/ connections_' # connections_
  PROVE  \/ \E c \in Conns : newConnection(c)
         \/ \E l \in Loops, c \in Conns :
              handleReadEof(l, c) \/ RunConnectEstablished(l, c) \/ RunConnectDestroyed(l, c) \/ RunErase(l, c)
<1>1. CASE startLoop \/ listen \/ AcceptFails \/ UNCHANGED vars
  BY <1>1 DEF startLoop, listen, AcceptFails, vars, conn
<1>2. ASSUME NEW c \in Conns, connect(c) \/ close(c)
      PROVE  FALSE
  BY <1>2 DEF connect, close, conn
<1>3. ASSUME NEW l \in Loops, poll(l) \/ doPendingFunctors(l) \/ FunctorsDone(l)
      PROVE  FALSE
  BY <1>3 DEF poll, doPendingFunctors, FunctorsDone, conn
<1>4. ASSUME NEW l \in Loops, NEW c \in Conns, join(l, c) \/ quit(l, c) \/ broadcast(l, c)
      PROVE  FALSE
  <2>1. connections_' = connections_
    BY <1>4 DEF join, quit, broadcast, handleReadLine
  <2>2. CASE quit(l, c)
    BY <2>1, <2>2 DEF quit
  <2>3. CASE join(l, c) \/ broadcast(l, c)
    BY <2>1, <2>3, LineHeard, SendersStayAdded
  <2> QED BY <1>4, <2>2, <2>3
<1>5. ASSUME NEW l \in Loops, NEW c \in Conns, RunSendInLoop(l, c)
      PROVE  FALSE
  <2>1. CASE state_[c] = "kConnected" /\ index_' = [index_ EXCEPT ![c] = updateChannel(@, TRUE)]
    <3>1. index_[c] = "kAdded"
      BY <2>1 DEF ServerIInv, LifeOf
    <3> QED BY <1>5, <2>1, <3>1 DEF RunSendInLoop, updateChannel, ServerIInv, ServerTypeOK
  <2> QED BY <1>5, <2>1 DEF RunSendInLoop, sendInLoop
<1> QED BY <1>1, <1>2, <1>3, <1>4, <1>5 DEF Next, HandleEvent, RunFunctor

LEMMA RunShows ==
  ASSUME ServerIInv, NEW l \in Loops, NEW c \in Conns, NEW op \in Ops, Running(l, op, c)
  PROVE  StepOf(l)
<1>1. functors \in Queues /\ functors[l] # << >> /\ functors' = [functors EXCEPT ![l] = Tail(@)]
  BY TypedQueues DEF ServerIInv, Running
<1>2. functors[l] \in Seq(Task) /\ functors'[l] = Tail(functors[l])
  BY <1>1 DEF Queues
<1>3. Len(Tail(functors[l])) = Len(functors[l]) - 1 /\ Len(functors[l]) \in Nat
  BY <1>1, <1>2, HeadTailProperties, LenProperties
<1>4. functors'[l] # functors[l]
  <2>1. ASSUME NEW q, NEW r, Len(r) = Len(q) - 1, Len(q) \in Nat
        PROVE  r # q
    BY <2>1
  <2> QED BY <1>2, <1>3, <2>1
<1> QED BY <1>4 DEF StepOf

Confined ==
  /\ \A c \in Conns : index_'[c] # index_[c] => \E l \in Loops : l = loopOf'[c] /\ StepOf(l)
  /\ connections_' # connections_ => StepOf(Base)

LEMMA StepConfined ==
  ASSUME ServerIInv, [Next]_vars, index_' # index_ \/ connections_' # connections_
  PROVE  Confined
<1>1. Base \in Loops /\ index_ \in [Conns -> {"kNew", "kAdded", "kDeleted"}]
  BY ThreadNumAssumption DEF Base, Loops, ServerIInv, ServerTypeOK
<1>2. ASSUME NEW c \in Conns, newConnection(c)
      PROVE  Confined
  <2>1. c \in backlog /\ c \notin backlog'
    <3>1. \E s \in {"kConnecting", "kConnected"} : state_' = [state_ EXCEPT ![c] = s]
      BY <1>2 DEF newConnection, connectEstablished
    <3>2. state_'[c] # "unborn"
      BY <3>1 DEF ServerIInv, ServerTypeOK
    <3> QED BY <1>2, <3>2 DEF newConnection, backlog
  <2>2. StepOf(Base)
    BY <2>1 DEF StepOf
  <2>3. CASE getNextLoop = Base
    <3>1. /\ index_' = [index_ EXCEPT ![c] = updateChannel(@, TRUE)]
          /\ loopOf' = [loopOf EXCEPT ![c] = Base]
      BY <1>2, <2>3 DEF newConnection, connectEstablished
    <3>2. loopOf'[c] = Base /\ \A d \in Conns \ {c} : index_'[d] = index_[d]
      BY <1>1, <3>1 DEF ServerIInv, ServerTypeOK
    <3> QED BY <1>1, <2>2, <3>2 DEF Confined
  <2>4. CASE getNextLoop # Base
    BY <1>2, <2>2, <2>4 DEF newConnection, Confined
  <2> QED BY <2>3, <2>4
<1>3. ASSUME NEW l \in Loops, NEW c \in Conns, handleReadEof(l, c)
      PROVE  Confined
  <2>1. /\ loopOf' = loopOf /\ index_' = [index_ EXCEPT ![c] = updateChannel(@, FALSE)]
        /\ Handling(l, c) /\ (l = Base \/ connections_' = connections_)
    BY <1>3 DEF handleReadEof, handleClose, removeConnection
  <2>2. loopOf[c] = l /\ c \in active[l] /\ active' = [active EXCEPT ![l] = @ \ {c}]
    BY <1>3, HandledIsUp DEF handleReadEof
  <2>3. active'[l] # active[l]
    BY <2>2 DEF ServerIInv, ServerTypeOK
  <2>4. StepOf(l)
    BY <2>3 DEF StepOf
  <2>5. \A d \in Conns \ {c} : index_'[d] = index_[d]
    BY <1>1, <2>1
  <2> QED BY <2>1, <2>2, <2>4, <2>5 DEF Confined
<1>4. ASSUME NEW l \in Loops, NEW c \in Conns,
             RunConnectEstablished(l, c) \/ RunConnectDestroyed(l, c)
      PROVE  Confined
  <2>1. PICK op \in {"connectEstablished", "connectDestroyed"} :
          /\ Running(l, op, c) /\ \E idx : index_' = [index_ EXCEPT ![c] = idx]
          /\ connections_' = connections_ /\ loopOf' = loopOf
    BY <1>4 DEF RunConnectEstablished, RunConnectDestroyed, connectEstablished, connectDestroyed, Running
  <2>2. op \in Ops
    BY DEF Ops
  <2>3. StepOf(l) /\ TaskFits(l, [op |-> op, conn |-> c])
    BY <2>1, <2>2, RunShows, RunningTakes
  <2>4. loopOf[c] = l
    BY <2>3 DEF TaskFits
  <2>5. \A d \in Conns \ {c} : index_'[d] = index_[d]
    BY <1>1, <2>1
  <2> QED BY <2>1, <2>3, <2>4, <2>5 DEF Confined
<1>5. ASSUME NEW l \in Loops, NEW c \in Conns, RunErase(l, c)
      PROVE  Confined
  <2>1. Running(l, "erase", c) /\ index_' = index_ /\ "erase" \in Ops
    BY <1>5 DEF RunErase, Ops
  <2>2. StepOf(l) /\ TaskFits(l, [op |-> "erase", conn |-> c])
    BY <2>1, RunShows, RunningTakes
  <2>3. l = Base
    BY <2>2 DEF TaskFits
  <2> QED BY <2>1, <2>2, <2>3 DEF Confined
<1> QED BY <1>2, <1>3, <1>4, <1>5, Touches

(* A channel and its epoll registration are touched by the loop that owns   *)
(* them only, and TcpServer::connections_ by the base loop only.            *)
THEOREM ServerThreadConfined == SafeSpec => ThreadConfined
<1>1. ServerIInv /\ [Next]_vars => [Confined]_vars
  BY StepConfined DEF Confined
<1> QED BY <1>1, ServerInductive, PTL DEF SafeSpec, ThreadConfined, Confined

-----------------------------------------------------------------------------
(* The lifecycle it implements *)

LEMMA QueuedBoth ==
  ASSUME NEW f \in Seq(Task), NEW p \in Seq(Task)
  PROVE  Queued(f \o p) = Queued(f) \cup Queued(p)
<1>1. /\ Len(f \o p) = Len(f) + Len(p)
      /\ \A i \in 1..Len(f) + Len(p) :
            (f \o p)[i] = IF i <= Len(f) THEN f[i] ELSE p[i - Len(f)]
      /\ f \o p \in Seq(Task)
  BY ConcatProperties
<1>2. /\ DOMAIN f = 1..Len(f) /\ Len(f) \in Nat /\ DOMAIN p = 1..Len(p) /\ Len(p) \in Nat
      /\ DOMAIN (f \o p) = 1..Len(f) + Len(p)
  BY <1>1, LenProperties
<1> DEFINE all == f \o p
<1> HIDE DEF all
<1>3. Queued(all) \subseteq Queued(f) \cup Queued(p)
  <2>1. ASSUME NEW i \in DOMAIN all
        PROVE  \/ i \in DOMAIN f /\ all[i] = f[i]
               \/ i - Len(f) \in DOMAIN p /\ all[i] = p[i - Len(f)]
    BY <1>1, <1>2 DEF all
  <2> QED BY <2>1 DEF Queued
<1>4. Queued(f) \subseteq Queued(all)
  <2>1. ASSUME NEW i \in DOMAIN f
        PROVE  i \in DOMAIN all /\ all[i] = f[i]
    BY <1>1, <1>2 DEF all
  <2> QED BY <2>1 DEF Queued
<1>5. Queued(p) \subseteq Queued(all)
  <2>1. ASSUME NEW i \in DOMAIN p
        PROVE  Len(f) + i \in DOMAIN all /\ all[Len(f) + i] = p[i]
    <3>1. Len(f) + i \in 1..Len(f) + Len(p) /\ ~(Len(f) + i <= Len(f)) /\ (Len(f) + i) - Len(f) = i
      BY <1>2
    <3> QED BY <1>1, <1>2, <3>1 DEF all
  <2> QED BY <2>1 DEF Queued
<1> QED BY <1>3, <1>4, <1>5 DEF all

(* Whom the functors of a queue capture, when it grows and shrinks.         *)
LEMMA CapturesIs ==
  ASSUME NEW q \in Seq(Task), NEW d
  PROVE  Captures(q, d) <=> \E t \in Queued(q) : t.conn = d
BY QueuedAt DEF Captures, Queued

LEMMA CapturesPosted ==
  ASSUME NEW p \in Queues, NEW k \in Loops, NEW op \in Ops, NEW c \in Conns, NEW l \in Loops, NEW d
  PROVE  Captures(Post(p, k, op, c)[l], d) <=> Captures(p[l], d) \/ (l = k /\ d = c)
<1> DEFINE t == [op |-> op, conn |-> c]
<1>1. t \in Task /\ t.conn = c /\ p[l] \in Seq(Task)
  BY TaskMade DEF Queues
<1>2. Post(p, k, op, c)[l] = IF l = k THEN Append(p[l], t) ELSE p[l]
  BY DEF Post, Queues
<1> HIDE DEF t
<1>3. Append(p[l], t) \in Seq(Task) /\ Queued(Append(p[l], t)) = Queued(p[l]) \cup {t}
  BY <1>1, PostedLast
<1>4. /\ Captures(p[l], d) <=> \E u \in Queued(p[l]) : u.conn = d
      /\ Captures(Append(p[l], t), d) <=> \E u \in Queued(Append(p[l], t)) : u.conn = d
  BY <1>1, <1>3, CapturesIs
<1>5. Captures(Append(p[l], t), d) <=> Captures(p[l], d) \/ d = c
  BY <1>1, <1>3, <1>4
<1> QED BY <1>2, <1>5

LEMMA CapturesLeft ==
  ASSUME NEW f \in Queues, NEW k \in Loops, f[k] # << >>, NEW l \in Loops, NEW d
  PROVE  Captures(f[l], d) <=> Captures(WithoutFirst(f, k)[l], d) \/ (l = k /\ d = Head(f[k]).conn)
<1>1. f[l] \in Seq(Task) /\ WithoutFirst(f, k)[l] = IF l = k THEN Tail(f[l]) ELSE f[l]
  BY DEF Queues, WithoutFirst
<1>2. CASE l = k
  <2>1. /\ Tail(f[l]) \in Seq(Task) /\ Head(f[l]) \in Queued(f[l])
        /\ Queued(Tail(f[l])) \subseteq Queued(f[l])
        /\ Queued(f[l]) \subseteq Queued(Tail(f[l])) \cup {Head(f[l])}
    BY <1>1, <1>2, RunFirst
  <2>2. /\ Captures(f[l], d) <=> \E u \in Queued(f[l]) : u.conn = d
        /\ Captures(Tail(f[l]), d) <=> \E u \in Queued(Tail(f[l])) : u.conn = d
    BY <1>1, <2>1, CapturesIs
  <2>3. Captures(f[l], d) <=> Captures(Tail(f[l]), d) \/ d = Head(f[l]).conn
    BY <2>1, <2>2
  <2> QED BY <1>1, <1>2, <2>3
<1> QED BY <1>1, <1>2

LEMMA CapturesSent ==
  ASSUME NEW q \in Seq(Task), NEW sends \in Seq(Task), NEW d
  PROVE  Captures(q \o sends, d) <=> Captures(q, d) \/ Captures(sends, d)
<1>1. q \o sends \in Seq(Task) /\ Queued(q \o sends) = Queued(q) \cup Queued(sends)
  BY ConcatProperties, QueuedBoth
<1> QED BY <1>1, CapturesIs

(* How far the life of a connection has come, by its state_. *)
StageFits(c) ==
  /\ state_[c] \in {"unborn", "kConnecting"} =>
       Stage(c) = IF peer[c] = "away" THEN "absent" ELSE "waiting"
  /\ state_[c] \in {"kConnected", "kDisconnecting"} => Stage(c) = "up"
  /\ state_[c] = "kDisconnected" => Stage(c) = IF Referenced(c) THEN "down" ELSE "freed"
  /\ state_[c] \in States /\ (peer[c] = "away" => state_[c] = "unborn")

StagesFit == \A c \in Conns : StageFits(c)

LEMMA StageIs == ServerIInv => StagesFit
<1> SUFFICES ASSUME ServerIInv, NEW c \in Conns
             PROVE  StageFits(c)
  BY DEF StagesFit
<1>1. LifeOf(c) /\ state_[c] \in States
  BY DEF ServerIInv, ServerTypeOK
<1>2. CASE state_[c] \in {"unborn", "kConnecting"}
  BY <1>1, <1>2 DEF Stage, LifeOf, StageFits
<1>3. CASE state_[c] \in {"kConnected", "kDisconnecting"}
  BY <1>1, <1>3 DEF Stage, LifeOf, StageFits
<1>4. CASE state_[c] = "kDisconnected"
  BY <1>1, <1>4 DEF Stage, LifeOf, Freed, StageFits
<1> QED BY <1>1, <1>2, <1>3, <1>4 DEF States

LEMMA StageIsNext == ServerIInv' => StagesFit'
BY StageIs, PTL

LEMMA StageSame ==
  ASSUME StagesFit, StagesFit', NEW d \in Conns,
         peer'[d] = "away" <=> peer[d] = "away",
         \/ state_'[d] = state_[d]
         \/ {state_'[d], state_[d]} \subseteq {"unborn", "kConnecting"}
         \/ {state_'[d], state_[d]} \subseteq {"kConnected", "kDisconnecting"},
         state_[d] = "kDisconnected" => (Referenced(d)' <=> Referenced(d))
  PROVE  Stage(d)' = Stage(d)
<1>1. StageFits(d) /\ StageFits(d)'
  BY DEF StagesFit
<1> QED BY <1>1 DEF StageFits, States

LEMMA OneMoves ==
  ASSUME NEW c \in Conns, \A d \in Conns \ {c} : Stage(d)' = Stage(d)
  PROVE  [d \in Conns |-> Stage(d)]' = [[d \in Conns |-> Stage(d)] EXCEPT ![c] = Stage(c)']
OBVIOUS

(* A step that only concerns c, as far as references go too.                *)
LEMMA OthersStay ==
  ASSUME StagesFit, StagesFit', NEW c \in Conns, OnlyOf(c),
         \A d \in Conns \ {c} : d \in rooms' <=> d \in rooms,
         \A d \in Conns \ {c}, l \in Loops :
            /\ d \in held'[l] <=> d \in held[l]
            /\ Captures(pending'[l], d) <=> Captures(pending[l], d)
            /\ Captures(functors'[l], d) <=> Captures(functors[l], d)
  PROVE  \A d \in Conns \ {c} : Stage(d)' = Stage(d)
<1> SUFFICES ASSUME NEW d \in Conns \ {c}
             PROVE  Stage(d)' = Stage(d)
  OBVIOUS
<1>1. Referenced(d)' <=> Referenced(d)
  BY DEF OnlyOf, Referenced
<1> QED BY <1>1, StageSame DEF OnlyOf

(* Steps that leave every reference to a connection that is down as it is.  *)
LEMMA AllStay ==
  ASSUME StagesFit, StagesFit', ServerIInv,
         UNCHANGED <<connections_, functors, held>>,
         \A d \in Conns : peer'[d] = "away" <=> peer[d] = "away",
         \A d \in Conns :
            \/ state_'[d] = state_[d]
            \/ {state_'[d], state_[d]} \subseteq {"kConnected", "kDisconnecting"},
         \A d \in Conns : state_[d] = "kDisconnected" =>
            /\ d \in rooms' <=> d \in rooms
            /\ \A l \in Loops : Captures(pending'[l], d) <=> Captures(pending[l], d)
  PROVE  [d \in Conns |-> Stage(d)]' = [d \in Conns |-> Stage(d)]
<1> SUFFICES ASSUME NEW d \in Conns
             PROVE  Stage(d)' = Stage(d)
  OBVIOUS
<1>1. state_[d] = "kDisconnected" => (Referenced(d)' <=> Referenced(d))
  BY DEF Referenced
<1> QED BY <1>1, StageSame

LEMMA startRefines ==
  ASSUME ServerIInv, ServerIInv', startLoop \/ listen \/ AcceptFails
  PROVE  UNCHANGED Life!vars
<1>1. StagesFit /\ StagesFit'
  BY StageIs, StageIsNext
<1>2. UNCHANGED <<peer, connections_, functors, held, state_, rooms, pending>>
  BY DEF startLoop, listen, AcceptFails, client, conn, app, loopVars
<1>3. [d \in Conns |-> Stage(d)]' = [d \in Conns |-> Stage(d)]
  BY <1>1, <1>2, AllStay
<1> QED BY <1>2, <1>3 DEF Life!vars

LEMMA pollRefines ==
  ASSUME ServerIInv, ServerIInv', NEW l \in Loops, poll(l)
  PROVE  UNCHANGED Life!vars
<1>1. StagesFit /\ StagesFit'
  BY StageIs, StageIsNext
<1>2. UNCHANGED <<peer, connections_, functors, held, state_, rooms, pending>>
  BY DEF poll, client, conn, app
<1>3. [d \in Conns |-> Stage(d)]' = [d \in Conns |-> Stage(d)]
  BY <1>1, <1>2, AllStay
<1> QED BY <1>2, <1>3 DEF Life!vars

LEMMA connectRefines ==
  ASSUME ServerIInv, ServerIInv', NEW c \in Conns, connect(c)
  PROVE  Life!Connect(c)
<1>1. StagesFit /\ StagesFit'
  BY StageIs, StageIsNext
<1>2. /\ UNCHANGED <<connections_, functors, held, state_, rooms, pending, loopOf, index_, view>>
      /\ peer[c] = "away" /\ peer' = [peer EXCEPT ![c] = "connected"]
  BY DEF connect, conn, app, loopVars
<1>3. peer'[c] = "connected" /\ \A d \in Conns \ {c} : peer'[d] = peer[d]
  BY <1>2 DEF ServerIInv, ServerTypeOK
<1>4. \A d \in Conns \ {c} : Stage(d)' = Stage(d)
  BY <1>1, <1>2, <1>3, OthersStay DEF OnlyOf
<1>5. Stage(c) = "absent" /\ Stage(c)' = "waiting"
  BY <1>1, <1>2, <1>3 DEF StagesFit, StageFits
<1>6. [d \in Conns |-> Stage(d)]' = [[d \in Conns |-> Stage(d)] EXCEPT ![c] = "waiting"]
  BY <1>4, <1>5, OneMoves
<1>7. {d \in Conns : peer[d] = "closed"}' = {d \in Conns : peer[d] = "closed"}
  BY <1>2, <1>3
<1> QED BY <1>5, <1>6, <1>7 DEF Life!Connect, Life!Move

LEMMA closeRefines ==
  ASSUME ServerIInv, ServerIInv', NEW c \in Conns, close(c)
  PROVE  Life!Leave(c)
<1>1. StagesFit /\ StagesFit'
  BY StageIs, StageIsNext
<1>2. /\ UNCHANGED <<connections_, functors, held, state_, rooms, pending, loopOf, index_, view>>
      /\ peer[c] = "connected" /\ peer' = [peer EXCEPT ![c] = "closed"]
  BY DEF close, conn, app, loopVars
<1>3. peer'[c] = "closed" /\ \A d \in Conns \ {c} : peer'[d] = peer[d]
  BY <1>2 DEF ServerIInv, ServerTypeOK
<1>4. [d \in Conns |-> Stage(d)]' = [d \in Conns |-> Stage(d)]
  BY <1>1, <1>2, <1>3, AllStay
<1>5. Stage(c) # "absent"
  BY <1>1, <1>2 DEF StagesFit, StageFits, States
<1>6. {d \in Conns : peer[d] = "closed"}' = {d \in Conns : peer[d] = "closed"} \cup {c}
  BY <1>3
<1> QED BY <1>4, <1>5, <1>6 DEF Life!Leave

LEMMA newConnectionRefines ==
  ASSUME ServerIInv, ServerIInv', NEW c \in Conns, newConnection(c)
  PROVE  Life!Up(c) \/ UNCHANGED Life!vars
<1>1. StagesFit /\ StagesFit'
  BY StageIs, StageIsNext
<1>2. /\ UNCHANGED <<peer, rooms, functors, held>>
      /\ connections_' = connections_ \cup {c} /\ loopOf' = [loopOf EXCEPT ![c] = getNextLoop]
      /\ peer[c] # "away" /\ state_[c] = "unborn"
  BY DEF newConnection, backlog, insert, client
<1>3. listening
  BY <1>2 DEF ServerIInv, PoolFirst
<1>4. pending \in Queues /\ "connectEstablished" \in Ops /\ getNextLoop \in Loops
  BY <1>3, TypedQueues, NextLoopRuns DEF ServerIInv, Ops
<1>5. PICK s \in {"kConnecting", "kConnected"} :
        /\ state_' = [state_ EXCEPT ![c] = s]
        /\ \E idx : index_' = [index_ EXCEPT ![c] = idx]
        /\ \E told : view' = [view EXCEPT ![c] = told]
        /\ pending' = pending \/ pending' = Post(pending, getNextLoop, "connectEstablished", c)
  <2>1. CASE getNextLoop = Base
    BY <2>1 DEF newConnection, connectEstablished, ToldUp
  <2>2. CASE getNextLoop # Base
    <3>1. index_ = [index_ EXCEPT ![c] = index_[c]] /\ view = [view EXCEPT ![c] = view[c]]
      BY DEF ServerIInv, ServerTypeOK
    <3> QED BY <2>2, <3>1 DEF newConnection
  <2> QED BY <2>1, <2>2
<1>6. ASSUME NEW d \in Conns \ {c}
      PROVE  /\ state_'[d] = state_[d] /\ index_'[d] = index_[d] /\ view'[d] = view[d]
             /\ loopOf'[d] = loopOf[d] /\ (d \in connections_' <=> d \in connections_)
             /\ \A l \in Loops : Captures(pending'[l], d) <=> Captures(pending[l], d)
  <2>1. state_'[d] = state_[d] /\ index_'[d] = index_[d] /\ view'[d] = view[d] /\ loopOf'[d] = loopOf[d]
    BY <1>2, <1>5 DEF ServerIInv, ServerTypeOK
  <2>2. \A l \in Loops : Captures(pending'[l], d) <=> Captures(pending[l], d)
    BY <1>4, <1>5, CapturesPosted
  <2> QED BY <1>2, <2>1, <2>2
<1>7. \A d \in Conns \ {c} : Stage(d)' = Stage(d)
  <2>1. OnlyOf(c)
    BY <1>2, <1>6 DEF OnlyOf
  <2> QED BY <1>1, <1>2, <1>6, <2>1, OthersStay
<1>8. [d \in Conns |-> Stage(d)]' = [[d \in Conns |-> Stage(d)] EXCEPT ![c] = Stage(c)']
  BY <1>7, OneMoves
<1>9. state_'[c] = s
  BY <1>5 DEF ServerIInv, ServerTypeOK
<1>10. Stage(c) = "waiting" /\ Stage(c)' = IF s = "kConnected" THEN "up" ELSE "waiting"
  BY <1>1, <1>2, <1>9 DEF StagesFit, StageFits
<1>11. CASE s = "kConnected"
  BY <1>2, <1>8, <1>10, <1>11 DEF Life!Up, Life!Move
<1>12. CASE s = "kConnecting"
  <2>1. [d \in Conns |-> Stage(d)]' = [d \in Conns |-> Stage(d)]
    BY <1>8, <1>10, <1>12
  <2> QED BY <1>2, <2>1 DEF Life!vars
<1> QED BY <1>5, <1>11, <1>12

(* While its functor runs, the connection is referenced.  *)
LEMMA RunningRefers ==
  ASSUME ServerIInv, NEW l \in Loops, NEW c \in Conns, NEW op \in Ops, Running(l, op, c)
  PROVE  /\ Referenced(c) /\ Referenced(c)' /\ TaskFits(l, [op |-> op, conn |-> c])
         /\ UNCHANGED <<peer, loopOf>>
         /\ \A d \in Conns \ {c}, k \in Loops :
              /\ d \in held'[k] <=> d \in held[k]
              /\ Captures(functors'[k], d) <=> Captures(functors[k], d)
<1>1. functors \in Queues /\ held \in [Loops -> SUBSET Conns]
  BY TypedQueues DEF ServerIInv, ServerTypeOK
<1>2. /\ functors[l] # << >> /\ Head(functors[l]).conn = c
      /\ functors' = WithoutFirst(functors, l) /\ held' = [held EXCEPT ![l] = @ \cup {c}]
      /\ UNCHANGED <<peer, loopOf>>
  BY DEF Running, WithoutFirst, client
<1>3. \A d : \A k \in Loops :
        Captures(functors[k], d) <=> Captures(functors'[k], d) \/ (k = l /\ d = c)
  <2> SUFFICES ASSUME NEW d, NEW k \in Loops
               PROVE  Captures(functors[k], d) <=> Captures(functors'[k], d) \/ (k = l /\ d = c)
    OBVIOUS
  <2> QED BY <1>1, <1>2, CapturesLeft
<1>4. held'[l] = held[l] \cup {c} /\ \A k \in Loops : k # l => held'[k] = held[k]
  BY <1>1, <1>2
<1>5. Captures(functors[l], c) /\ c \in held'[l]
  BY <1>3, <1>4
<1>6. Referenced(c) /\ Referenced(c)'
  BY <1>5 DEF Referenced
<1>7. TaskFits(l, [op |-> op, conn |-> c])
  BY RunningTakes
<1>8. ASSUME NEW d \in Conns \ {c}, NEW k \in Loops
      PROVE  /\ d \in held'[k] <=> d \in held[k]
             /\ Captures(functors'[k], d) <=> Captures(functors[k], d)
  BY <1>3, <1>4
<1> QED BY <1>2, <1>6, <1>7, <1>8

LEMMA RunRefines ==
  ASSUME ServerIInv, ServerIInv', NEW l \in Loops, NEW c \in Conns, NEW op \in Ops, Running(l, op, c),
         OnlyOf(c), \A d \in Conns \ {c} : d \in rooms' <=> d \in rooms,
         \A d \in Conns \ {c}, k \in Loops : Captures(pending'[k], d) <=> Captures(pending[k], d)
  PROVE  /\ StagesFit /\ StagesFit' /\ Referenced(c) /\ Referenced(c)'
         /\ TaskFits(l, [op |-> op, conn |-> c]) /\ UNCHANGED peer
         /\ [d \in Conns |-> Stage(d)]' = [[d \in Conns |-> Stage(d)] EXCEPT ![c] = Stage(c)']
<1>1. StagesFit /\ StagesFit'
  BY StageIs, StageIsNext
<1>2. \A d \in Conns \ {c} : Stage(d)' = Stage(d)
  BY <1>1, RunningRefers, OthersStay
<1> QED BY <1>1, <1>2, RunningRefers, OneMoves

LEMMA RunConnectEstablishedRefines ==
  ASSUME ServerIInv, ServerIInv', NEW l \in Loops, NEW c \in Conns, RunConnectEstablished(l, c)
  PROVE  Life!Up(c)
<1>1. /\ Running(l, "connectEstablished", c) /\ "connectEstablished" \in Ops
      /\ UNCHANGED <<peer, loopOf, connections_, rooms, pending>>
      /\ state_' = [state_ EXCEPT ![c] = "kConnected"]
      /\ \E idx, told : index_' = [index_ EXCEPT ![c] = idx] /\ view' = [view EXCEPT ![c] = told]
  BY DEF RunConnectEstablished, connectEstablished, Running, client, ToldUp, Ops
<1>2. OnlyOf(c) /\ state_'[c] = "kConnected"
  BY <1>1 DEF ServerIInv, ServerTypeOK, OnlyOf
<1>3. /\ StagesFit /\ StagesFit' /\ TaskFits(l, [op |-> "connectEstablished", conn |-> c])
      /\ [d \in Conns |-> Stage(d)]' = [[d \in Conns |-> Stage(d)] EXCEPT ![c] = Stage(c)']
  BY <1>1, <1>2, RunRefines
<1>4. state_[c] = "kConnecting"
  BY <1>3 DEF TaskFits
<1>5. Stage(c) = "waiting" /\ Stage(c)' = "up"
  BY <1>2, <1>3, <1>4 DEF StagesFit, StageFits
<1> QED BY <1>1, <1>3, <1>5 DEF Life!Up, Life!Move

LEMMA RunOthersRefine ==
  ASSUME ServerIInv, ServerIInv', NEW l \in Loops, NEW c \in Conns,
         RunErase(l, c) \/ RunConnectDestroyed(l, c) \/ RunSendInLoop(l, c)
  PROVE  UNCHANGED Life!vars
<1>1. PICK op \in Ops \ {"connectEstablished"} : Running(l, op, c)
  BY DEF RunErase, RunConnectDestroyed, RunSendInLoop, Ops
<1>2. TaskFits(l, [op |-> op, conn |-> c]) /\ UNCHANGED <<peer, loopOf>>
  BY <1>1, RunningRefers
<1>3. state_[c] \notin {"unborn", "kConnecting"}
  BY <1>1, <1>2 DEF TaskFits, Ops
<1>4. /\ state_' = state_ /\ UNCHANGED <<rooms, view>>
      /\ \E idx : index_' = [index_ EXCEPT ![c] = idx]
      /\ \A d \in Conns \ {c} : d \in connections_' <=> d \in connections_
      /\ \A d \in Conns \ {c}, k \in Loops : Captures(pending'[k], d) <=> Captures(pending[k], d)
  <2>1. index_ = [index_ EXCEPT ![c] = index_[c]]
    BY DEF ServerIInv, ServerTypeOK
  <2>2. CASE RunErase(l, c)
    <3>1. /\ UNCHANGED <<state_, index_, rooms, view>> /\ connections_' = connections_ \ {c}
          /\ pending' = Post(pending, loopOf[c], "connectDestroyed", c)
      BY <2>2 DEF RunErase, erase, app
    <3>2. PICK home \in Loops : home = loopOf[c]
      <4>1. loopOf[c] \in 0..loops_ /\ loops_ \in 0..threadNum_ /\ threadNum_ \in 0..MaxThreads
        BY DEF ServerIInv, ServerTypeOK
      <4> QED BY <4>1, ThreadNumAssumption DEF Loops
    <3>3. \A d \in Conns \ {c}, k \in Loops : Captures(pending'[k], d) <=> Captures(pending[k], d)
      <4> SUFFICES ASSUME NEW d \in Conns \ {c}, NEW k \in Loops
                   PROVE  Captures(pending'[k], d) <=> Captures(pending[k], d)
        OBVIOUS
      <4>1. pending \in Queues /\ "connectDestroyed" \in Ops
        BY TypedQueues DEF Ops, ServerIInv
      <4>2. Captures(Post(pending, home, "connectDestroyed", c)[k], d)
              <=> Captures(pending[k], d) \/ (k = home /\ d = c)
        BY <4>1, CapturesPosted
      <4> QED BY <3>1, <3>2, <4>2
    <3> QED BY <2>1, <3>1, <3>3
  <2>3. CASE RunConnectDestroyed(l, c)
    <3>1. Running(l, "connectDestroyed", c) /\ "connectDestroyed" \in Ops
      BY <2>3 DEF RunConnectDestroyed, Ops
    <3>2. TaskFits(l, [op |-> "connectDestroyed", conn |-> c])
      BY <3>1, RunningRefers
    <3>3. state_[c] = "kDisconnected"
      BY <3>2 DEF TaskFits
    <3> QED BY <2>3, <3>3 DEF RunConnectDestroyed, connectDestroyed, app
  <2>4. CASE RunSendInLoop(l, c)
    BY <2>1, <2>4 DEF RunSendInLoop, sendInLoop, app
  <2> QED BY <2>2, <2>3, <2>4
<1>5. OnlyOf(c)
  BY <1>2, <1>4 DEF OnlyOf, ServerIInv, ServerTypeOK
<1>6. /\ StagesFit /\ StagesFit' /\ Referenced(c) /\ Referenced(c)'
      /\ [d \in Conns |-> Stage(d)]' = [[d \in Conns |-> Stage(d)] EXCEPT ![c] = Stage(c)']
  BY <1>1, <1>4, <1>5, RunRefines
<1>7. Stage(c)' = Stage(c)
  BY <1>2, <1>4, <1>6, StageSame
<1>8. [d \in Conns |-> Stage(d)]' = [d \in Conns |-> Stage(d)]
  BY <1>6, <1>7
<1> QED BY <1>2, <1>8 DEF Life!vars

LEMMA quitRefines ==
  ASSUME ServerIInv, ServerIInv', NEW l \in Loops, NEW c \in Conns, quit(l, c)
  PROVE  UNCHANGED Life!vars
<1>1. StagesFit /\ StagesFit'
  BY StageIs, StageIsNext
<1>2. UNCHANGED <<peer, connections_, functors, held, pending, rooms>> /\ Handling(l, c)
  BY DEF quit, handleReadLine
<1>3. state_[c] \in {"kConnected", "kDisconnecting"}
  BY <1>2, HandledIsUp
<1>4. state_' = [state_ EXCEPT ![c] = IF @ = "kConnected" THEN "kDisconnecting" ELSE @]
  BY DEF quit
<1>5. \A d \in Conns : \/ state_'[d] = state_[d]
                      \/ {state_'[d], state_[d]} \subseteq {"kConnected", "kDisconnecting"}
  BY <1>3, <1>4 DEF ServerIInv, ServerTypeOK
<1>6. [d \in Conns |-> Stage(d)]' = [d \in Conns |-> Stage(d)]
  BY <1>1, <1>2, <1>5, AllStay
<1> QED BY <1>2, <1>6 DEF Life!vars

LEMMA LineRefines ==
  ASSUME ServerIInv, ServerIInv', NEW l \in Loops, NEW c \in Conns, join(l, c) \/ broadcast(l, c)
  PROVE  UNCHANGED Life!vars
<1>1. StagesFit /\ StagesFit'
  BY StageIs, StageIsNext
<1>2. /\ UNCHANGED <<peer, connections_, functors, held, state_>> /\ Handling(l, c)
      /\ rooms' = rooms \/ rooms' = rooms \cup {c}
  BY LineHeard DEF handleReadLine
<1>3. \A d \in Conns : state_[d] = "kDisconnected" => (d \in rooms' <=> d \in rooms)
  BY <1>2, HandledIsUp
<1>4. PICK sends \in Queues :
           /\ pending' = [k \in Loops |-> pending[k] \o sends[k]]
           /\ \A k \in Loops : \A i \in DOMAIN sends[k] :
                /\ sends[k][i].op = "sendInLoop" /\ sends[k][i].conn \in rooms'
                /\ sends[k][i].conn \in Conns /\ loopOf[sends[k][i].conn] = k
                /\ state_[sends[k][i].conn] = "kConnected"
  BY LineHeard, MembersSentTo
<1>5. ASSUME NEW d \in Conns, state_[d] = "kDisconnected", NEW k \in Loops
      PROVE  Captures(pending'[k], d) <=> Captures(pending[k], d)
  <2>1. pending[k] \in Seq(Task) /\ sends[k] \in Seq(Task)
    BY TypedQueues DEF ServerIInv, Queues
  <2>2. ~Captures(sends[k], d)
    BY <1>4, <1>5, <2>1, QueuedAt DEF Captures
  <2>3. pending'[k] = pending[k] \o sends[k]
    BY <1>4
  <2> QED BY <2>1, <2>2, <2>3, CapturesSent
<1>6. [d \in Conns |-> Stage(d)]' = [d \in Conns |-> Stage(d)]
  BY <1>1, <1>2, <1>3, <1>5, AllStay
<1> QED BY <1>2, <1>6 DEF Life!vars

LEMMA handleReadEofRefines ==
  ASSUME ServerIInv, ServerIInv', NEW l \in Loops, NEW c \in Conns, handleReadEof(l, c)
  PROVE  Life!Down(c)
<1>1. StagesFit /\ StagesFit'
  BY StageIs, StageIsNext
<1>2. /\ UNCHANGED <<peer, loopOf, functors, held>>
      /\ Handling(l, c) /\ peer[c] = "closed"
      /\ state_' = [state_ EXCEPT ![c] = "kDisconnected"]
      /\ index_' = [index_ EXCEPT ![c] = updateChannel(@, FALSE)]
      /\ ToldDown(c) /\ rooms' = rooms \ {c} /\ removeConnection(l, c)
  BY DEF handleReadEof, handleClose, onDisconnected, client, pool
<1>3. state_[c] \in {"kConnected", "kDisconnecting"} /\ loopOf[c] = l
  BY <1>2, HandledIsUp
<1>4. PICK k \in Loops, op \in Ops :
        /\ pending' = Post(pending, k, op, c)
        /\ connections_' = connections_ \/ connections_' = connections_ \ {c}
  <2>1. Base \in Loops /\ loopOf[c] \in Loops /\ {"erase", "connectDestroyed"} \subseteq Ops
    BY <1>3, ThreadNumAssumption DEF Base, Loops, Ops
  <2> QED BY <1>2, <2>1 DEF removeConnection, erase
<1>5. ASSUME NEW d \in Conns, NEW j \in Loops
      PROVE  Captures(pending'[j], d) <=> Captures(pending[j], d) \/ (j = k /\ d = c)
  <2>1. pending \in Queues
    BY TypedQueues DEF ServerIInv
  <2> QED BY <1>4, <2>1, CapturesPosted
<1>6. OnlyOf(c) /\ state_'[c] = "kDisconnected"
  <2>1. state_'[c] = "kDisconnected" /\ \A d \in Conns \ {c} : state_'[d] = state_[d]
    BY <1>2 DEF ServerIInv, ServerTypeOK
  <2>2. \A d \in Conns \ {c} : index_'[d] = index_[d]
    BY <1>2 DEF ServerIInv, ServerTypeOK
  <2>3. \A d \in Conns \ {c} : view'[d] = view[d]
    BY <1>2 DEF ServerIInv, ServerTypeOK, ToldDown
  <2> QED BY <1>2, <1>4, <2>1, <2>2, <2>3 DEF OnlyOf
<1>7. \A d \in Conns \ {c} : Stage(d)' = Stage(d)
  BY <1>1, <1>2, <1>5, <1>6, OthersStay
<1>8. Referenced(c)'
  BY <1>5 DEF Referenced
<1>9. Stage(c) = "up" /\ Stage(c)' = "down"
  BY <1>1, <1>3, <1>6, <1>8 DEF StagesFit, StageFits
<1>10. [d \in Conns |-> Stage(d)]' = [[d \in Conns |-> Stage(d)] EXCEPT ![c] = "down"]
  BY <1>7, <1>9, OneMoves
<1> QED BY <1>2, <1>9, <1>10 DEF Life!Down, Life!Move

LEMMA doPendingFunctorsRefines ==
  ASSUME ServerIInv, ServerIInv', NEW l \in Loops, doPendingFunctors(l)
  PROVE  UNCHANGED Life!vars
<1>1. StagesFit /\ StagesFit'
  BY StageIs, StageIsNext
<1>2. /\ UNCHANGED <<peer, connections_, rooms, state_, held>>
      /\ phase[l] = "events" /\ functors' = [functors EXCEPT ![l] = pending[l]]
      /\ pending' = [pending EXCEPT ![l] = << >>]
  BY DEF doPendingFunctors, client, conn, app
<1>3. functors[l] = << >>
  BY <1>2 DEF ServerIInv, Rounds
<1>4. ASSUME NEW d, NEW k \in Loops
      PROVE  Captures(pending'[k], d) \/ Captures(functors'[k], d)
               <=> Captures(pending[k], d) \/ Captures(functors[k], d)
  <2>1. functors \in Queues /\ pending \in Queues
    BY TypedQueues DEF ServerIInv
  <2>2. ~Captures(<< >>, d)
    BY DEF Captures
  <2>3. CASE k = l
    <3>1. pending'[k] = << >> /\ functors'[k] = pending[k]
      BY <1>2, <2>1, <2>3 DEF Queues
    <3> QED BY <1>3, <2>2, <2>3, <3>1
  <2>4. CASE k # l
    <3>1. pending'[k] = pending[k] /\ functors'[k] = functors[k]
      BY <1>2, <2>1, <2>4 DEF Queues
    <3> QED BY <3>1
  <2> QED BY <2>3, <2>4
<1>5. ASSUME NEW d \in Conns
      PROVE  Stage(d)' = Stage(d)
  <2>1. Referenced(d)' <=> Referenced(d)
    BY <1>2, <1>4 DEF Referenced
  <2> QED BY <1>1, <1>2, <2>1, StageSame
<1> QED BY <1>2, <1>5 DEF Life!vars

(* The end of a batch is where connections are freed, several at once.      *)
LEMMA FunctorsDoneRefines ==
  ASSUME ServerIInv, ServerIInv', NEW l \in Loops, FunctorsDone(l)
  PROVE  (\E c \in Conns : Life!Free(c)) \/ UNCHANGED Life!vars
<1> DEFINE freed == {d \in Conns : Stage(d)' # Stage(d)}
<1>1. StagesFit /\ StagesFit'
  BY StageIs, StageIsNext
<1>2. /\ UNCHANGED <<peer, connections_, rooms, state_, pending, functors>>
      /\ held' = [held EXCEPT ![l] = {}]
  BY DEF FunctorsDone, client, conn, app
<1>3. ASSUME NEW d \in Conns, Referenced(d)'
      PROVE  Referenced(d)
  <2>1. \A k \in Loops : held'[k] \subseteq held[k]
    BY <1>2 DEF ServerIInv, ServerTypeOK
  <2> QED BY <1>2, <1>3, <2>1 DEF Referenced
<1>4. ASSUME NEW d \in freed
      PROVE  Stage(d) = "down" /\ Stage(d)' = "freed"
  <2>1. state_[d] = "kDisconnected" /\ ~(Referenced(d)' <=> Referenced(d))
    BY <1>1, <1>2, StageSame
  <2>2. Referenced(d) /\ ~Referenced(d)'
    BY <1>3, <2>1
  <2> QED BY <1>1, <1>2, <2>1, <2>2 DEF StagesFit, StageFits
<1>5. \A d \in Conns \ freed : Stage(d)' = Stage(d)
  OBVIOUS
<1> HIDE DEF freed
<1>6. CASE freed = {}
  BY <1>2, <1>5, <1>6 DEF Life!vars
<1>7. CASE freed # {}
  <2>1. PICK c : c \in freed
    BY <1>7
  <2>2. freed \subseteq Conns
    BY DEF freed
  <2>3. freed \in SUBSET {d \in Conns : [e \in Conns |-> Stage(e)][d] = "down"}
    BY <1>4, <2>2
  <2>4. [d \in Conns |-> Stage(d)]'
          = [d \in Conns |-> IF d = c \/ d \in freed THEN "freed" ELSE [e \in Conns |-> Stage(e)][d]]
    BY <1>4, <1>5, <2>1
  <2>5. [e \in Conns |-> Stage(e)][c] = "down"
    BY <1>4, <2>1, <2>2
  <2>6. Life!Free(c)
    BY <1>2, <2>3, <2>4, <2>5 DEF Life!Free
  <2> QED BY <2>1, <2>2, <2>6
<1> QED BY <1>6, <1>7

LEMMA StepRefines == ServerIInv /\ ServerIInv' /\ [Next]_vars => [Life!Next]_(Life!vars)
<1> SUFFICES ASSUME ServerIInv, ServerIInv', [Next]_vars PROVE [Life!Next]_(Life!vars)
  OBVIOUS
<1>1. CASE startLoop \/ listen \/ AcceptFails
  BY <1>1, startRefines
<1>2. ASSUME NEW c \in Conns, connect(c) \/ close(c) \/ newConnection(c)
      PROVE  [Life!Next]_(Life!vars)
  BY <1>2, connectRefines, closeRefines, newConnectionRefines DEF Life!Next
<1>3. ASSUME NEW l \in Loops, poll(l) \/ doPendingFunctors(l) \/ FunctorsDone(l)
      PROVE  [Life!Next]_(Life!vars)
  BY <1>3, pollRefines, doPendingFunctorsRefines, FunctorsDoneRefines DEF Life!Next
<1>4. ASSUME NEW l \in Loops, RunFunctor(l)
      PROVE  [Life!Next]_(Life!vars)
  BY <1>4, RunConnectEstablishedRefines, RunOthersRefine DEF RunFunctor, Life!Next
<1>5. ASSUME NEW l \in Loops, NEW c \in Conns, HandleEvent(l, c)
      PROVE  [Life!Next]_(Life!vars)
  BY <1>5, handleReadEofRefines, quitRefines, LineRefines DEF HandleEvent, Life!Next
<1>6. CASE UNCHANGED vars
  <2>1. UNCHANGED <<peer, view, state_, connections_, rooms, held, pending, functors>>
    BY <1>6 DEF vars, client, conn, app, loopVars
  <2> QED BY <2>1 DEF Life!vars, Stage, Freed, Referenced
<1> QED BY <1>1, <1>2, <1>3, <1>4, <1>5, <1>6 DEF Next

(* The server implements the safety half of ConnLifecycle: a client is      *)
(* announced once, announced as gone only after it has left, and its        *)
(* connection is freed only after that, in whatever order the loops run.    *)
THEOREM LifecycleRefinement == SafeSpec => Life!SafeSpec
<1>1. Init => Life!Init
  <2> SUFFICES ASSUME Init PROVE Life!Init
    OBVIOUS
  <2>1. \A c \in Conns : Stage(c) = "absent"
    BY DEF Init, Stage
  <2> QED BY <2>1 DEF Init, Life!Init
<1> QED BY <1>1, StepRefines, ServerInductive, PTL DEF SafeSpec, Life!SafeSpec
=============================================================================
