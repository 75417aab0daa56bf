------------------------------ MODULE TcpServer ------------------------------
(***************************************************************************)
(* The life of connections in src/net: Acceptor and TcpServer on the base  *)
(* loop, EventLoopThreadPool's round robin, and on each connection's own   *)
(* loop the part of TcpConnection, Channel and EPollPoller that registers, *)
(* closes and destroys it.  The application is ChatServer as far as it     *)
(* touches lifetimes: RoomManager keeps shared_ptrs and broadcasts post    *)
(* sends that capture them.                                                *)
(*                                                                         *)
(* Loop 0 is the base loop, loops 1..threadNum_ are the pool's; with       *)
(* threadNum_ = 0 everything runs on loop 0.  A loop is EventLoop seen     *)
(* through what is proved of it: functors run in order, once, and a loop   *)
(* with pending functors does not block.  One step is one event callback   *)
(* or one functor; different loops interleave between steps.               *)
(*                                                                         *)
(* Reference counting is explicit: a TcpConnection lives as long as        *)
(* connections_, a room, or a functor that is queued, running or in a      *)
(* batch not yet destroyed holds a TcpConnectionPtr to it.  epoll and      *)
(* activeChannels_ hold raw pointers.                                      *)
(***************************************************************************)
EXTENDS Naturals, Sequences, SequencesExt

CONSTANTS Conns,        \* client connections, each made at most once
          MaxThreads,   \* bound on threadNum_
          MaxMessages   \* messages a client sends at most

ASSUME ThreadNumAssumption == MaxThreads \in Nat
ASSUME MessagesAssumption == MaxMessages \in Nat

Base == 0
Loops == 0..MaxThreads
Listen == "acceptChannel_"

ASSUME ListenAssumption == Listen \notin Conns

VARIABLES
  peer,          \* client end: "away", "connected" (or in the backlog), "closed"
  unread,        \* messages the client may still send
  connections_,  \* TcpServer::connections_, touched on the base loop only
  threadNum_,    \* what setThreadNum was called with before start()
  loops_,        \* EventLoopThreadPool::loops_: how many of its loops run
  listening,     \* Acceptor::listen() has been called
  next_,         \* EventLoopThreadPool::next_
  loopOf,        \* TcpConnection::loop_
  state_,        \* TcpConnection::state_; "unborn" before the object exists
  index_,        \* Channel::index_; kAdded iff the fd is in the loop's epoll set
  rooms,         \* connections RoomManager::rooms_ holds
  phase,         \* loop -> "poll", "events" or "functors"
  active,        \* loop -> activeChannels_ not handled yet
  pending,       \* loop -> pendingFunctors_
  functors,      \* loop -> rest of the batch doPendingFunctors is running
  held,          \* loop -> connections captured by functors of the batch that have run
  view           \* history: what connectionCallback has told the application

client == <<peer, unread>>
started == <<threadNum_, loops_, listening>>
pool == <<started, next_>>
conn == <<loopOf, state_, index_>>
app == <<rooms, view>>
loopVars == <<phase, active, pending, functors, held>>
vars == <<client, connections_, pool, conn, app, loopVars>>

States == {"unborn", "kConnecting", "kConnected", "kDisconnecting", "kDisconnected"}
Task == [op : {"connectEstablished", "erase", "connectDestroyed", "sendInLoop"}, conn : Conns]

(* Each channel is only ever reported to the loop that owns it, and the     *)
(* base loop owns connections only where no io threads were asked for:      *)
(* nobody is let in before all of them run.                                 *)
ServerTypeOK ==
  /\ peer \in [Conns -> {"away", "connected", "closed"}]
  /\ unread \in [Conns -> 0..MaxMessages]
  /\ connections_ \subseteq Conns
  /\ threadNum_ \in 0..MaxThreads /\ next_ \in Nat
  /\ loops_ \in 0..threadNum_ /\ listening \in BOOLEAN
  /\ loopOf \in [Conns -> 0..loops_]
  /\ \A c \in Conns : state_[c] # "unborn" => (loopOf[c] = Base <=> threadNum_ = 0)
  /\ state_ \in [Conns -> States]
  /\ index_ \in [Conns -> {"kNew", "kAdded", "kDeleted"}]
  /\ rooms \subseteq Conns
  /\ phase \in [Loops -> {"poll", "events", "functors"}]
  /\ DOMAIN active = Loops
  /\ \A l \in Loops : active[l] \subseteq {Listen} \cup {c \in Conns : loopOf[c] = l}
  /\ pending \in [Loops -> Seq(Task)]
  /\ functors \in [Loops -> Seq(Task)]
  /\ held \in [Loops -> SUBSET Conns]
  /\ view \in [Conns -> {"none", "up", "down", "misordered"}]

Init ==
  /\ peer = [c \in Conns |-> "away"]
  /\ unread = [c \in Conns |-> MaxMessages]
  /\ connections_ = {}
  /\ threadNum_ \in 0..MaxThreads /\ loops_ = 0 /\ listening = FALSE /\ next_ = 0
  /\ loopOf = [c \in Conns |-> Base]
  /\ state_ = [c \in Conns |-> "unborn"]
  /\ index_ = [c \in Conns |-> "kNew"]
  /\ rooms = {}
  /\ phase = [l \in Loops |-> "poll"]
  /\ active = [l \in Loops |-> {}]
  /\ pending = [l \in Loops |-> << >>]
  /\ functors = [l \in Loops |-> << >>]
  /\ held = [l \in Loops |-> {}]
  /\ view = [c \in Conns |-> "none"]

-----------------------------------------------------------------------------
(* Lifetimes *)

Captures(tasks, c) == \E i \in 1..Len(tasks) : tasks[i].conn = c

Referenced(c) ==
  \/ c \in connections_
  \/ c \in rooms
  \/ \E l \in Loops : c \in held[l] \/ Captures(pending[l], c) \/ Captures(functors[l], c)

Freed(c) == state_[c] # "unborn" /\ ~Referenced(c)

-----------------------------------------------------------------------------
(* Clients *)

connect(c) ==
  /\ listening
  /\ peer[c] = "away"
  /\ peer' = [peer EXCEPT ![c] = "connected"]
  /\ UNCHANGED <<unread, connections_, pool, conn, app, loopVars>>

close(c) ==
  /\ peer[c] = "connected"
  /\ peer' = [peer EXCEPT ![c] = "closed"]
  /\ UNCHANGED <<unread, connections_, pool, conn, app, loopVars>>

backlog == {c \in Conns : peer[c] # "away" /\ state_[c] = "unborn"}

-----------------------------------------------------------------------------
(* TcpServer::start, on the base loop's thread before it calls loop().  *)

(* EventLoopThreadPool::start; startLoop returns once the loop exists.  *)
startLoop ==
  /\ loops_ < threadNum_
  /\ loops_' = loops_ + 1
  /\ UNCHANGED <<client, connections_, threadNum_, listening, next_, conn, app, loopVars>>

(* Acceptor::listen, in place: the threads come first.  *)
listen ==
  /\ loops_ = threadNum_ /\ ~listening
  /\ listening' = TRUE
  /\ UNCHANGED <<client, connections_, threadNum_, loops_, next_, conn, app, loopVars>>

-----------------------------------------------------------------------------
(* Pieces of the handlers *)

Post(queue, l, op, c) == [queue EXCEPT ![l] = Append(@, [op |-> op, conn |-> c])]

(* EPollPoller::updateChannel: the new index_, given whether the channel is *)
(* interested in any event.                                                 *)
updateChannel(idx, interested) ==
  IF idx # "kAdded" \/ interested THEN "kAdded" ELSE "kDeleted"

(* connectionCallback as the application may count on it: once up, once down. *)
ToldUp(c) == view' = [view EXCEPT ![c] = IF @ = "none" THEN "up" ELSE "misordered"]
ToldDown(c) == view' = [view EXCEPT ![c] = IF @ = "up" THEN "down" ELSE "misordered"]

onDisconnectedNoLeave(c) == ToldDown(c) /\ UNCHANGED rooms

(* ChatServer::onConnection on a closed connection: rooms_.leave(conn). *)
onDisconnected(c) == ToldDown(c) /\ rooms' = rooms \ {c}

(* EventLoopThreadPool::getNextLoop: the loop, and the cursor after it. *)
getNextLoop == IF loops_ = 0 THEN Base ELSE next_ + 1

cursorNoWrap == IF loops_ = 0 THEN next_ ELSE next_ + 1

cursor == IF loops_ = 0 THEN next_ ELSE (next_ + 1) % loops_

(* connections_[connName] = conn, where nextConnId_ makes the name new.  *)
insertSameName(c) == {c}

insert(c) == connections_ \cup {c}

connectEstablished(c) ==
  /\ state_' = [state_ EXCEPT ![c] = "kConnected"]
  /\ index_' = [index_ EXCEPT ![c] = updateChannel(@, TRUE)]
  /\ ToldUp(c)

(* TcpServer::removeConnection's functor, run on the base loop, with q the  *)
(* queues as they are then.                                                 *)
erase(c, q) ==
  /\ connections_' = connections_ \ {c}
  /\ pending' = Post(q, loopOf[c], "connectDestroyed", c)

removeConnectionInPlace(l, c) == erase(c, pending)

removeConnection(l, c) ==
  IF l = Base
  THEN erase(c, pending)
  ELSE /\ pending' = Post(pending, Base, "erase", c)
       /\ UNCHANGED connections_

handleClose(l, c) ==
  /\ state_' = [state_ EXCEPT ![c] = "kDisconnected"]
  /\ index_' = [index_ EXCEPT ![c] = updateChannel(@, FALSE)]
  /\ onDisconnected(c)
  /\ removeConnection(l, c)

(* disableAll and the callback only if handleClose has not run; then remove(). *)
connectDestroyed(c) ==
  /\ index_' = [index_ EXCEPT ![c] = "kNew"]
  /\ IF state_[c] = "kConnected"
     THEN state_' = [state_ EXCEPT ![c] = "kDisconnected"] /\ onDisconnected(c)
     ELSE UNCHANGED <<state_, app>>

sendInLoopUnchecked(c) ==
  \/ UNCHANGED index_
  \/ index_' = [index_ EXCEPT ![c] = updateChannel(@, TRUE)]

(* Nothing on a connection that is no longer kConnected; otherwise the      *)
(* write may leave a remainder and call enableWriting().                    *)
sendInLoop(c) ==
  \/ UNCHANGED index_
  \/ /\ state_[c] = "kConnected"
     /\ index_' = [index_ EXCEPT ![c] = updateChannel(@, TRUE)]

-----------------------------------------------------------------------------
(* One round of loop l *)

(* In the epoll set: ~Socket closes the fd, which takes it out of epoll. *)
Registered(c) == index_[c] = "kAdded" /\ ~Freed(c)

(* epoll_wait: level-triggered, so every closed client is reported until it *)
(* is dealt with; data of the others arrives when it likes.  Without an     *)
(* event it returns only for the wakeup that pending functors imply.        *)
poll(l) ==
  /\ phase[l] = "poll"
  /\ LET mine == {c \in Conns : loopOf[c] = l /\ Registered(c)}
         hungUp == {c \in mine : peer[c] = "closed"}
         accepting == IF l = Base /\ backlog # {} THEN {Listen} ELSE {}
     IN \E data \in SUBSET {c \in mine : unread[c] > 0} :
          LET ready == hungUp \cup data \cup accepting
          IN /\ ready # {} \/ pending[l] # << >>
             /\ active' = [active EXCEPT ![l] = ready]
  /\ phase' = [phase EXCEPT ![l] = "events"]
  /\ UNCHANGED <<client, connections_, pool, conn, app, pending, functors, held>>

(* Acceptor::handleRead accepts until EAGAIN; TcpServer::newConnection.  *)
newConnection(c) ==
  /\ phase[Base] = "events"
  /\ Listen \in active[Base]
  /\ c \in backlog
  /\ connections_' = insert(c)
  /\ next_' = cursor
  /\ loopOf' = [loopOf EXCEPT ![c] = getNextLoop]
  /\ IF getNextLoop = Base
     THEN connectEstablished(c) /\ UNCHANGED pending
     ELSE /\ state_' = [state_ EXCEPT ![c] = "kConnecting"]
          /\ pending' = Post(pending, getNextLoop, "connectEstablished", c)
          /\ UNCHANGED <<index_, view>>
  /\ UNCHANGED <<client, started, rooms, phase, active, functors, held>>

(* accept fails: EAGAIN with the backlog empty, or a transient error        *)
(* (EMFILE, ECONNABORTED) that leaves it as it is.                          *)
AcceptFails ==
  /\ phase[Base] = "events"
  /\ Listen \in active[Base]
  /\ active' = [active EXCEPT ![Base] = @ \ {Listen}]
  /\ UNCHANGED <<client, connections_, pool, conn, app, phase, pending, functors, held>>

Handling(l, c) ==
  /\ phase[l] = "events"
  /\ c \in active[l]
  /\ active' = [active EXCEPT ![l] = @ \ {c}]

(* TcpConnection::handleRead with n = 0 *)
handleReadEof(l, c) ==
  /\ Handling(l, c)
  /\ peer[c] = "closed"
  /\ handleClose(l, c)
  /\ UNCHANGED <<client, pool, loopOf, phase, functors, held>>

(* TcpConnection::handleRead with n > 0: the bytes carry one line.  *)
handleReadLine(l, c) ==
  /\ Handling(l, c)
  /\ unread[c] > 0
  /\ unread' = [unread EXCEPT ![c] = @ - 1]
  /\ UNCHANGED <<peer, connections_, pool, loopOf, view, phase, functors, held>>

(* RoomManager::broadcast calls send() on every member, in the order of     *)
(* their addresses, with RoomManager's lock held: a close that comes between *)
(* cannot get past leave() before the posts, so one step stands for the     *)
(* whole.  send() returns unless kConnected, writes at once on this thread  *)
(* (and may then have to wait for EPOLLOUT), and posts to the member's loop *)
(* from any other.                                                          *)
sendToMembers(l, room) ==
  LET members == {d \in room : state_[d] = "kConnected"}
      post(order) == [i \in DOMAIN order |-> [op |-> "sendInLoop", conn |-> order[i]]]
      orders(k) == SetToSeqs({d \in members : loopOf[d] = k /\ k # l})
  IN /\ \E order \in [Loops -> UNION {orders(k) : k \in Loops}] :
          /\ \A k \in Loops : order[k] \in orders(k)
          /\ pending' = [k \in Loops |-> pending[k] \o post(order[k])]
     /\ \E blocked \in SUBSET {d \in members : loopOf[d] = l} :
          index_' = [d \in Conns |-> IF d \in blocked THEN updateChannel(index_[d], TRUE)
                                                     ELSE index_[d]]

(* "/join" with a name: the room holds the connection, and the news goes to *)
(* all in it.                                                               *)
join(l, c) ==
  /\ handleReadLine(l, c)
  /\ rooms' = rooms \cup {c}
  /\ sendToMembers(l, rooms')
  /\ UNCHANGED state_

(* "/quit": shutdown(), which does nothing unless kConnected.  *)
quit(l, c) ==
  /\ handleReadLine(l, c)
  /\ state_' = [state_ EXCEPT ![c] = IF @ = "kConnected" THEN "kDisconnecting" ELSE @]
  /\ UNCHANGED <<index_, rooms, pending>>

(* Any other line of a member goes to its room. *)
broadcast(l, c) ==
  /\ handleReadLine(l, c)
  /\ c \in rooms
  /\ sendToMembers(l, rooms)
  /\ UNCHANGED <<state_, rooms>>

doPendingFunctors(l) ==
  /\ phase[l] = "events"
  /\ active[l] = {}
  /\ phase' = [phase EXCEPT ![l] = "functors"]
  /\ functors' = [functors EXCEPT ![l] = pending[l]]
  /\ pending' = [pending EXCEPT ![l] = << >>]
  /\ UNCHANGED <<client, connections_, pool, conn, app, active, held>>

(* The functor keeps its captured pointer until the batch is destroyed. *)
Running(l, op, c) ==
  /\ phase[l] = "functors"
  /\ functors[l] # << >>
  /\ Head(functors[l]) = [op |-> op, conn |-> c]
  /\ functors' = [functors EXCEPT ![l] = Tail(@)]
  /\ held' = [held EXCEPT ![l] = @ \cup {c}]
  /\ UNCHANGED <<client, pool, loopOf, phase, active>>

RunConnectEstablished(l, c) ==
  /\ Running(l, "connectEstablished", c)
  /\ connectEstablished(c)
  /\ UNCHANGED <<connections_, rooms, pending>>

RunErase(l, c) ==
  /\ Running(l, "erase", c)
  /\ erase(c, pending)
  /\ UNCHANGED <<state_, index_, app>>

RunConnectDestroyed(l, c) ==
  /\ Running(l, "connectDestroyed", c)
  /\ connectDestroyed(c)
  /\ UNCHANGED <<connections_, pending>>

RunSendInLoop(l, c) ==
  /\ Running(l, "sendInLoop", c)
  /\ sendInLoop(c)
  /\ UNCHANGED <<connections_, state_, app, pending>>

(* The batch is destroyed, and with it the pointers it captured. *)
FunctorsDone(l) ==
  /\ phase[l] = "functors"
  /\ functors[l] = << >>
  /\ phase' = [phase EXCEPT ![l] = "poll"]
  /\ held' = [held EXCEPT ![l] = {}]
  /\ UNCHANGED <<client, connections_, pool, conn, app, active, pending, functors>>

-----------------------------------------------------------------------------
HandleEvent(l, c) ==
  handleReadEof(l, c) \/ join(l, c) \/ quit(l, c) \/ broadcast(l, c)

RunFunctor(l) == \E c \in Conns : \/ RunConnectEstablished(l, c) \/ RunErase(l, c)
                                  \/ RunConnectDestroyed(l, c) \/ RunSendInLoop(l, c)

Next ==
  \/ startLoop \/ listen
  \/ \E c \in Conns : connect(c) \/ close(c) \/ newConnection(c)
  \/ AcceptFails
  \/ \E l \in Loops : \/ poll(l) \/ doPendingFunctors(l) \/ RunFunctor(l) \/ FunctorsDone(l)
                      \/ \E c \in Conns : HandleEvent(l, c)

SafeSpec == Init /\ [][Next]_vars

(* Every loop keeps running.  Strong fairness of newConnection says that    *)
(* accept's errors are transient: it does not fail every time it is tried.  *)
Fairness ==
  /\ \A c \in Conns : SF_vars(newConnection(c))
  /\ WF_vars(AcceptFails)
  /\ \A l \in Loops :
       /\ WF_vars(poll(l)) /\ WF_vars(doPendingFunctors(l))
       /\ WF_vars(RunFunctor(l)) /\ WF_vars(FunctorsDone(l))
       /\ \A c \in Conns : WF_vars(HandleEvent(l, c))

Spec == SafeSpec /\ Fairness

-----------------------------------------------------------------------------
(* Properties *)

(* No raw pointer outlives its object: neither epoll (which hands the       *)
(* Channel* back) nor the round's activeChannels_ names a connection whose  *)
(* last shared_ptr is gone.  TcpConnection.h's header, the table and        *)
(* TcpServer::removeConnection's deferral are there for this.               *)
NoDanglingChannel ==
  \A c \in Conns : Freed(c) =>
    /\ index_[c] # "kAdded"
    /\ \A l \in Loops : c \notin active[l]

(* connectionCallback tells the application of each connection once that it *)
(* is up and later once that it is down, never twice and never reversed.    *)
CallbacksPaired == \A c \in Conns : view[c] # "misordered"

(* RoomManager holds only connections the application believes to be up: a  *)
(* member that has been announced as down is never left behind or put back. *)
RoomsHoldTheLiving == \A c \in rooms : view[c] = "up"

(* The inductive strengthening of these.  First, what a connection's state_ *)
(* says of the table, of epoll and of what the application has been told.   *)
LifeOf(c) ==
  /\ state_[c] = "unborn" => c \notin connections_
  /\ state_[c] # "unborn" => peer[c] # "away"
  /\ state_[c] \in {"unborn", "kConnecting"} => index_[c] = "kNew" /\ view[c] = "none"
  /\ state_[c] \in {"kConnecting", "kConnected", "kDisconnecting"} => c \in connections_
  /\ state_[c] \in {"kConnected", "kDisconnecting"} => index_[c] = "kAdded" /\ view[c] = "up"
  /\ state_[c] = "kDisconnected" => index_[c] # "kAdded" /\ view[c] = "down"

(* What a loop has still to run, and in which state of the connection.      *)
tasks == [l \in Loops |-> functors[l] \o pending[l]]

Queued(queue) == {queue[i] : i \in DOMAIN queue}

TaskFits(l, t) ==
  CASE t.op = "connectEstablished" -> l = loopOf[t.conn] /\ state_[t.conn] = "kConnecting"
    [] t.op = "erase" -> l = Base /\ state_[t.conn] = "kDisconnected" /\ t.conn \in connections_
    [] t.op = "connectDestroyed" ->
         l = loopOf[t.conn] /\ state_[t.conn] = "kDisconnected" /\ t.conn \notin connections_
    [] OTHER -> l = loopOf[t.conn] /\ state_[t.conn] \notin {"unborn", "kConnecting"}

TasksFit == \A l \in Loops : \A t \in Queued(tasks[l]) : TaskFits(l, t)

(* No second removal, nor a second welcome, is on its way.                  *)
Once(queue) ==
  \A i, j \in DOMAIN queue : queue[i] = queue[j] /\ queue[i].op # "sendInLoop" => i = j

TasksOnce == \A l \in Loops : Once(tasks[l])

(* A round's channels are of connections that are up: each handles its own. *)
Rounds ==
  \A l \in Loops :
    /\ active[l] # {} => phase[l] = "events"
    /\ functors[l] # << >> => phase[l] = "functors"
    /\ \A c \in active[l] \ {Listen} : state_[c] \in {"kConnected", "kDisconnecting"}

(* The pool runs before anyone is let in, and its cursor stays inside.      *)
PoolFirst ==
  /\ listening => loops_ = threadNum_
  /\ (\E c \in Conns : peer[c] # "away") => listening
  /\ next_ = 0 \/ next_ < loops_

ServerIInv ==
  /\ ServerTypeOK /\ IsFiniteSet(rooms)
  /\ PoolFirst /\ Rounds /\ TasksFit /\ TasksOnce
  /\ \A c \in Conns : LifeOf(c)
  /\ RoomsHoldTheLiving

(* A step of loop l's thread shows in its cycle; accepting a connection,    *)
(* which may be repeated in one callback, shows in the backlog.             *)
StepOf(l) ==
  \/ <<phase[l], active[l], functors[l]>>' # <<phase[l], active[l], functors[l]>>
  \/ l = Base /\ backlog' # backlog

(* One loop per thread: a connection's channel and its epoll registration   *)
(* are touched by its own loop only, and connections_ by the base loop only.*)
(* Neither has a lock.                                                      *)
ThreadConfined ==
  [][/\ \A c \in Conns :
          index_'[c] # index_[c] => \E l \in Loops : l = loopOf'[c] /\ StepOf(l)
     /\ connections_' # connections_ => StepOf(Base)]_vars

Stage(c) ==
  CASE state_[c] = "unborn" /\ peer[c] = "away" -> "absent"
    [] view[c] = "none" /\ peer[c] # "away"     -> "waiting"
    [] view[c] = "up"                           -> "up"
    [] view[c] = "down" /\ Referenced(c)        -> "down"
    [] view[c] = "down" /\ Freed(c)             -> "freed"
    [] OTHER                                    -> "misordered"

(* The server keeps ConnLifecycle's promises: every client is announced,    *)
(* every client that leaves is announced as gone, and its connection is     *)
(* freed, after that and not before.                                        *)
Life == INSTANCE ConnLifecycle
          WITH stage <- [c \in Conns |-> Stage(c)],
               gone <- {c \in Conns : peer[c] = "closed"}
ImplementsConnLifecycle == Life!Spec
=============================================================================
