------------------------------ MODULE ChatServer ------------------------------
(***************************************************************************)
(* src/chat: ChatServer::onMessage on the io loops' threads, and the rooms *)
(* they share in RoomManager under mutex_.                                 *)
(*                                                                         *)
(* A loop's thread handles one command or one functor at a time.  Where a  *)
(* handler releases or waits for mutex_, or sends to one more member, it   *)
(* is cut into steps, and the other threads interleave.  join and leave    *)
(* hold mutex_ within one step.  A connection's output is the sequence of  *)
(* lines sendInLoop took; TcpConnection shows that it gets through.        *)
(* The text sent back to a command's own sender is left out.               *)
(***************************************************************************)
EXTENDS Naturals, Sequences

CONSTANTS Conns,      \* connections, all announced by onConnection
          Loops,      \* io loops
          Rooms,      \* room names
          Nicks,      \* nicks
          Empty,      \* the empty name: no room, no nick yet
          MaxLines    \* bound on the commands the clients send

ASSUME EmptyAssumption == Empty \notin Rooms
ASSUME LinesAssumption == MaxLines \in Nat

VARIABLES
  loopOf,     \* connection -> its loop, by round robin
  state_,     \* connection -> TcpConnection::state_
  nick,       \* connection -> Session::nick
  room,       \* connection -> Session::room
  rooms_,     \* name -> set of connections
  mutex_,     \* the set of the loop whose thread holds it
  doing,      \* loop -> what its thread is in the middle of
  pending,    \* loop -> sendInLoop functors
  said,       \* connection -> lines spoken on its behalf
  commands,   \* commands sent so far
  heard       \* connection -> lines sendInLoop took

vars == <<loopOf, nick, state_, room, rooms_, mutex_, doing, pending, said, commands, heard>>

Names == Rooms \cup {Empty}
Lines == [from : Conns, n : Nat]
Functors == [conn : Conns, line : Lines]
Line(c, n) == [from |-> c, n |-> n]

(* What a thread is in the middle of. *)
Idle == [op |-> "none"]
Announcing(c) == [op |-> "announce", conn |-> c]
Leaving(c) == [op |-> "leave", conn |-> c]
Sending(line, todo) == [op |-> "broadcast", line |-> line, todo |-> todo]
Naming(it, todo, names) == [op |-> "who", it |-> it, todo |-> todo, names |-> names]

NickLists == UNION {[named -> Nicks \cup {Empty}] : named \in SUBSET Conns}

Activities ==
  {Idle}
    \cup [op : {"announce", "leave"}, conn : Conns]
    \cup [op : {"broadcast"}, line : Lines, todo : SUBSET Conns]
    \cup [op : {"who"}, it : Names, todo : SUBSET Conns, names : NickLists]

Init ==
  /\ loopOf \in [Conns -> Loops]
  /\ state_ = [c \in Conns |-> "kConnected"]
  /\ nick = [c \in Conns |-> Empty]
  /\ room = [c \in Conns |-> Empty]
  /\ rooms_ = [r \in Names |-> {}]
  /\ mutex_ = {}
  /\ doing = [l \in Loops |-> Idle]
  /\ pending = [l \in Loops |-> << >>]
  /\ said = [c \in Conns |-> 0]
  /\ commands = 0
  /\ heard = [c \in Conns |-> << >>]

-----------------------------------------------------------------------------
(* Pieces of the handlers *)

Broadcasting(l) == doing[l].op = "broadcast"
Locking(l) == doing[l].op \in {"broadcast", "who"}

(* RoomManager::broadcast takes the lock and finds the room's members.  *)
BeginBroadcast(l, c) ==
  /\ mutex_ = {}
  /\ mutex_' = {l}
  /\ said' = [said EXCEPT ![c] = @ + 1]
  /\ doing' = [doing EXCEPT ![l] = Sending(Line(c, said[c] + 1), rooms_[room[c]])]

sendInLoopUnchecked(c, line) == heard' = [heard EXCEPT ![c] = Append(@, line)]

sendInLoop(c, line) ==
  IF state_[c] = "kConnected" THEN heard' = [heard EXCEPT ![c] = Append(@, line)]
                              ELSE UNCHANGED heard

(* TcpConnection::send on loop l's thread *)
send(l, c, line) ==
  IF state_[c] # "kConnected" THEN UNCHANGED <<heard, pending>>
  ELSE IF loopOf[c] = l THEN sendInLoop(c, line) /\ UNCHANGED pending
  ELSE /\ pending' = [pending EXCEPT ![loopOf[c]] = Append(@, [conn |-> c, line |-> line])]
       /\ UNCHANGED heard

unlockNever == UNCHANGED mutex_

unlock == mutex_' = {}

moveWithoutErase(c, r) == rooms_' = [rooms_ EXCEPT ![r] = @ \cup {c}]

(* RoomManager::join: out of the old room, into the new one. *)
move(c, r) ==
  rooms_' = [q \in Names |->
               (IF q = room[c] /\ q # Empty THEN rooms_[q] \ {c} ELSE rooms_[q])
                 \cup (IF q = r THEN {c} ELSE {})]

-----------------------------------------------------------------------------
(* Commands, one line of a client that has not closed.  A half-closed       *)
(* connection is still read.                                                *)

Command(l, c) ==
  /\ doing[l] = Idle
  /\ loopOf[c] = l
  /\ state_[c] # "kDisconnected"
  /\ commands < MaxLines
  /\ commands' = commands + 1

joinRefused(r) == r = Empty

join(l, c, r) ==
  /\ Command(l, c)
  /\ ~joinRefused(r)
  /\ mutex_ = {}
  /\ move(c, r)
  /\ room' = [room EXCEPT ![c] = r]
  /\ doing' = [doing EXCEPT ![l] = Announcing(c)]
  /\ UNCHANGED <<loopOf, nick, state_, mutex_, pending, said, heard>>

(* Between join and the broadcast of its announcement mutex_ is free. *)
announce(l, c) ==
  /\ doing[l] = Announcing(c)
  /\ BeginBroadcast(l, c)
  /\ UNCHANGED <<loopOf, nick, state_, room, rooms_, pending, commands, heard>>

speak(l, c) ==
  /\ Command(l, c)
  /\ room[c] # Empty
  /\ BeginBroadcast(l, c)
  /\ UNCHANGED <<loopOf, nick, state_, room, rooms_, pending, heard>>

(* RoomManager::setNick holds mutex_ although nick is the session's own:    *)
(* members() reads it on other threads.                                     *)
writeNick(l, c, n) ==
  /\ Command(l, c)
  /\ nick' = [nick EXCEPT ![c] = n]
  /\ UNCHANGED <<loopOf, state_, room, rooms_, mutex_, doing, pending, said, heard>>

setNickUnlocked(l, c, n) == writeNick(l, c, n)

setNick(l, c, n) == mutex_ = {} /\ writeNick(l, c, n)

NoNames == [c \in {} |-> Empty]

(* /who: RoomManager::members copies the nicks under the lock.  rooms_ has  *)
(* nothing under the empty name.                                            *)
who(l, c) ==
  /\ Command(l, c)
  /\ mutex_ = {} /\ mutex_' = {l}
  /\ doing' = [doing EXCEPT ![l] = Naming(room[c], rooms_[room[c]], NoNames)]
  /\ UNCHANGED <<loopOf, nick, state_, room, rooms_, pending, said, heard>>

withName(names, c) ==
  [d \in DOMAIN names \cup {c} |-> IF d = c THEN nick[c] ELSE names[d]]

nameMember(l, c) ==
  /\ doing[l].op = "who" /\ c \in doing[l].todo
  /\ doing' = [doing EXCEPT ![l] =
       Naming(doing[l].it, doing[l].todo \ {c}, withName(doing[l].names, c))]
  /\ UNCHANGED <<loopOf, nick, state_, room, rooms_, mutex_, pending, said, commands, heard>>

quit(l, c) ==
  /\ Command(l, c)
  /\ state_' = [state_ EXCEPT ![c] = "kDisconnecting"]
  /\ UNCHANGED <<loopOf, nick, room, rooms_, mutex_, doing, pending, said, heard>>

-----------------------------------------------------------------------------
sendToMember(l, c) ==
  /\ Broadcasting(l)
  /\ c \in doing[l].todo
  /\ send(l, c, doing[l].line)
  /\ doing' = [doing EXCEPT ![l] = Sending(doing[l].line, doing[l].todo \ {c})]
  /\ UNCHANGED <<loopOf, nick, state_, room, rooms_, mutex_, said, commands>>

(* broadcast or members returns and lets go of the lock. *)
lockDone(l) ==
  /\ Locking(l)
  /\ doing[l].todo = {}
  /\ unlock
  /\ doing' = [doing EXCEPT ![l] = Idle]
  /\ UNCHANGED <<loopOf, nick, state_, room, rooms_, pending, said, commands, heard>>

(* handleClose writes state_, then onConnection takes the connection out.  *)
handleClose(l, c) ==
  /\ doing[l] = Idle
  /\ loopOf[c] = l
  /\ state_[c] # "kDisconnected"
  /\ state_' = [state_ EXCEPT ![c] = "kDisconnected"]
  /\ doing' = [doing EXCEPT ![l] = Leaving(c)]
  /\ UNCHANGED <<loopOf, nick, room, rooms_, mutex_, pending, said, commands, heard>>

leave(l, c) ==
  /\ doing[l] = Leaving(c)
  /\ mutex_ = {}
  /\ rooms_' = IF room[c] # Empty THEN [rooms_ EXCEPT ![room[c]] = @ \ {c}] ELSE rooms_
  /\ doing' = [doing EXCEPT ![l] = Idle]
  /\ UNCHANGED <<loopOf, nick, state_, room, mutex_, pending, said, commands, heard>>

runFunctor(l) ==
  /\ doing[l] = Idle
  /\ pending[l] # << >>
  /\ pending' = [pending EXCEPT ![l] = Tail(@)]
  /\ sendInLoop(Head(pending[l]).conn, Head(pending[l]).line)
  /\ UNCHANGED <<loopOf, nick, state_, room, rooms_, mutex_, doing, said, commands>>

-----------------------------------------------------------------------------
(* What a thread has to finish. *)
Continue(l) ==
  \/ lockDone(l)
  \/ \E c \in Conns : announce(l, c) \/ sendToMember(l, c) \/ nameMember(l, c) \/ leave(l, c)

Next ==
  \E l \in Loops :
    \/ Continue(l) \/ runFunctor(l)
    \/ \E c \in Conns : \/ speak(l, c) \/ who(l, c) \/ quit(l, c) \/ handleClose(l, c)
                        \/ \E n \in Nicks : setNick(l, c, n)
                        \/ \E r \in Names : join(l, c, r)

SafeSpec == Init /\ [][Next]_vars

(* A thread goes on with what it is doing and runs its functors.  mutex_    *)
(* need not be fair: whoever holds it lets go, and commands run out.        *)
Spec == SafeSpec /\ \A l \in Loops : WF_vars(Continue(l)) /\ WF_vars(runFunctor(l))

-----------------------------------------------------------------------------
(* Properties *)

ChatTypeOK ==
  /\ loopOf \in [Conns -> Loops]
  /\ state_ \in [Conns -> {"kConnected", "kDisconnecting", "kDisconnected"}]
  /\ room \in [Conns -> Names]
  /\ rooms_ \in [Names -> SUBSET Conns]
  /\ nick \in [Conns -> Nicks \cup {Empty}]
  /\ mutex_ = {l \in Loops : Locking(l)}
  /\ doing \in [Loops -> Activities]
  /\ pending \in [Loops -> Seq(Functors)]
  /\ \A l \in Loops : \A i \in 1..Len(pending[l]) : loopOf[pending[l][i].conn] = l
  /\ said \in [Conns -> Nat] /\ commands \in 0..MaxLines
  /\ heard \in [Conns -> Seq(Lines)]

(* rooms_ and the sessions agree: a connection is in the one room its       *)
(* session names and in no other, in none before its first join, and in     *)
(* none once it has left, under the name it had.                            *)
RoomsMatchSessions ==
  \A c \in Conns, r \in Names :
    c \in rooms_[r] <=>
      /\ r = room[c] /\ r # Empty
      /\ state_[c] = "kDisconnected" => doing[loopOf[c]] = Leaving(c)

(* What /who has copied so far is the nicks its members have, all at one    *)
(* moment, and the members are those of the room: no nick, join or leave of *)
(* another thread comes between.                                            *)
WhoIsSnapshot ==
  \A l \in Loops : doing[l].op = "who" =>
    doing[l].names = [c \in rooms_[doing[l].it] \ doing[l].todo |-> nick[c]]

(* The inductive strengthening: one thread at a time holds mutex_; it has   *)
(* members of one room still to do, and a connection about to leave is a    *)
(* closed one of the thread's own.                                          *)
OneHolder == \A k, l \in Loops : Locking(k) /\ Locking(l) => k = l

TodoInRoom == \A l \in Loops : doing[l].op = "who" => doing[l].todo \subseteq rooms_[doing[l].it]

LeavingOwn ==
  \A l \in Loops : doing[l].op = "leave" =>
    loopOf[doing[l].conn] = l /\ state_[doing[l].conn] = "kDisconnected"

ChatIInv ==
  /\ ChatTypeOK /\ RoomsMatchSessions /\ WhoIsSnapshot
  /\ OneHolder /\ TodoInRoom /\ LeavingOwn

(* The strengthening that delivery rests on.  No line is ahead of said; a   *)
(* thread speaks for its own connections, and what other threads send them  *)
(* comes through pending; and what one speaker has said to one member lies  *)
(* there in its order, before what is being broadcast.                      *)
Spoken(line) == line.n <= said[line.from]

LinesSpoken ==
  /\ \A c \in Conns : \A i \in 1..Len(heard[c]) : Spoken(heard[c][i])
  /\ \A l \in Loops : \A i \in 1..Len(pending[l]) : Spoken(pending[l][i].line)
  /\ \A l \in Loops : Broadcasting(l) => Spoken(doing[l].line)

OwnSpeakers ==
  \A l \in Loops :
    /\ doing[l].op = "announce" => loopOf[doing[l].conn] = l
    /\ Broadcasting(l) => loopOf[doing[l].line.from] = l
    /\ \A i \in 1..Len(pending[l]) : loopOf[pending[l][i].line.from] # l

Earlier(functor, c, line) ==
  functor.conn = c /\ functor.line.from = line.from => functor.line.n < line.n

PendingInOrder ==
  \A l \in Loops : \A i, j \in 1..Len(pending[l]) :
    i < j => Earlier(pending[l][i], pending[l][j].conn, pending[l][j].line)

BroadcastIsLast ==
  \A k, l \in Loops : Broadcasting(k) =>
    \A c \in doing[k].todo : \A i \in 1..Len(pending[l]) :
      Earlier(pending[l][i], c, doing[k].line)

DeliveryInv == LinesSpoken /\ OwnSpeakers /\ PendingInOrder /\ BroadcastIsLast

(* The chat keeps ChatRooms' promises. *)
Owed(c) ==
  IF state_[c] # "kConnected" THEN {}
  ELSE {doing[l].line : l \in {l \in Loops : Broadcasting(l) /\ c \in doing[l].todo}}
       \cup {p.line : p \in {pending[loopOf[c]][i] : i \in {i \in DOMAIN pending[loopOf[c]] :
                                                             pending[loopOf[c]][i].conn = c}}}

CR == INSTANCE ChatRooms
        WITH members <- [r \in Rooms |-> rooms_[r]],
             listening <- {c \in Conns : state_[c] = "kConnected"},
             owed <- [c \in Conns |-> Owed(c)]
ImplementsChatRooms == CR!Spec
=============================================================================
