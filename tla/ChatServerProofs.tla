--------------------------- MODULE ChatServerProofs ---------------------------
(***************************************************************************)
(* Machine-checked proofs about ChatServer, for any number of connections, *)
(* loops, rooms and nicks: the rooms agree with the sessions, /who names   *)
(* the members of one moment, and the threads together do what ChatRooms   *)
(* promises.                                                               *)
(***************************************************************************)
EXTENDS ChatServer, SequenceTheorems, TLAPS

-----------------------------------------------------------------------------
(* What a thread is in the middle of *)

(* The parts of an activity, by its kind. *)
LEMMA ActivityParts ==
  ASSUME NEW a \in Activities
  PROVE  /\ a.op \in {"none", "announce", "leave", "broadcast", "who"}
         /\ a.op \in {"announce", "leave"} => a.conn \in Conns
         /\ a.op = "broadcast" => a.line \in Lines /\ a.todo \in SUBSET Conns
         /\ a.op = "who" => a.it \in Names /\ a.todo \in SUBSET Conns /\ a.names \in NickLists
BY DEF Activities, Idle

(* The activities the handlers make. *)
LEMMA ActivitiesMade ==
  /\ Idle \in Activities /\ Idle.op = "none"
  /\ \A c \in Conns : /\ Announcing(c) \in Activities /\ Announcing(c).op = "announce"
                      /\ Leaving(c) \in Activities /\ Leaving(c).op = "leave"
                      /\ Leaving(c).conn = c
  /\ \A line \in Lines, todo \in SUBSET Conns :
       /\ Sending(line, todo) \in Activities /\ Sending(line, todo).op = "broadcast"
  /\ \A it \in Names, todo \in SUBSET Conns, names \in NickLists :
       /\ Naming(it, todo, names) \in Activities /\ Naming(it, todo, names).op = "who"
       /\ Naming(it, todo, names).it = it
       /\ Naming(it, todo, names).todo = todo
       /\ Naming(it, todo, names).names = names
BY DEF Activities, Idle, Announcing, Leaving, Sending, Naming

-----------------------------------------------------------------------------
(* Types *)

(* Adding an element to one of several queues. *)
LEMMA Queued ==
  ASSUME NEW S, NEW T, NEW f \in [S -> Seq(T)], NEW i \in S, NEW e \in T
  PROVE  [f EXCEPT ![i] = Append(@, e)] \in [S -> Seq(T)]
<1>1. Append(f[i], e) \in Seq(T)
  BY AppendProperties
<1> QED BY <1>1

(* send() and sendInLoop() keep the types of what they write to. *)
LEMMA SendTypes ==
  ASSUME ChatTypeOK, loopOf' = loopOf,
         NEW l \in Loops, NEW c \in Conns, NEW line \in Lines,
         send(l, c, line)
  PROVE  /\ heard' \in [Conns -> Seq(Lines)]
         /\ pending' \in [Loops -> Seq(Functors)]
         /\ \A k \in Loops : \A i \in 1..Len(pending'[k]) : loopOf'[pending'[k][i].conn] = k
<1> DEFINE m == loopOf[c]
           e == [conn |-> c, line |-> line]
<1>0. /\ m \in Loops /\ e \in Functors
      /\ heard \in [Conns -> Seq(Lines)] /\ pending \in [Loops -> Seq(Functors)]
      /\ \A k \in Loops : \A i \in 1..Len(pending[k]) : loopOf[pending[k][i].conn] = k
  BY DEF ChatTypeOK, Functors
<1>e. e.conn = c
  OBVIOUS
<1>1. heard' \in [Conns -> Seq(Lines)]
  <2>1. [heard EXCEPT ![c] = Append(@, line)] \in [Conns -> Seq(Lines)]
    BY <1>0, Queued
  <2> QED BY <1>0, <2>1 DEF send, sendInLoop
<1>2. CASE pending' = pending
  BY <1>0, <1>1, <1>2
<1>3. CASE pending' = [pending EXCEPT ![m] = Append(@, e)]
  <2>1. pending' \in [Loops -> Seq(Functors)]
    BY <1>0, <1>3, Queued
  <2>2. ASSUME NEW k \in Loops, NEW i \in 1..Len(pending'[k])
        PROVE  loopOf[pending'[k][i].conn] = k
    <3>1. CASE k # m
      BY <3>1, <1>0, <1>3, <2>2
    <3>2. CASE k = m
      <4>1. pending'[k] = Append(pending[m], e) /\ pending[m] \in Seq(Functors)
        BY <3>2, <1>0, <1>3
      <4>2. /\ Len(pending'[k]) = Len(pending[m]) + 1
            /\ \A j \in 1..Len(pending[m]) : pending'[k][j] = pending[m][j]
            /\ pending'[k][Len(pending[m]) + 1] = e
            /\ Len(pending[m]) \in Nat
        BY <4>1, AppendProperties, LenProperties, <1>0
      <4>3. i \in 1..Len(pending[m]) \/ i = Len(pending[m]) + 1
        BY <4>2, <2>2
      <4>4. CASE i \in 1..Len(pending[m])
        BY <4>2, <4>4, <3>2, <1>0
      <4>5. CASE i = Len(pending[m]) + 1
        BY <4>2, <4>5, <3>2, <1>e
      <4> QED BY <4>3, <4>4, <4>5
    <3> QED BY <3>1, <3>2
  <2> QED BY <1>1, <2>1, <2>2
<1> QED BY <1>1, <1>2, <1>3 DEF send

-----------------------------------------------------------------------------
(* One thread's activity changes *)

(* mutex_ is held by the thread whose activity needs it, and by one only,   *)
(* if it is taken when free and let go by its holder.                       *)
LEMMA LockMoves ==
  ASSUME ChatTypeOK, OneHolder, NEW l \in Loops, NEW a \in Activities,
         doing' = [doing EXCEPT ![l] = a],
         a.op \in {"broadcast", "who"} => mutex_ = {} \/ Locking(l),
         mutex_' = IF a.op \in {"broadcast", "who"} THEN {l}
                   ELSE IF Locking(l) THEN {} ELSE mutex_
  PROVE  mutex_' = {k \in Loops : Locking(k)'} /\ OneHolder'
<1>1. mutex_ = {k \in Loops : Locking(k)} /\ doing \in [Loops -> Activities]
  BY DEF ChatTypeOK
<1>2. doing'[l] = a /\ \A k \in Loops \ {l} : doing'[k] = doing[k]
  BY <1>1
<1>3. /\ Locking(l)' <=> a.op \in {"broadcast", "who"}
      /\ \A k \in Loops \ {l} : Locking(k)' <=> Locking(k)
  BY <1>2 DEF Locking
<1>4. CASE a.op \in {"broadcast", "who"}
  <2>1. \A k \in Loops \ {l} : ~Locking(k)
    BY <1>1, <1>4 DEF OneHolder
  <2> QED BY <1>3, <1>4, <2>1 DEF OneHolder
<1>5. CASE a.op \notin {"broadcast", "who"} /\ Locking(l)
  <2>1. \A k \in Loops \ {l} : ~Locking(k)
    BY <1>5 DEF OneHolder
  <2> QED BY <1>3, <1>5, <2>1 DEF OneHolder
<1>6. CASE a.op \notin {"broadcast", "who"} /\ ~Locking(l)
  BY <1>1, <1>3, <1>6 DEF OneHolder
<1> QED BY <1>4, <1>5, <1>6

(* Where neither rooms, sessions nor a leaving thread are touched, the      *)
(* rooms go on matching the sessions.                                       *)
LEMMA RoomsMoves ==
  ASSUME ChatTypeOK, RoomsMatchSessions, NEW l \in Loops, NEW a \in Activities,
         doing' = [doing EXCEPT ![l] = a], doing[l].op # "leave", a.op # "leave",
         loopOf' = loopOf, room' = room, rooms_' = rooms_,
         \A c \in Conns : state_'[c] = "kDisconnected" <=> state_[c] = "kDisconnected"
  PROVE  RoomsMatchSessions'
<1>1. loopOf \in [Conns -> Loops] /\ doing \in [Loops -> Activities]
  BY DEF ChatTypeOK
<1>2. ASSUME NEW c \in Conns
      PROVE  doing'[loopOf[c]] = Leaving(c) <=> doing[loopOf[c]] = Leaving(c)
  <2>1. Leaving(c).op = "leave" BY ActivitiesMade
  <2> QED BY <1>1, <2>1
<1> QED BY <1>2 DEF RoomsMatchSessions

(* A thread that is not naming members does not disturb one that is, if it  *)
(* leaves rooms and nicks alone or takes mutex_.                            *)
LEMMA WhoMoves ==
  ASSUME ChatTypeOK, WhoIsSnapshot, TodoInRoom, NEW l \in Loops, NEW a \in Activities,
         doing' = [doing EXCEPT ![l] = a], a.op # "who",
         (nick' = nick /\ rooms_' = rooms_) \/ mutex_ = {}
  PROVE  WhoIsSnapshot' /\ TodoInRoom'
<1>1. doing \in [Loops -> Activities] /\ mutex_ = {k \in Loops : Locking(k)}
  BY DEF ChatTypeOK
<1>2. ASSUME NEW k \in Loops, doing'[k].op = "who" PROVE doing'[k] = doing[k] /\ mutex_ # {}
  BY <1>1, <1>2 DEF Locking
<1> QED BY <1>2 DEF WhoIsSnapshot, TodoInRoom

(* A thread may be about to take out a closed connection of its own.  *)
LEMMA LeavingMoves ==
  ASSUME ChatTypeOK, LeavingOwn, NEW l \in Loops, NEW a \in Activities,
         doing' = [doing EXCEPT ![l] = a], loopOf' = loopOf,
         a.op = "leave" => loopOf[a.conn] = l /\ state_'[a.conn] = "kDisconnected",
         \A c \in Conns : state_[c] = "kDisconnected" => state_'[c] = "kDisconnected"
  PROVE  LeavingOwn'
<1>1. doing \in [Loops -> Activities]
  BY DEF ChatTypeOK
<1>2. ASSUME NEW k \in Loops, doing'[k].op = "leave"
      PROVE  loopOf[doing'[k].conn] = k /\ state_'[doing'[k].conn] = "kDisconnected"
  <2>1. CASE k = l BY <2>1, <1>1, <1>2
  <2>2. CASE k # l
    <3>1. doing'[k] = doing[k] /\ doing[k] \in Activities BY <2>2, <1>1
    <3>2. doing[k].conn \in Conns BY <3>1, <1>2, ActivityParts
    <3> QED BY <3>1, <3>2, <1>2 DEF LeavingOwn
  <2> QED BY <2>1, <2>2
<1> QED BY <1>2 DEF LeavingOwn

-----------------------------------------------------------------------------
(* One step of a thread.  Each lemma names the activity a the step puts     *)
(* thread l in, and applies the lemmas above to it.                         *)

(* RoomManager::broadcast takes the lock, in announce and in speak.  *)
LEMMA BroadcastStep ==
  ASSUME ChatIInv, NEW l \in Loops, NEW c \in Conns, BeginBroadcast(l, c),
         doing[l].op \in {"none", "announce"}, commands' \in 0..MaxLines,
         UNCHANGED <<loopOf, nick, state_, room, rooms_, pending, heard>>
  PROVE  ChatIInv'
<1> DEFINE a == Sending(Line(c, said[c] + 1), rooms_[room[c]])
<1>1. /\ loopOf' = loopOf /\ nick' = nick /\ state_' = state_ /\ room' = room
      /\ rooms_' = rooms_ /\ pending' = pending /\ heard' = heard
      /\ mutex_ = {} /\ mutex_' = {l} /\ said' = [said EXCEPT ![c] = @ + 1]
      /\ doing' = [doing EXCEPT ![l] = a]
  BY DEF BeginBroadcast
<1>2. a \in Activities /\ a.op = "broadcast"
  <2>1. Line(c, said[c] + 1) \in Lines
    BY DEF ChatIInv, ChatTypeOK, Lines, Line
  <2>2. rooms_[room[c]] \in SUBSET Conns
    BY DEF ChatIInv, ChatTypeOK
  <2> QED BY <2>1, <2>2, ActivitiesMade
<1> HIDE DEF a
<1>3. mutex_' = {k \in Loops : Locking(k)'} /\ OneHolder'
  BY <1>1, <1>2, LockMoves DEF ChatIInv
<1>4. ChatTypeOK'
  BY <1>1, <1>2, <1>3 DEF ChatIInv, ChatTypeOK
<1>5. RoomsMatchSessions'
  BY <1>1, <1>2, RoomsMoves DEF ChatIInv
<1>6. WhoIsSnapshot' /\ TodoInRoom'
  BY <1>1, <1>2, WhoMoves DEF ChatIInv
<1>7. LeavingOwn'
  BY <1>1, <1>2, LeavingMoves DEF ChatIInv
<1> QED BY <1>3, <1>4, <1>5, <1>6, <1>7 DEF ChatIInv

(* A command leaves the counter in its bounds. *)
LEMMA Commanded ==
  ASSUME ChatTypeOK, NEW l \in Loops, NEW c \in Conns, Command(l, c)
  PROVE  /\ commands' \in 0..MaxLines
         /\ doing[l] = Idle /\ doing[l].op = "none" /\ ~Locking(l)
         /\ loopOf[c] = l /\ state_[c] # "kDisconnected"
BY ActivitiesMade, LinesAssumption DEF Command, ChatTypeOK, Locking

LEMMA AnnounceStep ==
  ASSUME ChatIInv, NEW l \in Loops, NEW c \in Conns, announce(l, c)
  PROVE  ChatIInv'
<1>1. doing[l].op = "announce" /\ commands' = commands
  BY ActivitiesMade DEF announce
<1> QED BY <1>1, BroadcastStep DEF announce, ChatIInv, ChatTypeOK

LEMMA SpeakStep ==
  ASSUME ChatIInv, NEW l \in Loops, NEW c \in Conns, speak(l, c)
  PROVE  ChatIInv'
<1>1. doing[l].op = "none" /\ commands' \in 0..MaxLines
  BY Commanded DEF speak, ChatIInv
<1> QED BY <1>1, BroadcastStep DEF speak

(* RoomManager::join *)
LEMMA JoinStep ==
  ASSUME ChatIInv, NEW l \in Loops, NEW c \in Conns, NEW r \in Names, join(l, c, r)
  PROVE  ChatIInv'
<1> DEFINE a == Announcing(c)
<1>1. /\ loopOf' = loopOf /\ nick' = nick /\ state_' = state_ /\ pending' = pending
      /\ heard' = heard /\ said' = said /\ mutex_ = {} /\ mutex_' = mutex_
      /\ room' = [room EXCEPT ![c] = r] /\ r # Empty
      /\ doing' = [doing EXCEPT ![l] = a] /\ move(c, r)
  BY DEF join, joinRefused
<1>2. /\ commands' \in 0..MaxLines /\ doing[l] = Idle /\ doing[l].op = "none" /\ ~Locking(l)
      /\ loopOf[c] = l /\ state_[c] # "kDisconnected"
  BY Commanded DEF join, ChatIInv
<1>3. a \in Activities /\ a.op = "announce"
  BY ActivitiesMade
<1> HIDE DEF a
<1>4. mutex_' = {k \in Loops : Locking(k)'} /\ OneHolder'
  BY <1>1, <1>2, <1>3, LockMoves DEF ChatIInv
<1>5. ChatTypeOK'
  BY <1>1, <1>2, <1>3, <1>4 DEF ChatIInv, ChatTypeOK, move
<1>6. RoomsMatchSessions'
  <2> SUFFICES ASSUME NEW d \in Conns, NEW q \in Names
               PROVE  d \in rooms_'[q] <=>
                        /\ q = room'[d] /\ q # Empty
                        /\ state_'[d] = "kDisconnected" => doing'[loopOf'[d]] = Leaving(d)
    BY DEF RoomsMatchSessions
  <2>1. /\ rooms_ \in [Names -> SUBSET Conns] /\ room \in [Conns -> Names]
        /\ loopOf \in [Conns -> Loops] /\ doing \in [Loops -> Activities]
    BY DEF ChatIInv, ChatTypeOK
  <2>2. d \in rooms_[q] <=>
          /\ q = room[d] /\ q # Empty
          /\ state_[d] = "kDisconnected" => doing[loopOf[d]] = Leaving(d)
    BY DEF ChatIInv, RoomsMatchSessions
  <2>3. rooms_'[q] = (IF q = room[c] /\ q # Empty THEN rooms_[q] \ {c} ELSE rooms_[q])
                       \cup (IF q = r THEN {c} ELSE {})
    BY <1>1 DEF move
  <2>4. CASE d = c
    BY <1>1, <1>2, <2>1, <2>2, <2>3, <2>4
  <2>5. CASE d # c
    <3>1. doing'[loopOf[d]] = Leaving(d) <=> doing[loopOf[d]] = Leaving(d)
      <4>1. Leaving(d).op = "leave" BY ActivitiesMade
      <4> QED BY <1>1, <1>2, <1>3, <2>1, <4>1
    <3>2. room'[d] = room[d] BY <1>1, <2>1, <2>5
    <3>3. d \in rooms_'[q] <=> d \in rooms_[q] BY <2>3, <2>5
    <3> QED BY <1>1, <2>2, <3>1, <3>2, <3>3
  <2> QED BY <2>4, <2>5
<1>7. WhoIsSnapshot' /\ TodoInRoom'
  BY <1>1, <1>3, WhoMoves DEF ChatIInv
<1>8. LeavingOwn'
  BY <1>1, <1>3, LeavingMoves DEF ChatIInv
<1> QED BY <1>4, <1>5, <1>6, <1>7, <1>8 DEF ChatIInv

(* RoomManager::setNick: with mutex_ free, nobody is in members().  *)
LEMMA NickStep ==
  ASSUME ChatIInv, NEW l \in Loops, NEW c \in Conns, NEW n \in Nicks, setNick(l, c, n)
  PROVE  ChatIInv'
<1>1. /\ loopOf' = loopOf /\ state_' = state_ /\ room' = room /\ rooms_' = rooms_
      /\ pending' = pending /\ heard' = heard /\ said' = said /\ doing' = doing
      /\ mutex_ = {} /\ mutex_' = mutex_ /\ nick' = [nick EXCEPT ![c] = n]
  BY DEF setNick, writeNick
<1>2. commands' \in 0..MaxLines
  BY Commanded DEF setNick, writeNick, ChatIInv
<1>3. ChatTypeOK'
  BY <1>1, <1>2 DEF ChatIInv, ChatTypeOK, Locking
<1>4. RoomsMatchSessions' /\ OneHolder' /\ TodoInRoom' /\ LeavingOwn'
  BY <1>1 DEF ChatIInv, RoomsMatchSessions, OneHolder, TodoInRoom, LeavingOwn, Locking
<1>5. WhoIsSnapshot'
  <2>1. \A k \in Loops : doing[k].op # "who"
    BY <1>1 DEF ChatIInv, ChatTypeOK, Locking
  <2> QED BY <1>1, <2>1 DEF WhoIsSnapshot
<1> QED BY <1>3, <1>4, <1>5 DEF ChatIInv

(* A step that makes thread l name members: what it has named are the       *)
(* members no longer to do.                                                 *)
LEMMA NamingStep ==
  ASSUME ChatIInv, NEW l \in Loops, NEW it \in Names, NEW todo \in SUBSET Conns,
         NEW names \in NickLists,
         doing' = [doing EXCEPT ![l] = Naming(it, todo, names)],
         todo \subseteq rooms_[it],
         names = [d \in rooms_[it] \ todo |-> nick[d]],
         doing[l].op # "leave", mutex_ = {} \/ Locking(l), mutex_' = {l},
         commands' \in 0..MaxLines,
         UNCHANGED <<loopOf, nick, state_, room, rooms_, pending, said, heard>>
  PROVE  ChatIInv'
<1> DEFINE a == Naming(it, todo, names)
<1>1. a \in Activities /\ a.op = "who" /\ a.it = it /\ a.todo = todo /\ a.names = names
  BY ActivitiesMade
<1> HIDE DEF a
<1>2. doing' = [doing EXCEPT ![l] = a] /\ doing \in [Loops -> Activities]
  BY DEF ChatIInv, ChatTypeOK, a
<1>3. mutex_' = {k \in Loops : Locking(k)'} /\ OneHolder'
  BY <1>1, <1>2, LockMoves DEF ChatIInv
<1>4. ChatTypeOK'
  BY <1>1, <1>2, <1>3 DEF ChatIInv, ChatTypeOK
<1>5. RoomsMatchSessions'
  BY <1>1, <1>2, RoomsMoves DEF ChatIInv
<1>6. LeavingOwn'
  BY <1>1, <1>2, LeavingMoves DEF ChatIInv
<1>7. WhoIsSnapshot' /\ TodoInRoom'
  <2>0. nick' = nick /\ rooms_' = rooms_
    OBVIOUS
  <2>1. ASSUME NEW k \in Loops, doing'[k].op = "who"
        PROVE  /\ doing'[k].names = [d \in rooms_[doing'[k].it] \ doing'[k].todo |-> nick[d]]
               /\ doing'[k].todo \subseteq rooms_[doing'[k].it]
    <3>1. CASE k = l BY <3>1, <1>1, <1>2
    <3>2. CASE k # l
      <4>1. doing'[k] = doing[k] BY <3>2, <1>2
      <4> QED BY <2>1, <4>1 DEF ChatIInv, WhoIsSnapshot, TodoInRoom
    <3> QED BY <3>1, <3>2
  <2>2. WhoIsSnapshot'
    <3> SUFFICES ASSUME NEW k \in Loops, doing'[k].op = "who"
                 PROVE  doing'[k].names = [d \in rooms_'[doing'[k].it] \ doing'[k].todo |-> nick'[d]]
      BY DEF WhoIsSnapshot
    <3>1. doing'[k].names = [d \in rooms_[doing'[k].it] \ doing'[k].todo |-> nick[d]]
      BY <2>1
    <3>2. [d \in rooms_[doing'[k].it] \ doing'[k].todo |-> nick[d]]
            = [d \in rooms_'[doing'[k].it] \ doing'[k].todo |-> nick'[d]]
      BY <2>0
    <3> QED BY <3>1, <3>2, Zenon
  <2>3. TodoInRoom' BY <2>0, <2>1 DEF TodoInRoom
  <2> QED BY <2>2, <2>3
<1> QED BY <1>3, <1>4, <1>5, <1>6, <1>7 DEF ChatIInv

(* RoomManager::members takes the lock.  *)
LEMMA WhoStep ==
  ASSUME ChatIInv, NEW l \in Loops, NEW c \in Conns, who(l, c)
  PROVE  ChatIInv'
<1> DEFINE it == room[c]
           todo == rooms_[it]
<1>1. it \in Names /\ todo \in SUBSET Conns
  BY DEF ChatIInv, ChatTypeOK
<1>2. NoNames \in NickLists /\ NoNames = [d \in rooms_[it] \ todo |-> nick[d]]
  <2>1. NoNames \in [{} -> Nicks \cup {Empty}] BY DEF NoNames
  <2>2. rooms_[it] \ todo = {} OBVIOUS
  <2> QED BY <2>1, <2>2 DEF NickLists, NoNames
<1>3. commands' \in 0..MaxLines /\ doing[l].op = "none"
  BY Commanded DEF who, ChatIInv
<1>4. /\ doing' = [doing EXCEPT ![l] = Naming(it, todo, NoNames)]
      /\ mutex_ = {} /\ mutex_' = {l}
      /\ UNCHANGED <<loopOf, nick, state_, room, rooms_, pending, said, heard>>
  BY DEF who
<1> QED BY <1>1, <1>2, <1>3, <1>4, NamingStep

(* RoomManager::members goes on to one more member.  *)
LEMMA NameMemberStep ==
  ASSUME ChatIInv, NEW l \in Loops, NEW c \in Conns, nameMember(l, c)
  PROVE  ChatIInv'
<1> DEFINE it == doing[l].it
           todo == doing[l].todo \ {c}
           names == withName(doing[l].names, c)
<1>0. doing \in [Loops -> Activities] /\ nick \in [Conns -> Nicks \cup {Empty}]
      /\ rooms_ \in [Names -> SUBSET Conns]
  BY DEF ChatIInv, ChatTypeOK
<1>1. doing[l].op = "who" /\ c \in doing[l].todo
  BY DEF nameMember
<1>2. it \in Names /\ doing[l].todo \in SUBSET Conns
  BY <1>0, <1>1, ActivityParts
<1>3. /\ doing[l].names = [d \in rooms_[it] \ doing[l].todo |-> nick[d]]
      /\ doing[l].todo \subseteq rooms_[it]
  BY <1>1 DEF ChatIInv, WhoIsSnapshot, TodoInRoom
<1>4. names = [d \in rooms_[it] \ todo |-> nick[d]]
  <2>1. DOMAIN doing[l].names \cup {c} = rooms_[it] \ todo
    BY <1>1, <1>3
  <2>2. \A d \in DOMAIN doing[l].names : doing[l].names[d] = nick[d]
    BY <1>3
  <2> QED BY <2>1, <2>2 DEF withName
<1>5. names \in NickLists
  <2>1. rooms_[it] \ todo \in SUBSET Conns BY <1>0, <1>2
  <2>2. names \in [rooms_[it] \ todo -> Nicks \cup {Empty}] BY <1>0, <1>4, <2>1
  <2> QED BY <2>1, <2>2 DEF NickLists
<1>6. Locking(l) /\ mutex_ = {l}
  <2>1. Locking(l) BY <1>1 DEF Locking
  <2> QED BY <2>1 DEF ChatIInv, ChatTypeOK, OneHolder
<1>7. /\ doing' = [doing EXCEPT ![l] = Naming(it, todo, names)] /\ mutex_' = mutex_
      /\ commands' = commands
      /\ UNCHANGED <<loopOf, nick, state_, room, rooms_, pending, said, heard>>
  BY DEF nameMember
<1>8. commands' \in 0..MaxLines /\ todo \in SUBSET Conns /\ todo \subseteq rooms_[it]
  BY <1>2, <1>3, <1>7 DEF ChatIInv, ChatTypeOK
<1> HIDE DEF it, todo, names
<1> QED BY <1>1, <1>2, <1>4, <1>5, <1>6, <1>7, <1>8, NamingStep

(* /quit: the connection is closing, not closed. *)
LEMMA QuitStep ==
  ASSUME ChatIInv, NEW l \in Loops, NEW c \in Conns, quit(l, c)
  PROVE  ChatIInv'
<1>1. /\ loopOf' = loopOf /\ nick' = nick /\ room' = room /\ rooms_' = rooms_
      /\ pending' = pending /\ heard' = heard /\ said' = said /\ doing' = doing
      /\ mutex_' = mutex_ /\ state_' = [state_ EXCEPT ![c] = "kDisconnecting"]
  BY DEF quit
<1>2. commands' \in 0..MaxLines /\ state_[c] # "kDisconnected"
  BY Commanded DEF quit, ChatIInv
<1>3. ChatTypeOK'
  BY <1>1, <1>2 DEF ChatIInv, ChatTypeOK, Locking
<1>4. \A d \in Conns : state_'[d] = "kDisconnected" <=> state_[d] = "kDisconnected"
  BY <1>1, <1>2 DEF ChatIInv, ChatTypeOK
<1>5. RoomsMatchSessions'
  BY <1>1, <1>4 DEF ChatIInv, RoomsMatchSessions
<1>6. WhoIsSnapshot' /\ OneHolder' /\ TodoInRoom'
  BY <1>1 DEF ChatIInv, WhoIsSnapshot, OneHolder, TodoInRoom, Locking
<1>7. LeavingOwn'
  <2> SUFFICES ASSUME NEW k \in Loops, doing[k].op = "leave"
               PROVE  loopOf[doing[k].conn] = k /\ state_'[doing[k].conn] = "kDisconnected"
    BY <1>1 DEF LeavingOwn
  <2>1. doing[k] \in Activities BY DEF ChatIInv, ChatTypeOK
  <2>2. doing[k].conn \in Conns BY <2>1, ActivityParts
  <2> QED BY <2>2, <1>4 DEF ChatIInv, LeavingOwn
<1> QED BY <1>3, <1>5, <1>6, <1>7 DEF ChatIInv

(* RoomManager::broadcast goes on to one more member.  *)
LEMMA SendStep ==
  ASSUME ChatIInv, NEW l \in Loops, NEW c \in Conns, sendToMember(l, c)
  PROVE  ChatIInv'
<1> DEFINE line == doing[l].line
           todo == doing[l].todo \ {c}
           a == Sending(line, todo)
<1>0. doing \in [Loops -> Activities]
  BY DEF ChatIInv, ChatTypeOK
<1>1. /\ loopOf' = loopOf /\ nick' = nick /\ state_' = state_ /\ room' = room
      /\ rooms_' = rooms_ /\ mutex_' = mutex_ /\ said' = said /\ commands' = commands
      /\ doing' = [doing EXCEPT ![l] = a] /\ doing[l].op = "broadcast"
      /\ send(l, c, line)
  BY DEF sendToMember, Broadcasting
<1>2. line \in Lines /\ todo \in SUBSET Conns
  BY <1>0, <1>1, ActivityParts
<1>3. a \in Activities /\ a.op = "broadcast"
  BY <1>2, ActivitiesMade
<1>4. Locking(l) /\ mutex_ = {l}
  <2>1. Locking(l) BY <1>1 DEF Locking
  <2> QED BY <2>1 DEF ChatIInv, ChatTypeOK, OneHolder
<1> HIDE DEF a, line, todo
<1>5. mutex_' = {k \in Loops : Locking(k)'} /\ OneHolder'
  BY <1>1, <1>3, <1>4, LockMoves DEF ChatIInv
<1>6. /\ heard' \in [Conns -> Seq(Lines)]
      /\ pending' \in [Loops -> Seq(Functors)]
      /\ \A k \in Loops : \A i \in 1..Len(pending'[k]) : loopOf'[pending'[k][i].conn] = k
  BY <1>1, <1>2, SendTypes DEF ChatIInv
<1>7. ChatTypeOK'
  BY <1>1, <1>3, <1>5, <1>6 DEF ChatIInv, ChatTypeOK
<1>8. RoomsMatchSessions'
  BY <1>1, <1>3, RoomsMoves DEF ChatIInv
<1>9. WhoIsSnapshot' /\ TodoInRoom'
  BY <1>1, <1>3, WhoMoves DEF ChatIInv
<1>10. LeavingOwn'
  BY <1>1, <1>3, LeavingMoves DEF ChatIInv
<1> QED BY <1>5, <1>7, <1>8, <1>9, <1>10 DEF ChatIInv

(* broadcast or members returns and the lock is free.  *)
LEMMA LockDoneStep ==
  ASSUME ChatIInv, NEW l \in Loops, lockDone(l)
  PROVE  ChatIInv'
<1>1. /\ loopOf' = loopOf /\ nick' = nick /\ state_' = state_ /\ room' = room
      /\ rooms_' = rooms_ /\ mutex_' = {} /\ said' = said /\ commands' = commands
      /\ pending' = pending /\ heard' = heard
      /\ doing' = [doing EXCEPT ![l] = Idle] /\ Locking(l)
  BY DEF lockDone, unlock
<1>2. Idle \in Activities /\ Idle.op = "none" /\ doing[l].op # "leave"
  BY <1>1, ActivitiesMade DEF Locking
<1>3. mutex_' = {k \in Loops : Locking(k)'} /\ OneHolder'
  BY <1>1, <1>2, LockMoves DEF ChatIInv
<1>4. ChatTypeOK'
  BY <1>1, <1>2, <1>3 DEF ChatIInv, ChatTypeOK
<1>5. RoomsMatchSessions'
  BY <1>1, <1>2, RoomsMoves DEF ChatIInv
<1>6. WhoIsSnapshot' /\ TodoInRoom'
  BY <1>1, <1>2, WhoMoves DEF ChatIInv
<1>7. LeavingOwn'
  BY <1>1, <1>2, LeavingMoves DEF ChatIInv
<1> QED BY <1>3, <1>4, <1>5, <1>6, <1>7 DEF ChatIInv

(* handleClose: the connection stays in its room until it is taken out.  *)
LEMMA HandleCloseStep ==
  ASSUME ChatIInv, NEW l \in Loops, NEW c \in Conns, handleClose(l, c)
  PROVE  ChatIInv'
<1> DEFINE a == Leaving(c)
<1>1. /\ loopOf' = loopOf /\ nick' = nick /\ room' = room /\ rooms_' = rooms_
      /\ mutex_' = mutex_ /\ said' = said /\ commands' = commands
      /\ pending' = pending /\ heard' = heard
      /\ state_' = [state_ EXCEPT ![c] = "kDisconnected"] /\ state_[c] # "kDisconnected"
      /\ doing' = [doing EXCEPT ![l] = a] /\ doing[l] = Idle /\ loopOf[c] = l
  BY DEF handleClose
<1>2. /\ a \in Activities /\ a.op = "leave" /\ a.conn = c /\ a = Leaving(c)
      /\ doing[l].op = "none" /\ ~Locking(l)
  BY <1>1, ActivitiesMade DEF Locking
<1>3. /\ state_ \in [Conns -> {"kConnected", "kDisconnecting", "kDisconnected"}]
      /\ loopOf \in [Conns -> Loops] /\ doing \in [Loops -> Activities]
  BY DEF ChatIInv, ChatTypeOK
<1> HIDE DEF a
<1>4. mutex_' = {k \in Loops : Locking(k)'} /\ OneHolder'
  BY <1>1, <1>2, LockMoves DEF ChatIInv
<1>5. ChatTypeOK'
  BY <1>1, <1>2, <1>4 DEF ChatIInv, ChatTypeOK
<1>6. RoomsMatchSessions'
  <2> SUFFICES ASSUME NEW d \in Conns, NEW q \in Names
               PROVE  d \in rooms_[q] <=>
                        /\ q = room[d] /\ q # Empty
                        /\ state_'[d] = "kDisconnected" => doing'[loopOf[d]] = Leaving(d)
    BY <1>1 DEF RoomsMatchSessions
  <2>1. d \in rooms_[q] <=>
          /\ q = room[d] /\ q # Empty
          /\ state_[d] = "kDisconnected" => doing[loopOf[d]] = Leaving(d)
    BY DEF ChatIInv, RoomsMatchSessions
  <2>2. CASE d = c
    BY <1>1, <1>2, <1>3, <2>1, <2>2
  <2>3. CASE d # c
    <3>1. Leaving(d).op = "leave" /\ Leaving(d).conn = d
      BY ActivitiesMade
    <3>2. doing'[loopOf[d]] = Leaving(d) <=> doing[loopOf[d]] = Leaving(d)
      BY <1>1, <1>2, <1>3, <2>3, <3>1
    <3> QED BY <1>1, <1>3, <2>1, <2>3, <3>2
  <2> QED BY <2>2, <2>3
<1>7. WhoIsSnapshot' /\ TodoInRoom'
  BY <1>1, <1>2, WhoMoves DEF ChatIInv
<1>8. LeavingOwn'
  BY <1>1, <1>2, <1>3, LeavingMoves DEF ChatIInv
<1> QED BY <1>4, <1>5, <1>6, <1>7, <1>8 DEF ChatIInv

(* RoomManager::leave takes the connection out under the name it has, which *)
(* is the one room that has it.                                             *)
LEMMA LeaveStep ==
  ASSUME ChatIInv, NEW l \in Loops, NEW c \in Conns, leave(l, c)
  PROVE  ChatIInv'
<1>1. /\ loopOf' = loopOf /\ nick' = nick /\ room' = room /\ state_' = state_
      /\ mutex_ = {} /\ mutex_' = mutex_ /\ said' = said /\ commands' = commands
      /\ pending' = pending /\ heard' = heard
      /\ doing' = [doing EXCEPT ![l] = Idle] /\ doing[l] = Leaving(c)
      /\ rooms_' = IF room[c] # Empty THEN [rooms_ EXCEPT ![room[c]] = @ \ {c}] ELSE rooms_
  BY DEF leave
<1>2. /\ Idle \in Activities /\ Idle.op = "none"
      /\ doing[l].op = "leave" /\ doing[l].conn = c /\ ~Locking(l)
  BY <1>1, ActivitiesMade DEF Locking
<1>3. /\ room \in [Conns -> Names] /\ rooms_ \in [Names -> SUBSET Conns]
      /\ loopOf \in [Conns -> Loops] /\ doing \in [Loops -> Activities]
  BY DEF ChatIInv, ChatTypeOK
<1>4. loopOf[c] = l /\ state_[c] = "kDisconnected"
  BY <1>2 DEF ChatIInv, LeavingOwn
<1>5. mutex_' = {k \in Loops : Locking(k)'} /\ OneHolder'
  BY <1>1, <1>2, LockMoves DEF ChatIInv
<1>6. ChatTypeOK'
  BY <1>1, <1>2, <1>5 DEF ChatIInv, ChatTypeOK
<1>7. RoomsMatchSessions'
  <2> SUFFICES ASSUME NEW d \in Conns, NEW q \in Names
               PROVE  d \in rooms_'[q] <=>
                        /\ q = room[d] /\ q # Empty
                        /\ state_[d] = "kDisconnected" => doing'[loopOf[d]] = Leaving(d)
    BY <1>1 DEF RoomsMatchSessions
  <2>1. d \in rooms_[q] <=>
          /\ q = room[d] /\ q # Empty
          /\ state_[d] = "kDisconnected" => doing[loopOf[d]] = Leaving(d)
    BY DEF ChatIInv, RoomsMatchSessions
  <2>2. Leaving(d).op = "leave" /\ Leaving(d).conn = d
    BY ActivitiesMade
  <2>3. CASE d = c
    <3>1. doing'[loopOf[c]] # Leaving(d)
      BY <1>1, <1>2, <1>3, <1>4, <2>2
    <3>2. d \notin rooms_'[q]
      BY <1>1, <1>3, <2>1, <2>3
    <3> QED BY <1>4, <2>3, <3>1, <3>2
  <2>4. CASE d # c
    <3>1. d \in rooms_'[q] <=> d \in rooms_[q]
      BY <1>1, <1>3, <2>4
    <3>2. doing'[loopOf[d]] = Leaving(d) <=> doing[loopOf[d]] = Leaving(d)
      BY <1>1, <1>2, <1>3, <2>2, <2>4
    <3> QED BY <2>1, <3>1, <3>2
  <2> QED BY <2>3, <2>4
<1>8. WhoIsSnapshot' /\ TodoInRoom'
  BY <1>1, <1>2, WhoMoves DEF ChatIInv
<1>9. LeavingOwn'
  BY <1>1, <1>2, LeavingMoves DEF ChatIInv
<1> QED BY <1>5, <1>6, <1>7, <1>8, <1>9 DEF ChatIInv

(* A sendInLoop functor writes to a connection of the loop it runs on.  *)
LEMMA RunFunctorStep ==
  ASSUME ChatIInv, NEW l \in Loops, runFunctor(l)
  PROVE  ChatIInv'
<1> DEFINE f == Head(pending[l])
<1>1. /\ loopOf' = loopOf /\ nick' = nick /\ state_' = state_ /\ room' = room
      /\ rooms_' = rooms_ /\ mutex_' = mutex_ /\ said' = said /\ commands' = commands
      /\ doing' = doing /\ pending[l] # << >>
      /\ pending' = [pending EXCEPT ![l] = Tail(@)] /\ sendInLoop(f.conn, f.line)
  BY DEF runFunctor
<1>2. /\ pending \in [Loops -> Seq(Functors)] /\ heard \in [Conns -> Seq(Lines)]
      /\ \A k \in Loops : \A i \in 1..Len(pending[k]) : loopOf[pending[k][i].conn] = k
  BY DEF ChatIInv, ChatTypeOK
<1>3. /\ f \in Functors /\ Tail(pending[l]) \in Seq(Functors)
      /\ Len(Tail(pending[l])) = Len(pending[l]) - 1 /\ Len(pending[l]) \in Nat
      /\ \A i \in 1..Len(Tail(pending[l])) : Tail(pending[l])[i] = pending[l][i + 1]
  BY <1>1, <1>2, HeadTailProperties, LenProperties
<1>4. heard' \in [Conns -> Seq(Lines)]
  <2>1. f.conn \in Conns /\ f.line \in Lines BY <1>3 DEF Functors
  <2>2. [heard EXCEPT ![f.conn] = Append(@, f.line)] \in [Conns -> Seq(Lines)]
    BY <1>2, <2>1, Queued
  <2> QED BY <1>1, <1>2, <2>2 DEF sendInLoop
<1> HIDE DEF f
<1>5. pending' \in [Loops -> Seq(Functors)]
  BY <1>1, <1>2, <1>3
<1>6. ASSUME NEW k \in Loops, NEW i \in 1..Len(pending'[k])
      PROVE  loopOf[pending'[k][i].conn] = k
  <2>1. CASE k = l
    <3>1. pending'[k] = Tail(pending[l]) BY <1>1, <1>2, <2>1
    <3>2. i + 1 \in 1..Len(pending[l]) BY <1>3, <1>6, <3>1
    <3> QED BY <1>2, <1>3, <1>6, <2>1, <3>1, <3>2
  <2>2. CASE k # l
    BY <1>1, <1>2, <1>6, <2>2
  <2> QED BY <2>1, <2>2
<1>7. ChatTypeOK'
  BY <1>1, <1>4, <1>5, <1>6 DEF ChatIInv, ChatTypeOK, Locking
<1> QED
  BY <1>1, <1>7 DEF ChatIInv, RoomsMatchSessions, WhoIsSnapshot, OneHolder, TodoInRoom,
                    LeavingOwn, Locking

-----------------------------------------------------------------------------
(* The specification *)

LEMMA ChatInit == Init => ChatIInv
<1> SUFFICES ASSUME Init PROVE ChatIInv
  OBVIOUS
<1>1. \A l \in Loops : doing[l] = Idle /\ doing[l].op = "none" /\ ~Locking(l)
  BY ActivitiesMade DEF Init, Locking
<1>2. ChatTypeOK
  BY <1>1, ActivitiesMade, LinesAssumption, EmptySeq DEF Init, ChatTypeOK, Names
<1>3. RoomsMatchSessions
  BY DEF Init, RoomsMatchSessions
<1> QED
  BY <1>1, <1>2, <1>3 DEF ChatIInv, WhoIsSnapshot, OneHolder, TodoInRoom, LeavingOwn

LEMMA ChatStep == ChatIInv /\ [Next]_vars => ChatIInv'
<1> SUFFICES ASSUME ChatIInv, [Next]_vars PROVE ChatIInv'
  OBVIOUS
<1>1. CASE UNCHANGED vars
  <2>1. /\ loopOf' = loopOf /\ nick' = nick /\ state_' = state_ /\ room' = room
        /\ rooms_' = rooms_ /\ mutex_' = mutex_ /\ doing' = doing /\ pending' = pending
        /\ said' = said /\ commands' = commands /\ heard' = heard
    BY <1>1 DEF vars
  <2>2. ChatTypeOK' /\ OneHolder'
    BY <2>1 DEF ChatIInv, ChatTypeOK, OneHolder, Locking
  <2>3. RoomsMatchSessions' /\ WhoIsSnapshot' /\ TodoInRoom' /\ LeavingOwn'
    BY <2>1 DEF ChatIInv, RoomsMatchSessions, WhoIsSnapshot, TodoInRoom, LeavingOwn
  <2> QED BY <2>2, <2>3 DEF ChatIInv
<1>2. ASSUME NEW l \in Loops, Continue(l) \/ runFunctor(l) PROVE ChatIInv'
  BY <1>2, LockDoneStep, AnnounceStep, SendStep, NameMemberStep, LeaveStep, RunFunctorStep
     DEF Continue
<1>3. ASSUME NEW l \in Loops, NEW c \in Conns,
             \/ speak(l, c) \/ who(l, c) \/ quit(l, c) \/ handleClose(l, c)
             \/ \E n \in Nicks : setNick(l, c, n)
             \/ \E r \in Names : join(l, c, r)
      PROVE  ChatIInv'
  BY <1>3, SpeakStep, WhoStep, QuitStep, HandleCloseStep, NickStep, JoinStep
<1> QED BY <1>1, <1>2, <1>3 DEF Next

(* The inductive invariant holds of every run of the chat. *)
THEOREM ChatInductive == SafeSpec => []ChatIInv
BY ChatInit, ChatStep, PTL DEF SafeSpec

(* The chat's types, and mutex_ is held by exactly the thread that is       *)
(* walking a room in RoomManager::broadcast or members.                     *)
THEOREM ChatTypesKept == SafeSpec => []ChatTypeOK
<1>1. ChatIInv => ChatTypeOK BY DEF ChatIInv
<1> QED BY <1>1, ChatInductive, PTL

(* RoomManager::join and leave keep rooms_ and the sessions in agreement:   *)
(* a connection is in the one room its session names, until it has left.    *)
THEOREM RoomsAgree == SafeSpec => []RoomsMatchSessions
<1>1. ChatIInv => RoomsMatchSessions BY DEF ChatIInv
<1> QED BY <1>1, ChatInductive, PTL

(* RoomManager::members names the members of one moment: mutex_ keeps       *)
(* setNick, join and leave of the other threads out while it copies.        *)
THEOREM WhoSeesOneMoment == SafeSpec => []WhoIsSnapshot
<1>1. ChatIInv => WhoIsSnapshot BY DEF ChatIInv
<1> QED BY <1>1, ChatInductive, PTL

-----------------------------------------------------------------------------
(* What delivery rests on *)

(* A step that speaks no line and sends none keeps DeliveryInv, if a thread *)
(* that takes up an announcement does so for its own connection.            *)
LEMMA DeliveryRests ==
  ASSUME DeliveryInv,
         loopOf' = loopOf, pending' = pending, said' = said, heard' = heard,
         \A k \in Loops : \/ doing'[k] = doing[k]
                          \/ /\ doing'[k].op # "broadcast"
                             /\ doing'[k].op = "announce" => loopOf[doing'[k].conn] = k
  PROVE  DeliveryInv'
<1>1. LinesSpoken'
  BY DEF DeliveryInv, LinesSpoken, Spoken, Broadcasting
<1>2. OwnSpeakers'
  BY DEF DeliveryInv, OwnSpeakers, Broadcasting
<1>3. PendingInOrder'
  BY DEF DeliveryInv, PendingInOrder, Earlier
<1>4. BroadcastIsLast'
  BY DEF DeliveryInv, BroadcastIsLast, Earlier, Broadcasting
<1> QED BY <1>1, <1>2, <1>3, <1>4 DEF DeliveryInv

(* A new line has a higher number than any its speaker has spoken.  *)
LEMMA BroadcastDelivers ==
  ASSUME ChatIInv, DeliveryInv, NEW l \in Loops, NEW c \in Conns, BeginBroadcast(l, c),
         loopOf[c] = l, UNCHANGED <<loopOf, pending, heard>>
  PROVE  DeliveryInv'
<1> DEFINE a == Sending(Line(c, said[c] + 1), rooms_[room[c]])
<1>1. /\ loopOf' = loopOf /\ pending' = pending /\ heard' = heard /\ mutex_ = {}
      /\ said' = [said EXCEPT ![c] = @ + 1] /\ doing' = [doing EXCEPT ![l] = a]
  BY DEF BeginBroadcast
<1>2. /\ doing \in [Loops -> Activities] /\ said \in [Conns -> Nat]
      /\ pending \in [Loops -> Seq(Functors)] /\ heard \in [Conns -> Seq(Lines)]
      /\ mutex_ = {k \in Loops : Locking(k)}
  BY DEF ChatIInv, ChatTypeOK
<1>3. /\ a.op = "broadcast" /\ a.line.from = c /\ a.line.n = said[c] + 1
      /\ a.line.from \in Conns /\ a.line.n \in Nat
  BY <1>2 DEF Sending, Line
<1> HIDE DEF a
<1>4. doing'[l] = a /\ \A k \in Loops \ {l} : doing'[k] = doing[k] /\ ~Broadcasting(k)
  BY <1>1, <1>2 DEF Locking, Broadcasting
<1>5. \A line \in Lines : Spoken(line) => Spoken(line)'
  BY <1>1, <1>2 DEF Spoken, Lines
<1>6. \A k \in Loops : \A i \in 1..Len(pending[k]) :
        /\ pending[k][i].line \in Lines /\ Spoken(pending[k][i].line)
  <2> SUFFICES ASSUME NEW k \in Loops, NEW i \in 1..Len(pending[k])
               PROVE  /\ pending[k][i].line \in Lines /\ Spoken(pending[k][i].line)
    OBVIOUS
  <2>1. pending[k][i] \in Functors BY <1>2, ElementOfSeq
  <2> QED BY <2>1 DEF DeliveryInv, LinesSpoken, Functors
<1>7. LinesSpoken'
  <2>1. \A d \in Conns : \A i \in 1..Len(heard[d]) : heard[d][i] \in Lines
    BY <1>2, ElementOfSeq
  <2>2. \A d \in Conns : \A i \in 1..Len(heard'[d]) : Spoken(heard[d][i])'
    BY <1>1, <1>5, <2>1 DEF DeliveryInv, LinesSpoken
  <2>3. \A k \in Loops : \A i \in 1..Len(pending'[k]) : Spoken(pending[k][i].line)'
    BY <1>1, <1>5, <1>6
  <2>4. ASSUME NEW k \in Loops, doing'[k].op = "broadcast" PROVE Spoken(doing[k].line)'
    BY <1>1, <1>2, <1>3, <1>4, <2>4 DEF Spoken, Broadcasting
  <2> QED BY <1>1, <2>2, <2>3, <2>4 DEF LinesSpoken, Spoken, Broadcasting
<1>8. OwnSpeakers'
  BY <1>1, <1>3, <1>4 DEF DeliveryInv, OwnSpeakers, Broadcasting
<1>9. PendingInOrder'
  BY <1>1 DEF DeliveryInv, PendingInOrder, Earlier
<1>10. BroadcastIsLast'
  <2> SUFFICES ASSUME NEW k \in Loops, NEW q \in Loops, doing'[k].op = "broadcast",
                      NEW d \in doing'[k].todo, NEW i \in 1..Len(pending[q]),
                      pending[q][i].line.from = doing'[k].line.from
               PROVE  pending[q][i].line.n < doing'[k].line.n
    BY <1>1 DEF BroadcastIsLast, Earlier, Broadcasting
  <2>1. k = l BY <1>4 DEF Broadcasting
  <2>2. pending[q][i].line.n <= said[c] /\ pending[q][i].line.n \in Nat
    BY <1>3, <1>4, <1>6, <2>1 DEF Spoken, Lines
  <2> QED BY <1>2, <1>3, <1>4, <2>1, <2>2
<1> QED BY <1>7, <1>8, <1>9, <1>10 DEF DeliveryInv

(* Sending to one more member: a line goes through pending only to another  *)
(* thread's connection, and behind what its speaker has sent there.         *)
LEMMA SendDelivers ==
  ASSUME ChatIInv, DeliveryInv, NEW l \in Loops, NEW c \in Conns, sendToMember(l, c)
  PROVE  DeliveryInv'
<1> DEFINE line == doing[l].line
           m == loopOf[c]
           e == [conn |-> c, line |-> line]
           todo == doing[l].todo \ {c}
           a == Sending(line, todo)
<1>1. /\ loopOf' = loopOf /\ said' = said /\ doing' = [doing EXCEPT ![l] = a]
      /\ Broadcasting(l) /\ c \in doing[l].todo /\ send(l, c, line)
  BY DEF sendToMember
<1>2. /\ doing \in [Loops -> Activities] /\ loopOf \in [Conns -> Loops]
      /\ pending \in [Loops -> Seq(Functors)] /\ heard \in [Conns -> Seq(Lines)]
      /\ mutex_ = {k \in Loops : Locking(k)}
  BY DEF ChatIInv, ChatTypeOK
<1>3. \A k \in Loops \ {l} : doing'[k] = doing[k] /\ ~Broadcasting(k)
  BY <1>1, <1>2 DEF ChatIInv, OneHolder, Locking, Broadcasting
<1>4. /\ line \in Lines /\ Spoken(line) /\ loopOf[line.from] = l
      /\ \A k \in Loops : \A i \in 1..Len(pending[k]) : Earlier(pending[k][i], c, line)
  <2>1. line \in Lines
    BY <1>1, <1>2, ActivityParts DEF Broadcasting
  <2>2. Spoken(line) /\ loopOf[line.from] = l
    BY <1>1 DEF DeliveryInv, LinesSpoken, OwnSpeakers
  <2>3. \A k \in Loops : \A i \in 1..Len(pending[k]) : Earlier(pending[k][i], c, line)
    BY <1>1 DEF DeliveryInv, BroadcastIsLast
  <2> QED BY <2>1, <2>2, <2>3
<1>5. /\ doing'[l] = a /\ a.op = "broadcast" /\ a.line = line /\ a.todo = doing[l].todo \ {c}
      /\ m \in Loops /\ e.conn = c /\ e.line = line
  BY <1>1, <1>2 DEF Sending
(* pending' has the old functors in their places and perhaps e behind them. *)
<1>6. ASSUME NEW k \in Loops, NEW i \in 1..Len(pending'[k])
      PROVE  \/ i \in 1..Len(pending[k]) /\ pending'[k][i] = pending[k][i]
             \/ k = m /\ m # l /\ i = Len(pending[k]) + 1 /\ pending'[k][i] = e
  <2>1. CASE pending' = pending BY <2>1, <1>6
  <2>2. CASE pending' = [pending EXCEPT ![m] = Append(@, e)] /\ m # l
    <3>1. CASE k # m BY <2>2, <3>1, <1>2, <1>6
    <3>2. CASE k = m
      <4>1. pending'[k] = Append(pending[k], e) /\ pending[k] \in Seq(Functors)
        BY <2>2, <3>2, <1>2, <1>5
      <4>2. /\ Len(pending'[k]) = Len(pending[k]) + 1 /\ Len(pending[k]) \in Nat
            /\ \A j \in 1..Len(pending[k]) : pending'[k][j] = pending[k][j]
            /\ pending'[k][Len(pending[k]) + 1] = e
        BY <4>1, AppendProperties, LenProperties
      <4> QED BY <4>2, <2>2, <3>2, <1>6
    <3> QED BY <3>1, <3>2
  <2> QED BY <1>1, <2>1, <2>2 DEF send
<1>7. ASSUME NEW d \in Conns, NEW i \in 1..Len(heard'[d])
      PROVE  Spoken(heard'[d][i])
  <2>1. CASE heard' = heard BY <2>1, <1>7 DEF DeliveryInv, LinesSpoken
  <2>2. CASE heard' = [heard EXCEPT ![c] = Append(@, line)]
    <3>1. CASE d # c BY <2>2, <3>1, <1>2, <1>7 DEF DeliveryInv, LinesSpoken
    <3>2. CASE d = c
      <4>1. heard'[d] = Append(heard[d], line) /\ heard[d] \in Seq(Lines)
        BY <2>2, <3>2, <1>2
      <4>2. /\ Len(heard'[d]) = Len(heard[d]) + 1 /\ Len(heard[d]) \in Nat
            /\ \A j \in 1..Len(heard[d]) : heard'[d][j] = heard[d][j]
            /\ heard'[d][Len(heard[d]) + 1] = line
        BY <4>1, <1>4, AppendProperties, LenProperties
      <4> QED BY <4>2, <1>4, <1>7 DEF DeliveryInv, LinesSpoken
    <3> QED BY <3>1, <3>2
  <2> QED BY <1>1, <2>1, <2>2 DEF send, sendInLoop
<1>8. \A k \in Loops : Broadcasting(k)' <=> k = l
  BY <1>3, <1>5 DEF Broadcasting
<1> HIDE DEF line, m, e, todo, a
<1>9. LinesSpoken'
  <2>1. \A d \in Conns : \A i \in 1..Len(heard'[d]) : Spoken(heard[d][i])'
    BY <1>1, <1>7 DEF Spoken
  <2>2. ASSUME NEW k \in Loops, NEW i \in 1..Len(pending'[k])
        PROVE  Spoken(pending[k][i].line)'
    BY <1>1, <1>4, <1>5, <1>6, <2>2 DEF DeliveryInv, LinesSpoken, Spoken
  <2>3. ASSUME NEW k \in Loops, Broadcasting(k)' PROVE Spoken(doing[k].line)'
    BY <1>1, <1>4, <1>5, <1>8, <2>3 DEF Spoken
  <2> QED BY <2>1, <2>2, <2>3 DEF LinesSpoken
<1>10. OwnSpeakers'
  <2> SUFFICES ASSUME NEW k \in Loops
               PROVE  /\ doing'[k].op = "announce" => loopOf[doing'[k].conn] = k
                      /\ Broadcasting(k)' => loopOf[doing'[k].line.from] = k
                      /\ \A i \in 1..Len(pending'[k]) : loopOf[pending'[k][i].line.from] # k
    BY <1>1 DEF OwnSpeakers
  <2>1. doing'[k].op = "announce" => loopOf[doing'[k].conn] = k
    BY <1>3, <1>5 DEF DeliveryInv, OwnSpeakers
  <2>2. Broadcasting(k)' => loopOf[doing'[k].line.from] = k
    BY <1>4, <1>5, <1>8
  <2>3. ASSUME NEW i \in 1..Len(pending'[k]) PROVE loopOf[pending'[k][i].line.from] # k
    BY <1>4, <1>5, <1>6, <2>3 DEF DeliveryInv, OwnSpeakers
  <2> QED BY <2>1, <2>2, <2>3
<1>11. PendingInOrder'
  <2> SUFFICES ASSUME NEW k \in Loops, NEW i \in 1..Len(pending'[k]),
                      NEW j \in 1..Len(pending'[k]), i < j
               PROVE  Earlier(pending'[k][i], pending'[k][j].conn, pending'[k][j].line)
    BY DEF PendingInOrder, Earlier
  <2>0. Len(pending[k]) \in Nat BY <1>2, LenProperties
  <2>1. i \in 1..Len(pending[k]) /\ pending'[k][i] = pending[k][i]
    <3>1. j \in 1..(Len(pending[k]) + 1) BY <1>6, <2>0
    <3> QED BY <1>6, <2>0, <3>1
  <2>2. CASE j \in 1..Len(pending[k]) /\ pending'[k][j] = pending[k][j]
    BY <2>1, <2>2 DEF DeliveryInv, PendingInOrder
  <2>3. CASE pending'[k][j] = e
    BY <2>1, <2>3, <1>4, <1>5
  <2> QED BY <1>6, <2>2, <2>3
<1>12. BroadcastIsLast'
  <2> SUFFICES ASSUME NEW q \in Loops, NEW d \in a.todo, NEW i \in 1..Len(pending'[q])
               PROVE  Earlier(pending'[q][i], d, line)
    BY <1>5, <1>8 DEF BroadcastIsLast, Earlier
  <2>1. CASE i \in 1..Len(pending[q]) /\ pending'[q][i] = pending[q][i]
    BY <2>1, <1>1, <1>5 DEF DeliveryInv, BroadcastIsLast, line
  <2>2. CASE pending'[q][i] = e
    BY <2>2, <1>5 DEF Earlier
  <2> QED BY <1>6, <2>1, <2>2
<1> QED BY <1>9, <1>10, <1>11, <1>12 DEF DeliveryInv

(* A sendInLoop functor takes its line off the front of pending.  *)
LEMMA FunctorDelivers ==
  ASSUME ChatIInv, DeliveryInv, NEW l \in Loops, runFunctor(l)
  PROVE  DeliveryInv'
<1> DEFINE f == Head(pending[l])
<1>1. /\ loopOf' = loopOf /\ said' = said /\ doing' = doing /\ pending[l] # << >>
      /\ pending' = [pending EXCEPT ![l] = Tail(@)] /\ sendInLoop(f.conn, f.line)
  BY DEF runFunctor
<1>2. /\ pending \in [Loops -> Seq(Functors)] /\ heard \in [Conns -> Seq(Lines)]
  BY DEF ChatIInv, ChatTypeOK
<1>3. /\ f = pending[l][1] /\ f \in Functors /\ 1 \in 1..Len(pending[l])
      /\ Len(Tail(pending[l])) = Len(pending[l]) - 1 /\ Len(pending[l]) \in Nat
      /\ \A i \in 1..Len(Tail(pending[l])) : Tail(pending[l])[i] = pending[l][i + 1]
  BY <1>1, <1>2, HeadTailProperties, LenProperties, EmptySeq
<1>4. f.conn \in Conns /\ f.line \in Lines /\ Spoken(f.line)
  BY <1>3 DEF DeliveryInv, LinesSpoken, Functors
<1> HIDE DEF f
(* pending' has functors that were pending, in their order. *)
<1>5. ASSUME NEW k \in Loops
      PROVE  \E s \in {0, 1} : \A i \in 1..Len(pending'[k]) :
               /\ i + s \in 1..Len(pending[k])
               /\ pending'[k][i] = pending[k][i + s]
  <2>1. CASE k = l
    <3>1. pending'[k] = Tail(pending[k]) BY <1>1, <1>2, <2>1
    <3> QED BY <1>3, <2>1, <3>1
  <2>2. CASE k # l
    BY <1>1, <1>2, <2>2, LenProperties
  <2> QED BY <2>1, <2>2
<1>6. ASSUME NEW d \in Conns, NEW i \in 1..Len(heard'[d])
      PROVE  Spoken(heard'[d][i])
  <2>1. CASE heard' = heard BY <2>1, <1>6 DEF DeliveryInv, LinesSpoken
  <2>2. CASE heard' = [heard EXCEPT ![f.conn] = Append(@, f.line)]
    <3>1. CASE d # f.conn BY <2>2, <3>1, <1>2, <1>6 DEF DeliveryInv, LinesSpoken
    <3>2. CASE d = f.conn
      <4>1. heard'[d] = Append(heard[d], f.line) /\ heard[d] \in Seq(Lines)
        BY <2>2, <3>2, <1>2
      <4>2. /\ Len(heard'[d]) = Len(heard[d]) + 1 /\ Len(heard[d]) \in Nat
            /\ \A j \in 1..Len(heard[d]) : heard'[d][j] = heard[d][j]
            /\ heard'[d][Len(heard[d]) + 1] = f.line
        BY <4>1, <1>4, AppendProperties, LenProperties
      <4> QED BY <4>2, <1>4, <1>6 DEF DeliveryInv, LinesSpoken
    <3> QED BY <3>1, <3>2
  <2> QED BY <1>1, <2>1, <2>2 DEF sendInLoop
<1>7. LinesSpoken'
  <2>1. \A d \in Conns : \A i \in 1..Len(heard'[d]) : Spoken(heard[d][i])'
    BY <1>1, <1>6 DEF Spoken
  <2>2. \A k \in Loops : \A i \in 1..Len(pending'[k]) : Spoken(pending[k][i].line)'
    BY <1>1, <1>5 DEF DeliveryInv, LinesSpoken, Spoken
  <2> QED BY <1>1, <2>1, <2>2 DEF DeliveryInv, LinesSpoken, Spoken, Broadcasting
<1>8. OwnSpeakers'
  BY <1>1, <1>5 DEF DeliveryInv, OwnSpeakers, Broadcasting
<1>9. PendingInOrder'
  <2> SUFFICES ASSUME NEW k \in Loops, NEW i \in 1..Len(pending'[k]),
                      NEW j \in 1..Len(pending'[k]), i < j
               PROVE  Earlier(pending'[k][i], pending'[k][j].conn, pending'[k][j].line)
    BY DEF PendingInOrder, Earlier
  <2>1. PICK s \in {0, 1} : \A x \in 1..Len(pending'[k]) :
               /\ x + s \in 1..Len(pending[k])
               /\ pending'[k][x] = pending[k][x + s]
    BY <1>5
  <2>2. i + s < j + s OBVIOUS
  <2> QED BY <2>1, <2>2 DEF DeliveryInv, PendingInOrder
<1>10. BroadcastIsLast'
  <2> SUFFICES ASSUME NEW k \in Loops, NEW q \in Loops, Broadcasting(k),
                      NEW d \in doing[k].todo, NEW i \in 1..Len(pending'[q])
               PROVE  Earlier(pending'[q][i], d, doing[k].line)
    BY <1>1 DEF BroadcastIsLast, Earlier, Broadcasting
  <2>1. PICK j \in 1..Len(pending[q]) : pending'[q][i] = pending[q][j]
    BY <1>5
  <2> QED BY <2>1 DEF DeliveryInv, BroadcastIsLast
<1> QED BY <1>7, <1>8, <1>9, <1>10 DEF DeliveryInv

LEMMA DeliveryInit == Init => DeliveryInv
<1> SUFFICES ASSUME Init PROVE DeliveryInv
  OBVIOUS
<1>1. \A l \in Loops : doing[l].op = "none" /\ pending[l] = << >>
  BY DEF Init, Idle
<1>2. \A c \in Conns : heard[c] = << >>
  BY DEF Init
<1> QED
  BY <1>1, <1>2 DEF DeliveryInv, LinesSpoken, OwnSpeakers, PendingInOrder, BroadcastIsLast,
                    Broadcasting

(* The steps that speak nothing: each puts one thread in an activity that   *)
(* is no broadcast.                                                         *)
LEMMA OthersDeliver ==
  ASSUME ChatIInv, DeliveryInv, NEW l \in Loops, NEW c \in Conns,
         \/ who(l, c) \/ quit(l, c) \/ handleClose(l, c) \/ nameMember(l, c) \/ leave(l, c)
         \/ \E n \in Nicks : setNick(l, c, n)
         \/ \E r \in Names : join(l, c, r)
  PROVE  DeliveryInv'
<1> SUFFICES /\ loopOf' = loopOf /\ pending' = pending /\ said' = said /\ heard' = heard
             /\ \/ doing' = doing
                \/ \E a : /\ doing' = [doing EXCEPT ![l] = a] /\ a.op # "broadcast"
                          /\ a.op = "announce" => loopOf[a.conn] = l
  <2>1. doing \in [Loops -> Activities] BY DEF ChatIInv, ChatTypeOK
  <2> QED BY <2>1, DeliveryRests
<1>1. /\ Leaving(c).op = "leave" /\ Idle.op = "none" /\ Announcing(c).conn = c
      /\ Announcing(c).op # "broadcast" /\ \A it, todo, names : Naming(it, todo, names).op = "who"
  BY DEF Leaving, Idle, Announcing, Naming
<1>2. CASE quit(l, c) \/ \E n \in Nicks : setNick(l, c, n)
  BY <1>2 DEF quit, setNick, writeNick
<1>3. CASE who(l, c)
  BY <1>1, <1>3 DEF who
<1>4. CASE nameMember(l, c)
  BY <1>1, <1>4 DEF nameMember
<1>5. CASE handleClose(l, c)
  BY <1>1, <1>5 DEF handleClose
<1>6. CASE leave(l, c)
  BY <1>1, <1>6 DEF leave
<1>7. CASE \E r \in Names : join(l, c, r)
  BY <1>1, <1>7 DEF join, Command
<1> QED BY <1>2, <1>3, <1>4, <1>5, <1>6, <1>7

LEMMA DeliveryStep == ChatIInv /\ DeliveryInv /\ [Next]_vars => DeliveryInv'
<1> SUFFICES ASSUME ChatIInv, DeliveryInv, [Next]_vars PROVE DeliveryInv'
  OBVIOUS
<1>1. CASE UNCHANGED vars
  BY <1>1, DeliveryRests DEF vars
<1>2. ASSUME NEW l \in Loops, NEW c \in Conns, announce(l, c) PROVE DeliveryInv'
  <2>1. loopOf[c] = l
    BY <1>2 DEF announce, Announcing, DeliveryInv, OwnSpeakers
  <2> QED BY <1>2, <2>1, BroadcastDelivers DEF announce
<1>3. ASSUME NEW l \in Loops, NEW c \in Conns, speak(l, c) PROVE DeliveryInv'
  BY <1>3, BroadcastDelivers DEF speak, Command
<1>4. ASSUME NEW l \in Loops, NEW c \in Conns, sendToMember(l, c) PROVE DeliveryInv'
  BY <1>4, SendDelivers
<1>5. ASSUME NEW l \in Loops, runFunctor(l) PROVE DeliveryInv'
  BY <1>5, FunctorDelivers
<1>6. ASSUME NEW l \in Loops, lockDone(l) PROVE DeliveryInv'
  <2>1. doing' = [doing EXCEPT ![l] = Idle] /\ Idle.op = "none"
    BY <1>6, ActivitiesMade DEF lockDone
  <2>2. doing \in [Loops -> Activities] BY DEF ChatIInv, ChatTypeOK
  <2> QED BY <1>6, <2>1, <2>2, DeliveryRests DEF lockDone
<1>7. ASSUME NEW l \in Loops, NEW c \in Conns,
             \/ who(l, c) \/ quit(l, c) \/ handleClose(l, c) \/ nameMember(l, c) \/ leave(l, c)
             \/ \E n \in Nicks : setNick(l, c, n)
             \/ \E r \in Names : join(l, c, r)
      PROVE  DeliveryInv'
  BY <1>7, OthersDeliver
<1> QED BY <1>1, <1>2, <1>3, <1>4, <1>5, <1>6, <1>7 DEF Next, Continue

(* RoomManager::broadcast under mutex_, and posting where the loop differs, *)
(* keep each speaker's lines in order on their way to every member.         *)
THEOREM ChatDelivery == SafeSpec => [](ChatIInv /\ DeliveryInv)
BY ChatInductive, DeliveryInit, DeliveryStep, PTL DEF SafeSpec

-----------------------------------------------------------------------------
(* Who is owed what *)

(* A broadcast on its way to c, and a functor that waits on its loop. *)
BeingSent(c, m) ==
  \E l \in Loops : Broadcasting(l) /\ c \in doing[l].todo /\ doing[l].line = m

Posted(c, m) ==
  \E i \in 1..Len(pending[loopOf[c]]) :
    pending[loopOf[c]][i].conn = c /\ pending[loopOf[c]][i].line = m

OwedAsListed ==
  \A c \in Conns : \A m :
    m \in Owed(c) <=> state_[c] = "kConnected" /\ (BeingSent(c, m) \/ Posted(c, m))

LEMMA OwedNow == ChatTypeOK => OwedAsListed
<1> SUFFICES ASSUME ChatTypeOK, NEW c \in Conns, NEW m
             PROVE  m \in Owed(c) <=>
                      state_[c] = "kConnected" /\ (BeingSent(c, m) \/ Posted(c, m))
  BY DEF OwedAsListed
<1>1. DOMAIN pending[loopOf[c]] = 1..Len(pending[loopOf[c]])
  BY LenProperties DEF ChatTypeOK
<1> QED BY <1>1 DEF Owed, BeingSent, Posted

LEMMA OwedNext == ChatTypeOK' => OwedAsListed'
BY OwedNow, PTL

(* A connection is owed the same after a step that leaves its functors and  *)
(* the broadcasts that have it to do.                                       *)
LEMMA OwedKept ==
  ASSUME ChatIInv, ChatIInv', NEW c \in Conns,
         state_'[c] = "kConnected" <=> state_[c] = "kConnected",
         \A m : (BeingSent(c, m) \/ Posted(c, m))' <=> BeingSent(c, m) \/ Posted(c, m)
  PROVE  Owed(c)' = Owed(c)
<1>1. OwedAsListed /\ OwedAsListed'
  BY OwedNow, OwedNext DEF ChatIInv
<1> QED BY <1>1 DEF OwedAsListed

LEMMA OwedRests ==
  ASSUME ChatIInv, ChatIInv', NEW c \in Conns,
         loopOf' = loopOf, pending' = pending,
         state_'[c] = "kConnected" <=> state_[c] = "kConnected",
         \A k \in Loops : \/ doing'[k] = doing[k]
                          \/ /\ Broadcasting(k) => doing[k].todo = {}
                             /\ doing'[k].op # "broadcast"
  PROVE  Owed(c)' = Owed(c)
<1>1. \A m : BeingSent(c, m)' <=> BeingSent(c, m)
  BY DEF BeingSent, Broadcasting
<1>2. \A m : Posted(c, m)' <=> Posted(c, m)
  BY DEF Posted
<1> QED BY <1>1, <1>2, OwedKept

LEMMA OwedNothing ==
  ASSUME NEW c \in Conns, state_'[c] # "kConnected"
  PROVE  Owed(c)' = {}
BY DEF Owed

-----------------------------------------------------------------------------
(* Each step is one of ChatRooms or changes nothing there *)

LEMMA NothingSeen ==
  ASSUME rooms_' = rooms_, heard' = heard,
         \A c \in Conns : state_'[c] = "kConnected" <=> state_[c] = "kConnected",
         \A c \in Conns : Owed(c)' = Owed(c)
  PROVE  UNCHANGED CR!vars
BY DEF CR!vars

(* /nick and /who *)
LEMMA QuietSeen ==
  ASSUME ChatIInv, ChatIInv', NEW l \in Loops, NEW c \in Conns,
         who(l, c) \/ nameMember(l, c) \/ \E n \in Nicks : setNick(l, c, n)
  PROVE  UNCHANGED CR!vars
<1> SUFFICES /\ loopOf' = loopOf /\ pending' = pending /\ state_' = state_ /\ rooms_' = rooms_
             /\ heard' = heard
             /\ \A k \in Loops : \/ doing'[k] = doing[k]
                                 \/ ~Broadcasting(k) /\ doing'[k].op # "broadcast"
  BY OwedRests, NothingSeen
<1>1. doing \in [Loops -> Activities] BY DEF ChatIInv, ChatTypeOK
<1>2. Idle.op = "none" /\ \A it, todo, names : Naming(it, todo, names).op = "who"
  BY DEF Idle, Naming
<1>3. CASE \E n \in Nicks : setNick(l, c, n)
  BY <1>3 DEF setNick, writeNick
<1>4. CASE who(l, c)
  BY <1>1, <1>2, <1>4 DEF who, Command, Broadcasting
<1>5. CASE nameMember(l, c)
  BY <1>1, <1>2, <1>5 DEF nameMember, Broadcasting
<1> QED BY <1>3, <1>4, <1>5

(* A walk ends with nobody left to do. *)
LEMMA WalkEndSeen ==
  ASSUME ChatIInv, ChatIInv', NEW l \in Loops, lockDone(l)
  PROVE  UNCHANGED CR!vars
<1>1. doing \in [Loops -> Activities] BY DEF ChatIInv, ChatTypeOK
<1>2. Idle.op = "none" BY DEF Idle
<1>3. \A k \in Loops : \/ doing'[k] = doing[k]
                       \/ /\ Broadcasting(k) => doing[k].todo = {}
                          /\ doing'[k].op # "broadcast"
  BY <1>1, <1>2 DEF lockDone
<1> QED BY <1>3, OwedRests, NothingSeen DEF lockDone

(* join *)
LEMMA JoinSeen ==
  ASSUME ChatIInv, ChatIInv', NEW l \in Loops, NEW c \in Conns, NEW r \in Names, join(l, c, r)
  PROVE  r \in Rooms /\ CR!Enter(c, r)
<1>1. /\ loopOf' = loopOf /\ pending' = pending /\ state_' = state_ /\ heard' = heard
      /\ doing' = [doing EXCEPT ![l] = Announcing(c)] /\ doing[l] = Idle /\ move(c, r)
      /\ r \in Rooms
  BY DEF join, Command, joinRefused, Names
<1>2. \A q \in Rooms : rooms_'[q] = (rooms_[q] \ {c}) \cup IF q = r THEN {c} ELSE {}
  <2>1. \A q \in Rooms : q # Empty /\ (c \in rooms_[q] => q = room[c])
    BY EmptyAssumption DEF ChatIInv, RoomsMatchSessions, Names
  <2> QED BY <1>1, <2>1 DEF move, Names
<1>3. \A d \in Conns : Owed(d)' = Owed(d)
  <2>1. doing \in [Loops -> Activities] BY DEF ChatIInv, ChatTypeOK
  <2>2. Idle.op = "none" /\ Announcing(c).op = "announce" BY ActivitiesMade
  <2> QED BY <1>1, <2>1, <2>2, OwedRests DEF Broadcasting
<1> QED BY <1>1, <1>2, <1>3 DEF CR!Enter

(* leave *)
LEMMA LeaveSeen ==
  ASSUME ChatIInv, ChatIInv', NEW l \in Loops, NEW c \in Conns, leave(l, c)
  PROVE  CR!Leave(c)
<1>1. /\ loopOf' = loopOf /\ pending' = pending /\ state_' = state_ /\ heard' = heard
      /\ doing' = [doing EXCEPT ![l] = Idle] /\ doing[l] = Leaving(c)
      /\ rooms_' = IF room[c] # Empty THEN [rooms_ EXCEPT ![room[c]] = @ \ {c}] ELSE rooms_
  BY DEF leave
<1>2. \A q \in Rooms : rooms_'[q] = rooms_[q] \ {c}
  <2>1. \A q \in Rooms : q # Empty /\ (c \in rooms_[q] => q = room[c])
    BY EmptyAssumption DEF ChatIInv, RoomsMatchSessions, Names
  <2>2. rooms_ \in [Names -> SUBSET Conns] BY DEF ChatIInv, ChatTypeOK
  <2> QED BY <1>1, <2>1, <2>2 DEF Names
<1>3. \A d \in Conns : Owed(d)' = Owed(d)
  <2>1. doing \in [Loops -> Activities] BY DEF ChatIInv, ChatTypeOK
  <2>2. Idle.op = "none" /\ Leaving(c).op = "leave" BY ActivitiesMade
  <2> QED BY <1>1, <2>1, <2>2, OwedRests DEF Broadcasting
<1> QED BY <1>1, <1>2, <1>3 DEF CR!Leave

(* quit and handleClose: what was on its way to the connection is dropped.  *)
LEMMA CloseSeen ==
  ASSUME ChatIInv, ChatIInv', NEW l \in Loops, NEW c \in Conns,
         quit(l, c) \/ handleClose(l, c)
  PROVE  CR!StopListening(c)
<1>1. /\ loopOf' = loopOf /\ pending' = pending /\ heard' = heard /\ rooms_' = rooms_
      /\ \E s \in {"kDisconnecting", "kDisconnected"} : state_' = [state_ EXCEPT ![c] = s]
      /\ \/ doing' = doing
         \/ doing' = [doing EXCEPT ![l] = Leaving(c)] /\ doing[l] = Idle
  BY DEF quit, handleClose
<1>2. state_'[c] # "kConnected" /\ \A d \in Conns \ {c} : state_'[d] = state_[d]
  BY <1>1 DEF ChatIInv, ChatTypeOK
<1>3. \A d \in Conns \ {c} : Owed(d)' = Owed(d)
  <2>1. doing \in [Loops -> Activities] BY DEF ChatIInv, ChatTypeOK
  <2>2. Idle.op = "none" /\ Leaving(c).op = "leave" BY ActivitiesMade
  <2> QED BY <1>1, <1>2, <2>1, <2>2, OwedRests DEF Broadcasting
<1>4. Owed(c)' = {}
  BY <1>2, OwedNothing
<1> QED BY <1>1, <1>2, <1>3, <1>4 DEF CR!StopListening

(* A line its speaker has not yet spoken was never heard and is not owed.  *)
LEMMA NewLine ==
  ASSUME ChatIInv, DeliveryInv, NEW c \in Conns, NEW d \in Conns
  PROVE  /\ Line(c, said[c] + 1) \notin Owed(d)
         /\ \A i \in DOMAIN heard[d] : heard[d][i] # Line(c, said[c] + 1)
<1> DEFINE m == Line(c, said[c] + 1)
<1>1. ~Spoken(m)
  BY DEF Line, Spoken, ChatIInv, ChatTypeOK
<1>2. DOMAIN heard[d] = 1..Len(heard[d])
  BY LenProperties DEF ChatIInv, ChatTypeOK
<1>3. OwedAsListed /\ loopOf[d] \in Loops
  BY OwedNow DEF ChatIInv, ChatTypeOK
<1> HIDE DEF m
<1>4. ~BeingSent(d, m) /\ ~Posted(d, m)
  BY <1>1, <1>3 DEF DeliveryInv, LinesSpoken, BeingSent, Posted
<1> QED BY <1>1, <1>2, <1>3, <1>4 DEF OwedAsListed, DeliveryInv, LinesSpoken, m

(* RoomManager::broadcast: the members it finds are those that are owed the *)
(* line; with none of them listening nobody sees the step.                  *)
LEMMA BroadcastSeen ==
  ASSUME ChatIInv, ChatIInv', DeliveryInv, NEW l \in Loops, NEW c \in Conns,
         BeginBroadcast(l, c), UNCHANGED <<loopOf, state_, rooms_, pending, heard>>
  PROVE  UNCHANGED CR!vars \/ (room[c] \in Rooms /\ CR!Say(room[c]))
<1> DEFINE m == Line(c, said[c] + 1)
           to == rooms_[room[c]]
           a == Sending(m, to)
<1>1. /\ loopOf' = loopOf /\ pending' = pending /\ state_' = state_ /\ rooms_' = rooms_
      /\ heard' = heard /\ mutex_ = {} /\ doing' = [doing EXCEPT ![l] = a]
  BY DEF BeginBroadcast
<1>2. /\ doing \in [Loops -> Activities] /\ room \in [Conns -> Names]
      /\ \A k \in Loops : ~Broadcasting(k)
  BY <1>1 DEF ChatIInv, ChatTypeOK, Locking, Broadcasting
<1>3. a.op = "broadcast" /\ a.line = m /\ a.todo = to
  BY DEF Sending
<1>4. /\ \A d \in Conns : m \notin Owed(d) /\ \A i \in DOMAIN heard[d] : heard[d][i] # m
      /\ OwedAsListed /\ OwedAsListed'
  BY NewLine, OwedNow, OwedNext DEF ChatIInv
<1>5. to = IF room[c] \in Rooms THEN rooms_[room[c]] \cap Conns ELSE {}
  <2>1. \A d \in Conns : d \in to => room[c] # Empty
    BY <1>2 DEF ChatIInv, RoomsMatchSessions
  <2>2. to \in SUBSET Conns
    BY <1>2 DEF ChatIInv, ChatTypeOK
  <2> QED BY <1>2, <2>1, <2>2 DEF Names
<1> HIDE DEF m, to, a
<1>6. ASSUME NEW d \in Conns
      PROVE  Owed(d)' = IF d \in to /\ state_[d] = "kConnected" THEN Owed(d) \cup {m}
                                                                ELSE Owed(d)
  <2>1. \A x : ~BeingSent(d, x) /\ (BeingSent(d, x)' <=> d \in to /\ x = m)
    BY <1>1, <1>2, <1>3 DEF BeingSent, Broadcasting
  <2>2. \A x : Posted(d, x)' <=> Posted(d, x)
    BY <1>1 DEF Posted
  <2> QED BY <1>1, <1>4, <2>1, <2>2 DEF OwedAsListed
<1>7. CASE \A d \in Conns : ~(d \in to /\ state_[d] = "kConnected")
  BY <1>1, <1>6, <1>7, NothingSeen
<1>8. ASSUME NEW e \in Conns, e \in to, state_[e] = "kConnected"
      PROVE  room[c] \in Rooms /\ CR!Say(room[c])
  <2>1. room[c] \in Rooms /\ to = rooms_[room[c]] \cap Conns
    BY <1>5, <1>8
  <2>2. m \in Owed(e)'
    BY <1>6, <1>8
  <2> QED BY <1>1, <1>4, <1>6, <2>1, <2>2 DEF CR!Say
<1> QED BY <1>7, <1>8

(* sendInLoop takes a line that is next from its speaker.  *)
LEMMA LineHeard ==
  ASSUME NEW c \in Conns, NEW m \in Owed(c), heard' = [heard EXCEPT ![c] = Append(@, m)],
         state_' = state_, rooms_' = rooms_,
         \A x \in Owed(c) : x.from = m.from => m.n <= x.n,
         \A d \in Conns : Owed(d)' = IF d = c THEN Owed(d) \ {m} ELSE Owed(d)
  PROVE  CR!Hear(c)
<1> DEFINE owed == [d \in Conns |-> Owed(d)]
<1>1. owed' = [owed EXCEPT ![c] = @ \ {m}]
  OBVIOUS
<1>2. owed[c] = Owed(c)
  OBVIOUS
<1>3. CR!InTurn(c, m)
  BY DEF CR!InTurn
<1>4. UNCHANGED <<[r \in Rooms |-> rooms_[r]], {d \in Conns : state_[d] = "kConnected"}>>
  OBVIOUS
<1> QED BY <1>1, <1>2, <1>3, <1>4 DEF CR!Hear

(* Sending to one more member: on its own thread the member hears the line, *)
(* on another one it is owed it still, and closed it is owed nothing.       *)
LEMMA SendSeen ==
  ASSUME ChatIInv, ChatIInv', DeliveryInv, NEW l \in Loops, NEW c \in Conns,
         sendToMember(l, c)
  PROVE  UNCHANGED CR!vars \/ CR!Hear(c)
<1> DEFINE m == doing[l].line
           e == [conn |-> c, line |-> m]
           a == Sending(m, doing[l].todo \ {c})
<1>1. /\ loopOf' = loopOf /\ state_' = state_ /\ rooms_' = rooms_
      /\ Broadcasting(l) /\ c \in doing[l].todo /\ send(l, c, m)
      /\ doing' = [doing EXCEPT ![l] = a]
  BY DEF sendToMember
<1>2. /\ doing \in [Loops -> Activities] /\ loopOf \in [Conns -> Loops]
      /\ pending \in [Loops -> Seq(Functors)] /\ heard \in [Conns -> Seq(Lines)]
      /\ \A k \in Loops : Broadcasting(k) => k = l
  BY <1>1 DEF ChatIInv, ChatTypeOK, OneHolder, Locking, Broadcasting
<1>3. a.op = "broadcast" /\ a.line = m /\ a.todo = doing[l].todo \ {c}
  BY DEF Sending
<1>4. OwedAsListed /\ OwedAsListed'
  BY OwedNow, OwedNext DEF ChatIInv
<1>5. \A d \in Conns : \A x :
        /\ BeingSent(d, x) <=> d \in doing[l].todo /\ x = m
        /\ BeingSent(d, x)' <=> d \in doing[l].todo \ {c} /\ x = m
  BY <1>1, <1>2, <1>3 DEF BeingSent, Broadcasting
<1>6. loopOf[m.from] = l
  BY <1>1 DEF DeliveryInv, OwnSpeakers
<1>7. loopOf[c] = l => \A x : Posted(c, x) => x.from # m.from
  BY <1>6 DEF DeliveryInv, OwnSpeakers, Posted
<1> HIDE DEF m, a
<1>8. CASE state_[c] # "kConnected"
  <2>1. heard' = heard /\ pending' = pending
    BY <1>1, <1>8 DEF send
  <2>2. \A d \in Conns \ {c} : Owed(d)' = Owed(d)
    <3>1. \A d \in Conns : \A x : Posted(d, x)' <=> Posted(d, x)
      BY <1>1, <2>1 DEF Posted
    <3> QED BY <1>1, <1>5, <3>1, OwedKept
  <2>3. Owed(c)' = Owed(c)
    BY <1>1, <1>8 DEF Owed
  <2> QED BY <1>1, <2>1, <2>2, <2>3, NothingSeen
<1>9. CASE state_[c] = "kConnected" /\ loopOf[c] = l
  <2>1. heard' = [heard EXCEPT ![c] = Append(@, m)] /\ pending' = pending
    BY <1>1, <1>9 DEF send, sendInLoop
  <2>2. \A d \in Conns : \A x : Posted(d, x)' <=> Posted(d, x)
    BY <1>1, <2>1 DEF Posted
  <2>3. \A d \in Conns \ {c} : Owed(d)' = Owed(d)
    BY <1>1, <1>5, <2>2, OwedKept
  <2>4. m \in Owed(c) /\ Owed(c)' = Owed(c) \ {m}
    BY <1>1, <1>4, <1>5, <1>7, <1>9, <2>2 DEF OwedAsListed
  <2>5. \A x \in Owed(c) : x.from = m.from => x = m
    BY <1>4, <1>5, <1>7, <1>9 DEF OwedAsListed
  <2>6. m.n <= m.n
    <3>1. m \in Lines BY <1>1, <1>2, ActivityParts DEF Broadcasting, m
    <3> QED BY <3>1 DEF Lines
  <2> QED BY <1>1, <2>1, <2>3, <2>4, <2>5, <2>6, LineHeard
<1>10. CASE state_[c] = "kConnected" /\ loopOf[c] # l
  <2>1. heard' = heard /\ pending' = [pending EXCEPT ![loopOf[c]] = Append(@, e)]
    BY <1>1, <1>10 DEF send
  <2>2. ASSUME NEW d \in Conns, NEW x
        PROVE  Posted(d, x)' <=> Posted(d, x) \/ (d = c /\ x = m)
    <3>1. CASE loopOf[d] # loopOf[c]
      BY <1>1, <1>2, <2>1, <3>1 DEF Posted
    <3>2. CASE loopOf[d] = loopOf[c]
      <4> DEFINE s == pending[loopOf[d]]
                 t == pending'[loopOf[d]]
      <4>1. t = Append(s, e) /\ s \in Seq(Functors)
        BY <1>2, <2>1, <3>2
      <4>2. /\ Len(t) = Len(s) + 1 /\ Len(s) \in Nat
            /\ \A j \in 1..Len(s) : t[j] = s[j]
            /\ t[Len(s) + 1] = e
        BY <4>1, AppendProperties, LenProperties
      <4>3. e.conn = c /\ e.line = m
        OBVIOUS
      <4>4. /\ Posted(d, x) <=> \E i \in 1..Len(s) : s[i].conn = d /\ s[i].line = x
            /\ Posted(d, x)' <=> \E i \in 1..Len(t) : t[i].conn = d /\ t[i].line = x
        BY <1>1 DEF Posted
      <4> HIDE DEF s, t, e
      <4>5. \A i : i \in 1..Len(t) <=> i \in 1..Len(s) \/ i = Len(s) + 1
        BY <4>2
      <4> QED BY <4>2, <4>3, <4>4, <4>5
    <3> QED BY <3>1, <3>2
  <2>3. \A d \in Conns : Owed(d)' = Owed(d)
    BY <1>1, <1>5, <2>2, OwedKept
  <2> QED BY <1>1, <2>1, <2>3, NothingSeen
<1> QED BY <1>8, <1>9, <1>10

(* A sendInLoop functor: if the member still listens, it hears a line whose *)
(* speaker has none before it on the way.                                   *)
LEMMA FunctorSeen ==
  ASSUME ChatIInv, ChatIInv', DeliveryInv, NEW l \in Loops, runFunctor(l)
  PROVE  UNCHANGED CR!vars \/ \E c \in Conns : CR!Hear(c)
<1> DEFINE s == pending[l]
<1>0. PICK c \in Conns, m \in Lines : c = Head(s).conn /\ m = Head(s).line
  <2>1. s \in Seq(Functors) /\ s # << >>
    BY DEF runFunctor, ChatIInv, ChatTypeOK
  <2>2. Head(s) \in Functors
    BY <2>1, HeadTailProperties
  <2> QED BY <2>2 DEF Functors
<1>1. /\ loopOf' = loopOf /\ state_' = state_ /\ rooms_' = rooms_ /\ doing' = doing
      /\ s # << >> /\ pending' = [pending EXCEPT ![l] = Tail(@)] /\ sendInLoop(c, m)
  BY <1>0 DEF runFunctor
<1>2. /\ loopOf \in [Conns -> Loops] /\ pending \in [Loops -> Seq(Functors)]
      /\ heard \in [Conns -> Seq(Lines)] /\ s \in Seq(Functors)
      /\ \A i \in 1..Len(s) : loopOf[s[i].conn] = l
  BY DEF ChatIInv, ChatTypeOK
<1>3. /\ s[1].conn = c /\ s[1].line = m /\ Len(s) \in Nat /\ 1 \in 1..Len(s)
      /\ Len(Tail(s)) = Len(s) - 1
      /\ \A i \in 1..Len(Tail(s)) : Tail(s)[i] = s[i + 1]
  BY <1>0, <1>1, <1>2, HeadTailProperties, LenProperties, EmptySeq
<1>4. loopOf[c] = l
  BY <1>2, <1>3
<1>5. OwedAsListed /\ OwedAsListed'
  BY OwedNow, OwedNext DEF ChatIInv
<1>6. \A d \in Conns : \A x : BeingSent(d, x)' <=> BeingSent(d, x)
  BY <1>1 DEF BeingSent, Broadcasting
(* Whatever else c has coming from the same speaker is of a higher number. *)
<1>7. ASSUME NEW i \in 2..Len(s), s[i].conn = c, s[i].line.from = m.from
      PROVE  m.n < s[i].line.n /\ s[i].line.n \in Nat
  <2>1. i \in 1..Len(s) /\ 1 < i BY <1>3, <1>7
  <2>3. s[i] \in Functors BY <1>2, <2>1, ElementOfSeq
  <2>2. Earlier(s[1], s[i].conn, s[i].line)
    BY <1>3, <2>1 DEF DeliveryInv, PendingInOrder
  <2> QED BY <1>3, <1>7, <2>2, <2>3 DEF Earlier, Functors, Lines
<1>8. ASSUME NEW x, BeingSent(c, x), x.from = m.from PROVE m.n < x.n /\ x.n \in Nat
  <2>1. PICK k \in Loops : Broadcasting(k) /\ c \in doing[k].todo /\ doing[k].line = x
    BY <1>8 DEF BeingSent
  <2>2. Earlier(s[1], c, x)
    BY <1>3, <2>1 DEF DeliveryInv, BroadcastIsLast
  <2>3. x \in Lines
    BY <2>1, ActivityParts DEF ChatIInv, ChatTypeOK, Broadcasting
  <2> QED BY <1>3, <1>8, <2>2, <2>3 DEF Earlier, Lines
<1>9. ASSUME NEW d \in Conns, NEW x
      PROVE  /\ d # c => (Posted(d, x)' <=> Posted(d, x))
             /\ Posted(c, x)' <=> \E i \in 2..Len(s) : s[i].conn = c /\ s[i].line = x
             /\ Posted(c, x) <=> x = m \/ \E i \in 2..Len(s) : s[i].conn = c /\ s[i].line = x
  <2> DEFINE t == Tail(s)
  <2>1. pending'[l] = t /\ \A k \in Loops \ {l} : pending'[k] = pending[k]
    BY <1>1, <1>2
  <2>2. /\ \A i \in 1..Len(t) : i + 1 \in 2..Len(s) /\ t[i] = s[i + 1]
        /\ \A i \in 2..Len(s) : i - 1 \in 1..Len(t) /\ s[i] = t[i - 1]
    BY <1>3
  <2>3. \A i : i \in 1..Len(s) <=> i = 1 \/ i \in 2..Len(s)
    BY <1>3
  <2>4. ASSUME NEW b \in Conns, loopOf[b] = l
        PROVE  /\ Posted(b, x)' <=> \E i \in 1..Len(t) : t[i].conn = b /\ t[i].line = x
               /\ Posted(b, x) <=> \E i \in 1..Len(s) : s[i].conn = b /\ s[i].line = x
    BY <1>1, <2>1, <2>4 DEF Posted
  <2>5. loopOf[d] # l => (Posted(d, x)' <=> Posted(d, x))
    BY <1>1, <1>2, <2>1 DEF Posted
  <2> HIDE DEF s, t
  <2>6. ASSUME NEW b \in Conns, loopOf[b] = l
        PROVE  /\ Posted(b, x)' <=> \E i \in 2..Len(s) : s[i].conn = b /\ s[i].line = x
               /\ Posted(b, x) <=> \/ b = c /\ x = m
                                   \/ \E i \in 2..Len(s) : s[i].conn = b /\ s[i].line = x
    <3>1. (\E i \in 1..Len(t) : t[i].conn = b /\ t[i].line = x)
            <=> \E i \in 2..Len(s) : s[i].conn = b /\ s[i].line = x
      BY <2>2
    <3>2. (\E i \in 1..Len(s) : s[i].conn = b /\ s[i].line = x)
            <=> \/ b = c /\ x = m
                \/ \E i \in 2..Len(s) : s[i].conn = b /\ s[i].line = x
      BY <1>3, <2>3
    <3> QED BY <2>4, <2>6, <3>1, <3>2
  <2> QED BY <1>4, <2>5, <2>6
<1>10. \A d \in Conns \ {c} : Owed(d)' = Owed(d)
  BY <1>1, <1>6, <1>9, OwedKept
<1> HIDE DEF s
<1>11. CASE state_[c] # "kConnected"
  <2>1. heard' = heard
    BY <1>1, <1>11 DEF sendInLoop
  <2>2. Owed(c)' = Owed(c)
    BY <1>1, <1>4, <1>5, <1>11 DEF OwedAsListed
  <2> QED BY <1>1, <1>10, <2>1, <2>2, NothingSeen
<1>12. CASE state_[c] = "kConnected"
  <2>1. heard' = [heard EXCEPT ![c] = Append(@, m)]
    BY <1>1, <1>12 DEF sendInLoop
  <2>2. m.n \in Nat
    BY <1>4 DEF Lines
  <2>3. \A x : BeingSent(c, x) \/ Posted(c, x)' => (x.from = m.from => m.n < x.n /\ x.n \in Nat)
    BY <1>4, <1>7, <1>8, <1>9
  <2>4. m \in Owed(c) /\ Owed(c)' = Owed(c) \ {m}
    BY <1>1, <1>4, <1>5, <1>6, <1>9, <1>12, <2>2, <2>3 DEF OwedAsListed
  <2>5. \A x \in Owed(c) : x.from = m.from => m.n <= x.n
    BY <1>4, <1>5, <1>9, <1>12, <2>2, <2>3 DEF OwedAsListed
  <2> QED BY <1>1, <1>4, <1>10, <2>1, <2>4, <2>5, LineHeard
<1> QED BY <1>11, <1>12

(* What the threads do together is what ChatRooms promises: everybody in a  *)
(* room when RoomManager::broadcast finds its members hears the line once,  *)
(* unless the connection closes, nobody else does, and each speaker's lines *)
(* come in order.                                                           *)
THEOREM ChatRoomsRefinement == SafeSpec => CR!SafeSpec
<1>1. Init => CR!Init
  <2> SUFFICES ASSUME Init PROVE CR!Init
    OBVIOUS
  <2>1. \A c \in Conns : Owed(c) = {}
    <3>1. ChatIInv /\ OwedAsListed BY ChatInit, OwedNow DEF ChatIInv
    <3>2. \A l \in Loops : ~Broadcasting(l) /\ pending[l] = << >>
      BY DEF Init, Idle, Broadcasting
    <3>3. \A c \in Conns : loopOf[c] \in Loops BY DEF Init
    <3>4. \A c \in Conns : \A m : ~BeingSent(c, m) /\ ~Posted(c, m)
      BY <3>2, <3>3 DEF BeingSent, Posted
    <3> QED BY <3>1, <3>4 DEF OwedAsListed
  <2> QED BY <2>1 DEF Init, CR!Init, Names
<1>2. ChatIInv /\ ChatIInv' /\ DeliveryInv /\ [Next]_vars => [CR!Next]_(CR!vars)
  <2> SUFFICES ASSUME ChatIInv, ChatIInv', DeliveryInv, [Next]_vars
               PROVE  CR!Next \/ UNCHANGED CR!vars
    OBVIOUS
  <2>1. CASE UNCHANGED vars
    <3>1. \A c \in Conns : Owed(c)' = Owed(c) BY <2>1, OwedRests DEF vars
    <3> QED BY <2>1, <3>1, NothingSeen DEF vars
  <2>2. ASSUME NEW l \in Loops, NEW c \in Conns, announce(l, c) \/ speak(l, c)
        PROVE  CR!Next \/ UNCHANGED CR!vars
    <3>1. CR!Say(room[c]) /\ room[c] \in Rooms => CR!Next BY DEF CR!Next
    <3> QED BY <2>2, <3>1, BroadcastSeen DEF announce, speak
  <2>3. ASSUME NEW l \in Loops, NEW c \in Conns, sendToMember(l, c)
        PROVE  CR!Next \/ UNCHANGED CR!vars
    BY <2>3, SendSeen DEF CR!Next
  <2>4. ASSUME NEW l \in Loops, runFunctor(l)
        PROVE  CR!Next \/ UNCHANGED CR!vars
    BY <2>4, FunctorSeen DEF CR!Next
  <2>5. ASSUME NEW l \in Loops, NEW c \in Conns, NEW r \in Names, join(l, c, r)
        PROVE  CR!Next \/ UNCHANGED CR!vars
    BY <2>5, JoinSeen DEF CR!Next
  <2>6. ASSUME NEW l \in Loops, NEW c \in Conns, leave(l, c)
        PROVE  CR!Next \/ UNCHANGED CR!vars
    BY <2>6, LeaveSeen DEF CR!Next
  <2>7. ASSUME NEW l \in Loops, NEW c \in Conns, quit(l, c) \/ handleClose(l, c)
        PROVE  CR!Next \/ UNCHANGED CR!vars
    BY <2>7, CloseSeen DEF CR!Next
  <2>8. ASSUME NEW l \in Loops, NEW c \in Conns,
               who(l, c) \/ nameMember(l, c) \/ \E n \in Nicks : setNick(l, c, n)
        PROVE  CR!Next \/ UNCHANGED CR!vars
    BY <2>8, QuietSeen
  <2>9. ASSUME NEW l \in Loops, lockDone(l)
        PROVE  CR!Next \/ UNCHANGED CR!vars
    BY <2>9, WalkEndSeen
  <2> QED BY <2>1, <2>2, <2>3, <2>4, <2>5, <2>6, <2>7, <2>8, <2>9 DEF Next, Continue
<1> QED BY <1>1, <1>2, ChatDelivery, PTL DEF SafeSpec, CR!SafeSpec
=============================================================================
