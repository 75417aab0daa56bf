----------------------------- MODULE TcpConnection -----------------------------
(***************************************************************************)
(* src/net/TcpConnection: how an established connection moves bytes.       *)
(* Between its callers (its own loop's thread and any other), the kernel's *)
(* socket buffers and the peer, in level- and edge-triggered mode.         *)
(*                                                                         *)
(* The owner thread is EventLoop's cycle seen from one connection: poll,   *)
(* handleEvent (readCallback before writeCallback, one system call per     *)
(* step), then the functors that were pending at the swap.  While the loop *)
(* is in "functors" it may also run anything else of its own (a timer,     *)
(* another connection's callback) that calls this connection.  Other       *)
(* threads and the peer act between any two steps.                         *)
(*                                                                         *)
(* The peer's bytes are only counted; those sent to it carry their message *)
(* and place, so that loss, repetition and reordering show.                *)
(***************************************************************************)
EXTENDS Naturals, Sequences

CONSTANTS Msgs,       \* messages; each is handed to send() at most once
          MsgLen,     \* bytes of a message
          SndCap,     \* bytes the kernel's send buffer holds
          MaxInput    \* bytes the peer sends at most

ASSUME SizeAssumption == MsgLen \in Nat \ {0} /\ SndCap \in Nat \ {0}
ASSUME InputAssumption == MaxInput \in Nat

VARIABLES
  et_,            \* edge-triggered?  fixed for the connection
  state_,         \* atomic; written by the owner, and by whoever calls shutdown()
  outputBuffer_,
  reading,        \* channel_->isReading(); the channel is in epoll as long
  writing,        \* channel_->isWriting()
  stage,          \* owner: "poll", "read", "callback", "write" or "functors"
  revents,        \* what epoll_wait reported: subset of {"IN", "OUT"}
  queue,          \* functors of this connection pending in its loop
  batch,          \* how many of them doPendingFunctors swapped out
  sndbuf,         \* kernel: bytes written and not yet read by the peer
  rcvbuf,         \* kernel: number of bytes not yet read by the owner
  edge,           \* kernel: the fd is on epoll's ready list (matters for ET)
  sockErr,        \* kernel: SO_ERROR is set
  fin,            \* the write side has been shut down
  peerClosed,     \* the peer's FIN has arrived
  peerReset,      \* the peer's RST has arrived
  input,          \* bytes the peer may still send
  received,       \* what the peer has read
  eof,            \* the peer has read end-of-file
  unsent,         \* messages not yet handed to send()
  deciding,       \* another thread has passed shutdown()'s test of state_
  accepted        \* history: bytes of the messages sendInLoop took

owner == <<stage, revents, queue, batch>>
kernel == <<sndbuf, rcvbuf, edge, sockErr>>
peer == <<peerClosed, peerReset, input, received, eof>>
output == <<outputBuffer_, writing, accepted>>
calls == <<unsent, deciding>>
vars == <<et_, state_, reading, output, owner, kernel, fin, peer, calls>>

Bytes(m) == [i \in 1..MsgLen |-> <<m, i>>]
Functors == [op : {"sendInLoop"}, msg : Msgs] \cup [op : {"shutdownInLoop"}]

ConnTypeOK ==
  /\ et_ \in BOOLEAN
  /\ state_ \in {"kConnected", "kDisconnecting", "kDisconnected"}
  /\ \A s \in {outputBuffer_, sndbuf, received, accepted} : s \in Seq(Msgs \X (1..MsgLen))
  /\ stage \in {"poll", "read", "callback", "write", "functors"}
  /\ writing => reading
  /\ revents \subseteq {"IN", "OUT"}
  /\ queue \in Seq(Functors)
  /\ batch \in 0..Len(queue)
  /\ Len(sndbuf) <= SndCap
  /\ rcvbuf \in 0..MaxInput /\ input \in 0..MaxInput
  /\ {reading, writing, deciding, edge, sockErr, fin, peerClosed, peerReset, eof} \subseteq BOOLEAN
  /\ unsent \subseteq Msgs

(* connectEstablished() has just run. *)
Init ==
  /\ et_ \in BOOLEAN
  /\ state_ = "kConnected" /\ reading = TRUE
  /\ outputBuffer_ = << >> /\ writing = FALSE /\ accepted = << >>
  /\ stage = "poll" /\ revents = {} /\ queue = << >> /\ batch = 0
  /\ sndbuf = << >> /\ rcvbuf = 0 /\ edge = FALSE /\ sockErr = FALSE
  /\ fin = FALSE
  /\ peerClosed = FALSE /\ peerReset = FALSE /\ input = MaxInput
  /\ received = << >> /\ eof = FALSE
  /\ unsent = Msgs /\ deciding = FALSE

-----------------------------------------------------------------------------
(* The kernel *)

Free == SndCap - Len(sndbuf)

Readable == rcvbuf > 0 \/ peerClosed \/ peerReset
Writable == Free > 0 \/ peerReset

(* Results of ::write(fd, n bytes): how many the kernel took.  None stands  *)
(* for -1, which is EAGAIN or, on a reset connection, an error.             *)
WriteResults(n) == IF peerReset \/ Free = 0 THEN {0} ELSE {k \in 1..n : k <= Free}

(* epoll_ctl(MOD) looks at readiness anew; so an edge cannot be missed      *)
(* between a short write and EPOLLOUT being asked for.                      *)
Rearm(writable) == edge' = (edge \/ Readable \/ writable)

-----------------------------------------------------------------------------
(* The peer.  Each of its steps that makes the socket ready is an edge.  *)

peerSends ==
  /\ ~peerClosed /\ ~peerReset
  /\ input > 0
  /\ input' = input - 1
  /\ rcvbuf' = rcvbuf + 1
  /\ edge' = TRUE
  /\ UNCHANGED <<et_, state_, reading, output, owner, sndbuf, sockErr, fin, peerClosed,
                 peerReset, received, eof, calls>>

peerReads ==
  /\ ~peerReset
  /\ sndbuf # << >>
  /\ received' = Append(received, Head(sndbuf))
  /\ sndbuf' = Tail(sndbuf)
  /\ edge' = TRUE
  /\ UNCHANGED <<et_, state_, reading, output, owner, rcvbuf, sockErr, fin, peerClosed,
                 peerReset, input, eof, calls>>

(* A peer that has closed or been closed is not waiting for this. *)
peerReadsEof ==
  /\ fin /\ sndbuf = << >> /\ ~eof
  /\ reading /\ ~peerReset
  /\ eof' = TRUE
  /\ UNCHANGED <<et_, state_, reading, output, owner, kernel, fin, peerClosed, peerReset, input,
                 received, calls>>

peerCloses ==
  /\ ~peerClosed /\ ~peerReset
  /\ peerClosed' = TRUE
  /\ edge' = TRUE
  /\ UNCHANGED <<et_, state_, reading, output, owner, sndbuf, rcvbuf, sockErr, fin,
                 peerReset, input, received, eof, calls>>

(* What was in flight to the peer is lost. *)
peerResets ==
  /\ ~peerReset
  /\ peerReset' = TRUE
  /\ sockErr' = TRUE
  /\ sndbuf' = << >>
  /\ edge' = TRUE
  /\ UNCHANGED <<et_, state_, reading, output, owner, rcvbuf, fin, peerClosed, input,
                 received, eof, calls>>

-----------------------------------------------------------------------------
(* Pieces of the code *)

isWriting == writing

sendInLoopOvertakes(m) ==
  IF state_ # "kConnected"
  THEN UNCHANGED <<output, sndbuf, edge, sockErr>>
  ELSE /\ accepted' = accepted \o Bytes(m)
       /\ \E k \in WriteResults(MsgLen) :
            /\ sndbuf' = sndbuf \o SubSeq(Bytes(m), 1, k)
            /\ outputBuffer_' = outputBuffer_ \o SubSeq(Bytes(m), k + 1, MsgLen)
            /\ writing' = (writing \/ k < MsgLen)
            /\ IF k < MsgLen /\ ~isWriting THEN Rearm(Free > k) ELSE UNCHANGED edge
       /\ sockErr' = FALSE

(* sendInLoop: nothing unless kConnected.  The kernel gets the bytes at     *)
(* once only when none are waiting ahead of them; what it does not take,    *)
(* after an error too, is buffered and EPOLLOUT asked for.  A ::write that  *)
(* fails takes the pending socket error with it.                            *)
sendInLoop(m) ==
  IF state_ # "kConnected"
  THEN UNCHANGED <<output, sndbuf, edge, sockErr>>
  ELSE LET direct == ~isWriting /\ outputBuffer_ = << >>
       IN  /\ accepted' = accepted \o Bytes(m)
           /\ \E k \in IF direct THEN WriteResults(MsgLen) ELSE {0} :
                /\ sndbuf' = sndbuf \o SubSeq(Bytes(m), 1, k)
                /\ outputBuffer_' = outputBuffer_ \o SubSeq(Bytes(m), k + 1, MsgLen)
                /\ writing' = (writing \/ k < MsgLen)
                /\ IF k < MsgLen /\ ~isWriting THEN Rearm(Free > k) ELSE UNCHANGED edge
           /\ sockErr' = (sockErr /\ ~direct)

shutdownInLoopEager(stillWriting) == fin' = TRUE

(* The FIN goes out only when nothing is waiting to be written. *)
shutdownInLoop(stillWriting) == fin' = (fin \/ ~stillWriting)

PendingShutdownForgotten == UNCHANGED fin

(* What handleWrite does for a shutdown() that found bytes waiting. *)
PendingShutdown == IF state_ = "kDisconnecting" THEN shutdownInLoop(FALSE) ELSE UNCHANGED fin

disableWritingNoUpdate == UNCHANGED <<writing, edge>>

disableWriting == writing' = FALSE /\ Rearm(FALSE)

(* Only logs, but getsockopt(SO_ERROR) clears what it reads. *)
handleError == sockErr' = FALSE

handleCloseReadSide ==
  /\ state_' = "kDisconnected"
  /\ reading' = FALSE
  /\ UNCHANGED writing

(* The rest, the callbacks and TcpServer::removeConnection, is TcpServer's. *)
handleClose ==
  /\ state_' = "kDisconnected"
  /\ reading' = FALSE
  /\ writing' = FALSE

-----------------------------------------------------------------------------
(* Calls.  The owner makes them from this connection's message callback or  *)
(* from anything else its loop runs; the others at any time.                *)

OwnerCalls == stage \in {"callback", "functors"}

sendOwner(m) ==
  /\ OwnerCalls
  /\ m \in unsent
  /\ unsent' = unsent \ {m}
  /\ sendInLoop(m)
  /\ UNCHANGED <<et_, state_, reading, owner, rcvbuf, fin, peer, deciding>>

(* send() on another thread looks at state_ before it posts.  *)
sendForeign(m) ==
  /\ m \in unsent
  /\ unsent' = unsent \ {m}
  /\ queue' = IF state_ = "kConnected" THEN Append(queue, [op |-> "sendInLoop", msg |-> m])
                                       ELSE queue
  /\ UNCHANGED <<et_, state_, reading, output, stage, revents, batch, kernel, fin, peer,
                 deciding>>

shutdownOwner ==
  /\ OwnerCalls
  /\ state_ = "kConnected"
  /\ state_' = "kDisconnecting"
  /\ shutdownInLoop(isWriting)
  /\ UNCHANGED <<et_, reading, output, owner, kernel, peer, calls>>

(* shutdown() on another thread tests state_ and writes it there, in two    *)
(* steps, and posts the rest; one thread at a time is between the two.      *)
shutdownTests ==
  /\ state_ = "kConnected" /\ ~deciding
  /\ deciding' = TRUE
  /\ UNCHANGED <<et_, state_, reading, output, owner, kernel, fin, peer, unsent>>

shutdownForeign ==
  /\ deciding
  /\ deciding' = FALSE
  /\ state_' = "kDisconnecting"
  /\ queue' = Append(queue, [op |-> "shutdownInLoop"])
  /\ UNCHANGED <<et_, reading, output, stage, revents, batch, kernel, fin, peer, unsent>>

-----------------------------------------------------------------------------
(* The owner's round *)

Ready == (IF Readable THEN {"IN"} ELSE {}) \cup (IF writing /\ Writable THEN {"OUT"} ELSE {})

Reported == reading /\ Ready # {} /\ (et_ => edge)

(* epoll_wait reports this connection if it is ready (ET: and became so     *)
(* since the last report).  Channel::handleEventGuarded calls the error     *)
(* callback first, whose getsockopt clears SO_ERROR.  TCP never reports     *)
(* EPOLLHUP without EPOLLIN to a channel that reads, so the close callback  *)
(* is only reached through handleRead.                                      *)
poll ==
  /\ stage = "poll"
  /\ IF Reported
     THEN /\ revents' = Ready
          /\ edge' = FALSE
          /\ handleError
          /\ stage' = IF "IN" \in Ready THEN "read" ELSE "write"
     ELSE /\ stage' = "functors"
          /\ batch' = Len(queue)
          /\ UNCHANGED <<revents, edge, sockErr>>
  /\ IF Reported THEN UNCHANGED batch ELSE TRUE
  /\ UNCHANGED <<et_, state_, reading, output, queue, sndbuf, rcvbuf, fin, peer, calls>>

(* Reading is over: EPOLLOUT next if it was reported, else doPendingFunctors. *)
AfterRead ==
  /\ stage' = IF "OUT" \in revents THEN "write" ELSE "functors"
  /\ batch' = IF "OUT" \in revents THEN batch ELSE Len(queue)

AfterWrite ==
  /\ stage' = "functors"
  /\ batch' = Len(queue)

(* readFd returned n > 0 and messageCallback_ is entered. *)
handleReadData ==
  /\ stage = "read"
  /\ rcvbuf > 0
  /\ \E n \in 1..rcvbuf : rcvbuf' = rcvbuf - n
  /\ stage' = "callback"
  /\ UNCHANGED <<et_, state_, reading, output, revents, queue, batch, sndbuf, edge, sockErr,
                 fin, peer, calls>>

CallbackReturnsLT ==
  /\ stage = "callback"
  /\ AfterRead
  /\ UNCHANGED <<et_, state_, reading, output, revents, queue, kernel, fin, peer, calls>>

(* messageCallback_ returns: once is enough for LT, ET reads on. *)
CallbackReturns ==
  /\ stage = "callback"
  /\ IF et_ THEN stage' = "read" /\ UNCHANGED batch ELSE AfterRead
  /\ UNCHANGED <<et_, state_, reading, output, revents, queue, kernel, fin, peer, calls>>

(* n < 0: EAGAIN, or a pending socket error, which reading clears and       *)
(* handleError only logs.                                                   *)
handleReadFails ==
  /\ stage = "read"
  /\ rcvbuf = 0
  /\ sockErr \/ ~(peerClosed \/ peerReset)
  /\ handleError
  /\ AfterRead
  /\ UNCHANGED <<et_, state_, reading, output, revents, queue, sndbuf, rcvbuf, edge, fin,
                 peer, calls>>

(* n = 0 *)
handleReadEof ==
  /\ stage = "read"
  /\ rcvbuf = 0
  /\ ~sockErr /\ (peerClosed \/ peerReset)
  /\ handleClose
  /\ AfterRead
  /\ UNCHANGED <<et_, outputBuffer_, accepted, revents, queue, kernel, fin, peer, calls>>

(* handleWrite wrote k bytes.  With the buffer empty it stops asking for    *)
(* EPOLLOUT and completes a shutdown() that was waiting; else ET writes on. *)
handleWrite ==
  /\ stage = "write"
  /\ isWriting
  /\ \E k \in WriteResults(Len(outputBuffer_)) \ {0} :
       /\ sndbuf' = sndbuf \o SubSeq(outputBuffer_, 1, k)
       /\ outputBuffer_' = SubSeq(outputBuffer_, k + 1, Len(outputBuffer_))
       /\ IF k = Len(outputBuffer_)
          THEN disableWriting /\ PendingShutdown /\ AfterWrite
          ELSE /\ UNCHANGED <<writing, edge, fin>>
               /\ IF et_ THEN UNCHANGED <<stage, batch>> ELSE AfterWrite
  /\ UNCHANGED <<et_, state_, reading, accepted, revents, queue, rcvbuf, sockErr, peer, calls>>

(* handleWrite without a byte written: closed by handleRead just before,    *)
(* EAGAIN, or an error that is only logged.                                 *)
handleWriteFails ==
  /\ stage = "write"
  /\ ~isWriting \/ WriteResults(Len(outputBuffer_)) = {0}
  /\ sockErr' = IF isWriting THEN FALSE ELSE sockErr
  /\ AfterWrite
  /\ UNCHANGED <<et_, state_, reading, output, revents, queue, sndbuf, rcvbuf, edge, fin,
                 peer, calls>>

RunFunctor ==
  /\ stage = "functors"
  /\ batch > 0
  /\ batch' = batch - 1
  /\ queue' = Tail(queue)
  /\ \/ /\ Head(queue).op = "sendInLoop"
        /\ sendInLoop(Head(queue).msg)
        /\ UNCHANGED fin
     \/ /\ Head(queue).op = "shutdownInLoop"
        /\ shutdownInLoop(isWriting)
        /\ UNCHANGED <<output, sndbuf, edge, sockErr>>
  /\ UNCHANGED <<et_, state_, reading, stage, revents, rcvbuf, peer, calls>>

FunctorsDone ==
  /\ stage = "functors"
  /\ batch = 0
  /\ stage' = "poll"
  /\ revents' = {}
  /\ UNCHANGED <<et_, state_, reading, output, queue, batch, kernel, fin, peer, calls>>

-----------------------------------------------------------------------------
OwnerRound ==
  \/ poll
  \/ handleReadData \/ CallbackReturns \/ handleReadFails \/ handleReadEof
  \/ handleWrite \/ handleWriteFails
  \/ RunFunctor \/ FunctorsDone

Callers == \/ \E m \in Msgs : sendOwner(m) \/ sendForeign(m)
           \/ shutdownOwner \/ shutdownTests \/ shutdownForeign

Peer == peerSends \/ peerReads \/ peerReadsEof \/ peerCloses \/ peerResets

Next == OwnerRound \/ Callers \/ Peer

SafeSpec == Init /\ [][Next]_vars

(* The owner's thread keeps going round (epoll_wait returns by its timeout  *)
(* at the latest), and a peer that has not gone away keeps reading.         *)
Fairness == WF_vars(OwnerRound) /\ WF_vars(peerReads) /\ WF_vars(peerReadsEof)

Spec == SafeSpec /\ Fairness

-----------------------------------------------------------------------------
(* Properties *)

(* No accepted byte is lost, repeated or overtaken: what the peer has read, *)
(* what the kernel holds and what waits in outputBuffer_ are, in this       *)
(* order, all bytes sendInLoop ever took, whichever thread they came from.  *)
StreamIntact == ~peerReset => received \o sndbuf \o outputBuffer_ = accepted

(* EPOLLOUT is asked for exactly while bytes wait: without it they would    *)
(* wait for ever, and with it and no bytes a level-triggered loop would     *)
(* spin.                                                                    *)
WritingIffBuffered == reading => (writing <=> outputBuffer_ # << >>)

(* shutdown() half-closes only behind the last buffered byte, whichever of  *)
(* shutdownInLoop and handleWrite comes to do it.                           *)
FinAfterFlush == fin /\ reading => outputBuffer_ = << >>

(* The inductive strengthening: state_ leaves kConnected before a half      *)
(* close is even posted, and before the channel is given up, so nothing is  *)
(* accepted behind either; what the peer may still send fits.               *)
ClosingTold ==
  /\ state_ = "kConnected" => reading /\ ~fin
  /\ \A i \in 1..Len(queue) : queue[i].op = "shutdownInLoop" => state_ # "kConnected"

EofIsLast == eof => fin /\ sndbuf = << >> /\ outputBuffer_ = << >> /\ received = accepted

InputFits == rcvbuf + input <= MaxInput

ConnIInv ==
  /\ ConnTypeOK /\ StreamIntact /\ WritingIffBuffered /\ FinAfterFlush
  /\ ClosingTold /\ EofIsLast /\ InputFits

(* Input is not left in the kernel: in edge-triggered mode nobody would be  *)
(* told of it again.                                                        *)
InputDrained == rcvbuf > 0 ~> (rcvbuf = 0 \/ ~reading)

(* A peer that goes away is noticed, in edge-triggered mode and after a     *)
(* read error that was only logged too.                                     *)
HangupNoticed == (peerClosed \/ peerReset) ~> ~reading

(* What has become of the stream, as ByteStream tells it. *)
StreamStatus ==
  CASE eof -> "eof"
    [] ~eof /\ (peerReset \/ ~reading) -> "aborted"
    [] ~eof /\ ~peerReset /\ reading -> IF state_ = "kConnected" THEN "open" ELSE "closing"

(* The connection keeps ByteStream's promises, liveness included: accepted  *)
(* bytes arrive, and after shutdown() so does end-of-file.                  *)
BS == INSTANCE ByteStream
        WITH sent <- accepted, got <- received, gone <- peerClosed \/ peerReset,
             status <- StreamStatus
ImplementsByteStream == BS!Spec
=============================================================================
