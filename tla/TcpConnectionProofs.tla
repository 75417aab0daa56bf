------------------------- MODULE TcpConnectionProofs -------------------------
(***************************************************************************)
(* Machine-checked proofs about TcpConnection, for any messages, message   *)
(* length, send buffer and input: no accepted byte is lost, repeated or    *)
(* overtaken, EPOLLOUT is asked for exactly while bytes wait, the FIN      *)
(* stays behind them, and every step is one ByteStream allows.             *)
(***************************************************************************)
EXTENDS TcpConnection, SequenceLemmas

Placed == Msgs \X (1..MsgLen)

-----------------------------------------------------------------------------
(* The bytes of the messages *)

LEMMA BytesOfMessage ==
  ASSUME NEW m \in Msgs
  PROVE  Bytes(m) \in Seq(Placed) /\ Len(Bytes(m)) = MsgLen /\ MsgLen \in Nat /\ MsgLen > 0
<1>1. MsgLen \in Nat /\ MsgLen > 0
  BY SizeAssumption
<1>2. Bytes(m) \in [1..MsgLen -> Placed]
  BY DEF Bytes, Placed
<1> QED BY <1>1, <1>2, SeqDef, LenProperties

(* The library's theorems, for sequences of placed bytes. *)
LEMMA Concat ==
  ASSUME NEW s \in Seq(Placed), NEW t \in Seq(Placed)
  PROVE  /\ s \o t \in Seq(Placed)
         /\ Len(s \o t) = Len(s) + Len(t)
         /\ s \o << >> = s /\ << >> \o s = s
BY ConcatProperties, ConcatEmptySeq

LEMMA Associative ==
  ASSUME NEW s \in Seq(Placed), NEW t \in Seq(Placed), NEW u \in Seq(Placed)
  PROVE  (s \o t) \o u = s \o (t \o u)
BY ConcatAssociative

(* A sequence is empty exactly if it has no elements. *)
LEMMA EmptyLen ==
  ASSUME NEW S, NEW s \in Seq(S)
  PROVE  Len(s) \in Nat /\ (s = << >> <=> Len(s) = 0)
BY LenProperties, EmptySeq

-----------------------------------------------------------------------------
(* The invariant in the parts the steps cite *)

LEMMA Parts ==
  ASSUME ConnIInv
  PROVE  /\ outputBuffer_ \in Seq(Placed) /\ sndbuf \in Seq(Placed)
         /\ received \in Seq(Placed) /\ accepted \in Seq(Placed)
         /\ Len(sndbuf) \in Nat /\ Len(sndbuf) <= SndCap /\ SndCap \in Nat
         /\ Len(outputBuffer_) \in Nat
         /\ queue \in Seq(Functors) /\ batch \in 0..Len(queue) /\ Len(queue) \in Nat
         /\ rcvbuf \in Nat /\ input \in Nat /\ rcvbuf + input <= MaxInput /\ MaxInput \in Nat
<1>1. /\ outputBuffer_ \in Seq(Placed) /\ sndbuf \in Seq(Placed)
      /\ received \in Seq(Placed) /\ accepted \in Seq(Placed)
      /\ queue \in Seq(Functors) /\ batch \in 0..Len(queue) /\ Len(sndbuf) <= SndCap
  BY DEF ConnIInv, ConnTypeOK, Placed
<1>2. rcvbuf \in Nat /\ input \in Nat /\ rcvbuf + input <= MaxInput /\ MaxInput \in Nat
  BY InputAssumption DEF ConnIInv, ConnTypeOK, InputFits
<1>3. Len(sndbuf) \in Nat /\ Len(outputBuffer_) \in Nat /\ Len(queue) \in Nat
  BY <1>1, LenProperties
<1> QED BY <1>1, <1>2, <1>3, SizeAssumption

(* What ::write of n bytes may take. *)
LEMMA Written ==
  ASSUME ConnIInv, NEW n \in Nat, NEW k \in WriteResults(n)
  PROVE  k \in 0..n /\ Len(sndbuf) + k <= SndCap
BY Parts DEF WriteResults, Free

(* sendInLoop keeps the stream, the interest in EPOLLOUT, and the FIN and   *)
(* end-of-file behind everything.                                           *)
LEMMA SendKeeps ==
  ASSUME ConnIInv, NEW m \in Msgs, sendInLoop(m),
         UNCHANGED <<state_, reading, received, fin, eof, peerReset>>
  PROVE  /\ outputBuffer_' \in Seq(Placed) /\ sndbuf' \in Seq(Placed) /\ accepted' \in Seq(Placed)
         /\ Len(sndbuf') <= SndCap
         /\ writing' \in BOOLEAN /\ (writing' => reading)
         /\ edge' \in BOOLEAN /\ sockErr' \in BOOLEAN
         /\ StreamIntact' /\ WritingIffBuffered' /\ FinAfterFlush' /\ EofIsLast'
<1>0. /\ received' = received /\ peerReset' = peerReset /\ reading' = reading
      /\ fin' = fin /\ eof' = eof /\ state_' = state_
  OBVIOUS
<1>p. /\ outputBuffer_ \in Seq(Placed) /\ sndbuf \in Seq(Placed)
      /\ received \in Seq(Placed) /\ accepted \in Seq(Placed)
  BY Parts
<1>t. /\ writing \in BOOLEAN /\ edge \in BOOLEAN /\ sockErr \in BOOLEAN /\ (writing => reading)
  BY DEF ConnIInv, ConnTypeOK
<1>1. CASE state_ # "kConnected"
  <2>1. /\ outputBuffer_' = outputBuffer_ /\ writing' = writing /\ accepted' = accepted
        /\ sndbuf' = sndbuf /\ edge' = edge /\ sockErr' = sockErr
    BY <1>1 DEF sendInLoop, output
  <2>2. Len(sndbuf) <= SndCap
    BY Parts
  <2>3. ~peerReset => received' \o sndbuf' \o outputBuffer_' = accepted'
    BY <1>0, <2>1 DEF ConnIInv, StreamIntact
  <2>4. StreamIntact'
    BY <1>0, <2>3 DEF StreamIntact
  <2>5. WritingIffBuffered' /\ FinAfterFlush' /\ EofIsLast'
    BY <1>0, <2>1 DEF ConnIInv, WritingIffBuffered, FinAfterFlush, EofIsLast
  <2> QED BY <1>0, <1>p, <1>t, <2>1, <2>2, <2>4, <2>5
<1>2. CASE state_ = "kConnected"
  <2> DEFINE direct == ~writing /\ outputBuffer_ = << >>
             b == Bytes(m)
  <2>1. PICK k \in IF direct THEN WriteResults(MsgLen) ELSE {0} :
          /\ sndbuf' = sndbuf \o SubSeq(b, 1, k)
          /\ outputBuffer_' = outputBuffer_ \o SubSeq(b, k + 1, MsgLen)
          /\ writing' = (writing \/ k < MsgLen)
          /\ IF k < MsgLen /\ ~writing THEN Rearm(Free > k) ELSE UNCHANGED edge
    BY <1>2, Zenon DEF sendInLoop, isWriting
  <2>2. accepted' = accepted \o b
    BY <1>2 DEF sendInLoop
  <2>s. sockErr' = (sockErr /\ ~direct)
    BY <1>2 DEF sendInLoop, isWriting
  <2>r. /\ sndbuf' = sndbuf \o SubSeq(b, 1, k)
        /\ outputBuffer_' = outputBuffer_ \o SubSeq(b, k + 1, MsgLen)
    BY <2>1
  <2>3. b \in Seq(Placed) /\ Len(b) = MsgLen /\ MsgLen \in Nat /\ MsgLen > 0
    BY BytesOfMessage
  <2>4. k \in 0..MsgLen /\ Len(sndbuf) + k <= SndCap /\ (direct \/ k = 0)
    BY <2>3, Written, Parts
  <2>5. reading /\ ~fin /\ ~eof
    BY <1>2 DEF ConnIInv, ClosingTold, EofIsLast
  <2> HIDE DEF b
  <2>6. /\ SubSeq(b, 1, k) \in Seq(Placed) /\ Len(SubSeq(b, 1, k)) = k
        /\ SubSeq(b, k + 1, MsgLen) \in Seq(Placed) /\ Len(SubSeq(b, k + 1, MsgLen)) = MsgLen - k
    BY <2>3, <2>4, CutAt
  <2>7. /\ sndbuf' \in Seq(Placed) /\ Len(sndbuf') = Len(sndbuf) + k
        /\ outputBuffer_' \in Seq(Placed) /\ Len(outputBuffer_') = Len(outputBuffer_) + (MsgLen - k)
        /\ accepted' \in Seq(Placed)
    <3>1. /\ sndbuf \o SubSeq(b, 1, k) \in Seq(Placed)
          /\ Len(sndbuf \o SubSeq(b, 1, k)) = Len(sndbuf) + k
      BY <1>p, <2>6, Concat
    <3>2. /\ outputBuffer_ \o SubSeq(b, k + 1, MsgLen) \in Seq(Placed)
          /\ Len(outputBuffer_ \o SubSeq(b, k + 1, MsgLen)) = Len(outputBuffer_) + (MsgLen - k)
      BY <1>p, <2>6, Concat
    <3>3. accepted \o b \in Seq(Placed)
      BY <1>p, <2>3, Concat
    <3> QED BY <2>2, <2>r, <3>1, <3>2, <3>3
  <2>8. StreamIntact'
    <3> DEFINE sent == SubSeq(b, 1, k)
               rest == SubSeq(b, k + 1, MsgLen)
    <3>1. sent \in Seq(Placed) /\ rest \in Seq(Placed) /\ Len(sent) = k
      BY <2>6
    <3>2. sent \o rest = b
      BY <2>3, <2>4, CutAt
    <3> HIDE DEF sent, rest
    <3>3. outputBuffer_ = << >> \/ sent = << >>
      BY <2>4, <3>1, EmptyLen
    <3>4. received \o (sndbuf \o sent) = (received \o sndbuf) \o sent
      BY ONLY <1>p, <3>1, Associative
    <3>5. received \o sndbuf \in Seq(Placed)
      BY <1>p, Concat
    <3>6. ((received \o sndbuf) \o sent) \o (outputBuffer_ \o rest)
            = ((received \o sndbuf) \o outputBuffer_) \o (sent \o rest)
      <4>1. CASE outputBuffer_ = << >>
        <5>1. /\ outputBuffer_ \o rest = rest
              /\ (received \o sndbuf) \o outputBuffer_ = received \o sndbuf
          BY ONLY <3>1, <3>5, <4>1, Concat
        <5>2. ((received \o sndbuf) \o sent) \o rest = (received \o sndbuf) \o (sent \o rest)
          BY ONLY <3>1, <3>5, Associative
        <5> QED BY ONLY <5>1, <5>2
      <4>2. CASE sent = << >>
        <5>1. (received \o sndbuf) \o sent = received \o sndbuf /\ sent \o rest = rest
          BY ONLY <3>1, <3>5, <4>2, Concat
        <5>2. (received \o sndbuf) \o (outputBuffer_ \o rest)
                = ((received \o sndbuf) \o outputBuffer_) \o rest
          BY ONLY <1>p, <3>1, <3>5, Associative
        <5> QED BY ONLY <5>1, <5>2
      <4> QED BY ONLY <3>3, <4>1, <4>2
    <3>7. received' \o sndbuf' \o outputBuffer_' = (received \o sndbuf \o outputBuffer_) \o b
      BY <1>0, <2>r, <3>2, <3>4, <3>6 DEF sent, rest
    <3>8. ~peerReset => received \o sndbuf \o outputBuffer_ = accepted
      BY DEF ConnIInv, StreamIntact
    <3>9. ~peerReset => received' \o sndbuf' \o outputBuffer_' = accepted'
      BY <2>2, <3>7, <3>8
    <3> QED BY <1>0, <3>9 DEF StreamIntact
  <2>9. WritingIffBuffered'
    <3>1. outputBuffer_ = << >> <=> Len(outputBuffer_) = 0
      BY Parts, EmptyLen
    <3>2. outputBuffer_' = << >> <=> Len(outputBuffer_') = 0
      BY <2>7, EmptyLen
    <3>3. writing <=> outputBuffer_ # << >>
      BY <2>5 DEF ConnIInv, WritingIffBuffered
    <3>4. k < MsgLen \/ k = MsgLen
      BY <2>3, <2>4
    <3>5. CASE k < MsgLen
      <4>1. Len(outputBuffer_') > 0
        BY <2>3, <2>4, <2>7, <3>5, Parts
      <4>2. writing'
        BY <2>1, <3>5
      <4>3. outputBuffer_' # << >>
        BY <2>7, <3>2, <4>1
      <4> QED BY <4>2, <4>3 DEF WritingIffBuffered
    <3>6. CASE k = MsgLen
      <4>1. direct /\ ~(k < MsgLen)
        BY <2>3, <2>4, <3>6
      <4>2. Len(outputBuffer_') = 0
        BY <2>3, <2>7, <3>1, <3>6, <4>1
      <4>3. ~writing'
        BY <2>1, <4>1
      <4> QED BY <3>2, <4>2, <4>3 DEF WritingIffBuffered
    <3> QED BY <3>4, <3>5, <3>6
  <2>10. writing' \in BOOLEAN /\ edge' \in BOOLEAN /\ sockErr' \in BOOLEAN
    BY <1>t, <2>1, <2>s, Zenon DEF Rearm
  <2> QED
    BY <1>0, <2>4, <2>5, <2>7, <2>8, <2>9, <2>10 DEF FinAfterFlush, EofIsLast
<1> QED BY <1>1, <1>2

-----------------------------------------------------------------------------
(* Assembling the invariant of the next state *)

Stages == {"poll", "read", "callback", "write", "functors"}

LEMMA TypedNext ==
  ASSUME et_' \in BOOLEAN, state_' \in {"kConnected", "kDisconnecting", "kDisconnected"},
         outputBuffer_' \in Seq(Placed), sndbuf' \in Seq(Placed),
         received' \in Seq(Placed), accepted' \in Seq(Placed),
         stage' \in Stages, revents' \subseteq {"IN", "OUT"},
         writing' => reading', reading' \in BOOLEAN, writing' \in BOOLEAN,
         queue' \in Seq(Functors), batch' \in 0..Len(queue'), Len(sndbuf') <= SndCap,
         rcvbuf' \in Nat, input' \in Nat, rcvbuf' + input' <= MaxInput,
         deciding' \in BOOLEAN, edge' \in BOOLEAN, sockErr' \in BOOLEAN, fin' \in BOOLEAN,
         peerClosed' \in BOOLEAN, peerReset' \in BOOLEAN, eof' \in BOOLEAN,
         unsent' \subseteq Msgs
  PROVE  ConnTypeOK' /\ InputFits'
<1>1. rcvbuf' \in 0..MaxInput /\ input' \in 0..MaxInput
  <2>1. \A i, j \in Nat : i + j <= MaxInput => i \in 0..MaxInput /\ j \in 0..MaxInput
    BY InputAssumption
  <2> QED BY <2>1
<1>2. \A s \in {outputBuffer_', sndbuf', received', accepted'} : s \in Seq(Msgs \X (1..MsgLen))
  BY DEF Placed
<1>3. {reading', writing', deciding', edge', sockErr', fin', peerClosed', peerReset', eof'}
        \subseteq BOOLEAN
  OBVIOUS
<1>4. ConnTypeOK'
  BY <1>1, <1>2, <1>3 DEF ConnTypeOK, Stages
<1> QED BY <1>4 DEF InputFits

(* The types of the variables most steps leave alone. *)
LEMMA Typed ==
  ASSUME ConnIInv
  PROVE  /\ et_ \in BOOLEAN /\ state_ \in {"kConnected", "kDisconnecting", "kDisconnected"}
         /\ stage \in Stages /\ revents \subseteq {"IN", "OUT"}
         /\ (writing => reading) /\ reading \in BOOLEAN /\ writing \in BOOLEAN
         /\ deciding \in BOOLEAN /\ edge \in BOOLEAN /\ sockErr \in BOOLEAN /\ fin \in BOOLEAN
         /\ peerClosed \in BOOLEAN /\ peerReset \in BOOLEAN /\ eof \in BOOLEAN
         /\ unsent \subseteq Msgs
BY DEF ConnIInv, ConnTypeOK, Stages

(* A step that leaves the bytes, the functors and the closing alone. *)
LEMMA Quiet ==
  ASSUME ConnIInv,
         UNCHANGED <<et_, state_, reading, output, queue, sndbuf, fin, peerReset, received, eof>>,
         stage' \in Stages, revents' \subseteq {"IN", "OUT"}, batch' \in 0..Len(queue),
         edge' \in BOOLEAN, sockErr' \in BOOLEAN, peerClosed' \in BOOLEAN, deciding' \in BOOLEAN,
         unsent' \subseteq Msgs,
         rcvbuf' \in Nat, input' \in Nat, rcvbuf' + input' <= MaxInput
  PROVE  ConnIInv'
<1>1. /\ et_' = et_ /\ state_' = state_ /\ reading' = reading /\ outputBuffer_' = outputBuffer_
      /\ writing' = writing /\ accepted' = accepted /\ queue' = queue /\ sndbuf' = sndbuf
      /\ fin' = fin /\ peerReset' = peerReset /\ received' = received /\ eof' = eof
  BY DEF output
<1>2. ConnTypeOK' /\ InputFits'
  <2>1. /\ outputBuffer_' \in Seq(Placed) /\ sndbuf' \in Seq(Placed)
        /\ received' \in Seq(Placed) /\ accepted' \in Seq(Placed)
        /\ queue' \in Seq(Functors) /\ batch' \in 0..Len(queue') /\ Len(sndbuf') <= SndCap
    BY <1>1, Parts
  <2>2. /\ et_' \in BOOLEAN /\ state_' \in {"kConnected", "kDisconnecting", "kDisconnected"}
        /\ (writing' => reading') /\ reading' \in BOOLEAN /\ writing' \in BOOLEAN
        /\ fin' \in BOOLEAN /\ peerReset' \in BOOLEAN /\ eof' \in BOOLEAN
    BY <1>1, Typed
  <2> QED BY <2>1, <2>2, TypedNext
<1>3. ~peerReset => received' \o sndbuf' \o outputBuffer_' = accepted'
  BY <1>1 DEF ConnIInv, StreamIntact
<1>4. StreamIntact'
  BY <1>1, <1>3 DEF StreamIntact
<1>5. WritingIffBuffered' /\ FinAfterFlush' /\ EofIsLast'
  BY <1>1 DEF ConnIInv, WritingIffBuffered, FinAfterFlush, EofIsLast
<1>6. ClosingTold'
  BY <1>1 DEF ConnIInv, ClosingTold
<1> QED BY <1>2, <1>4, <1>5, <1>6 DEF ConnIInv

-----------------------------------------------------------------------------
(* Each step of the peer keeps the invariant. *)

LEMMA peerSendsKeeps ==
  ASSUME ConnIInv, peerSends
  PROVE  ConnIInv'
<1>1. /\ rcvbuf' = rcvbuf + 1 /\ input' = input - 1 /\ input > 0 /\ edge' = TRUE
      /\ UNCHANGED <<et_, state_, reading, output, queue, sndbuf, fin, peerReset, received, eof>>
      /\ UNCHANGED <<stage, revents, batch, sockErr, peerClosed, deciding, unsent>>
  BY DEF peerSends, owner, calls
<1>2. rcvbuf' \in Nat /\ input' \in Nat /\ rcvbuf' + input' <= MaxInput
  BY <1>1, Parts
<1> QED BY <1>1, <1>2, Typed, Parts, Quiet

LEMMA peerClosesKeeps ==
  ASSUME ConnIInv, peerCloses
  PROVE  ConnIInv'
<1>1. /\ peerClosed' = TRUE /\ edge' = TRUE
      /\ UNCHANGED <<et_, state_, reading, output, queue, sndbuf, fin, peerReset, received, eof>>
      /\ UNCHANGED <<stage, revents, batch, sockErr, rcvbuf, input, deciding, unsent>>
  BY DEF peerCloses, owner, calls
<1> QED BY <1>1, Typed, Parts, Quiet

LEMMA peerReadsKeeps ==
  ASSUME ConnIInv, peerReads
  PROVE  ConnIInv'
<1>1. /\ ~peerReset /\ sndbuf # << >> /\ edge' = TRUE
      /\ received' = Append(received, Head(sndbuf)) /\ sndbuf' = Tail(sndbuf)
      /\ UNCHANGED <<et_, state_, reading, outputBuffer_, writing, accepted, stage, revents,
                     queue, batch, rcvbuf, sockErr, fin, peerClosed, peerReset, input, eof,
                     unsent, deciding>>
  BY DEF peerReads, owner, output, calls
<1>2. /\ Head(sndbuf) \in Placed /\ Tail(sndbuf) \in Seq(Placed)
      /\ Len(Tail(sndbuf)) = Len(sndbuf) - 1
  BY <1>1, Parts, HeadTailProperties
<1>3. received' \in Seq(Placed) /\ sndbuf' \in Seq(Placed) /\ Len(sndbuf') <= SndCap
  BY <1>1, <1>2, Parts, AppendProperties
<1>4. ConnTypeOK' /\ InputFits'
  BY <1>1, <1>3, Typed, Parts, TypedNext
<1>5. received' \o sndbuf' = received \o sndbuf
  BY <1>1, Parts, MoveHead
<1>6. received \o sndbuf \o outputBuffer_ = accepted
  BY <1>1 DEF ConnIInv, StreamIntact
<1>7. StreamIntact'
  BY <1>1, <1>5, <1>6 DEF StreamIntact
<1>8. ~eof
  BY <1>1 DEF ConnIInv, EofIsLast
<1>9. WritingIffBuffered' /\ FinAfterFlush' /\ EofIsLast' /\ ClosingTold'
  BY <1>1, <1>8 DEF ConnIInv, WritingIffBuffered, FinAfterFlush, EofIsLast, ClosingTold
<1> QED BY <1>4, <1>7, <1>9 DEF ConnIInv

LEMMA peerReadsEofKeeps ==
  ASSUME ConnIInv, peerReadsEof
  PROVE  ConnIInv'
<1>1. /\ fin /\ sndbuf = << >> /\ reading /\ ~peerReset /\ eof' = TRUE
      /\ UNCHANGED <<et_, state_, reading, outputBuffer_, writing, accepted, stage, revents,
                     queue, batch, sndbuf, rcvbuf, edge, sockErr, fin, peerClosed, peerReset,
                     input, received, unsent, deciding>>
  BY DEF peerReadsEof, owner, output, kernel, calls
<1>2. ConnTypeOK' /\ InputFits'
  BY <1>1, Typed, Parts, TypedNext
<1>3. received \o sndbuf \o outputBuffer_ = accepted
  BY <1>1 DEF ConnIInv, StreamIntact
<1>4. StreamIntact'
  BY <1>1, <1>3 DEF StreamIntact
<1>5. outputBuffer_ = << >>
  BY <1>1 DEF ConnIInv, FinAfterFlush
<1>6. received = accepted
  <2>1. received \o << >> = received
    BY Parts, Concat
  <2> QED BY <1>1, <1>3, <1>5, <2>1
<1>7. EofIsLast'
  BY <1>1, <1>5, <1>6 DEF EofIsLast
<1>8. WritingIffBuffered' /\ FinAfterFlush' /\ ClosingTold'
  BY <1>1 DEF ConnIInv, WritingIffBuffered, FinAfterFlush, ClosingTold
<1> QED BY <1>2, <1>4, <1>7, <1>8 DEF ConnIInv

LEMMA peerResetsKeeps ==
  ASSUME ConnIInv, peerResets
  PROVE  ConnIInv'
<1>1. /\ peerReset' = TRUE /\ sockErr' = TRUE /\ sndbuf' = << >> /\ edge' = TRUE
      /\ UNCHANGED <<et_, state_, reading, outputBuffer_, writing, accepted, stage, revents,
                     queue, batch, rcvbuf, fin, peerClosed, input, received, eof, unsent,
                     deciding>>
  BY DEF peerResets, owner, output, calls
<1>2. sndbuf' \in Seq(Placed) /\ Len(sndbuf') <= SndCap
  BY <1>1, EmptyLen, Parts, EmptySeq
<1>3. ConnTypeOK' /\ InputFits'
  BY <1>1, <1>2, Typed, Parts, TypedNext
<1>4. StreamIntact'
  BY <1>1 DEF StreamIntact
<1>5. WritingIffBuffered' /\ FinAfterFlush' /\ EofIsLast' /\ ClosingTold'
  BY <1>1 DEF ConnIInv, WritingIffBuffered, FinAfterFlush, EofIsLast, ClosingTold
<1> QED BY <1>3, <1>4, <1>5 DEF ConnIInv

-----------------------------------------------------------------------------
(* So does each call of send() and shutdown(), on either thread. *)

LEMMA sendOwnerKeeps ==
  ASSUME ConnIInv, NEW m \in Msgs, sendOwner(m)
  PROVE  ConnIInv'
<1>1. /\ sendInLoop(m) /\ unsent' = unsent \ {m}
      /\ UNCHANGED <<et_, state_, reading, stage, revents, queue, batch, rcvbuf, fin, peerClosed,
                     peerReset, input, received, eof, deciding>>
  BY DEF sendOwner, owner, peer
<1>2. /\ outputBuffer_' \in Seq(Placed) /\ sndbuf' \in Seq(Placed) /\ accepted' \in Seq(Placed)
      /\ Len(sndbuf') <= SndCap
      /\ writing' \in BOOLEAN /\ (writing' => reading)
      /\ edge' \in BOOLEAN /\ sockErr' \in BOOLEAN
      /\ StreamIntact' /\ WritingIffBuffered' /\ FinAfterFlush' /\ EofIsLast'
  BY <1>1, SendKeeps
<1>3. ConnTypeOK' /\ InputFits'
  BY <1>1, <1>2, Typed, Parts, TypedNext
<1>4. ClosingTold'
  BY <1>1 DEF ConnIInv, ClosingTold
<1> QED BY <1>2, <1>3, <1>4 DEF ConnIInv

LEMMA AppendFunctor ==
  ASSUME ConnIInv, NEW f \in Functors
  PROVE  /\ Append(queue, f) \in Seq(Functors)
         /\ Len(Append(queue, f)) = Len(queue) + 1
         /\ \A i \in 1..Len(queue) : Append(queue, f)[i] = queue[i]
         /\ Append(queue, f)[Len(queue) + 1] = f
         /\ batch \in 0..Len(Append(queue, f))
<1>1. queue \in Seq(Functors) /\ batch \in 0..Len(queue) /\ Len(queue) \in Nat
  BY Parts
<1>2. /\ Append(queue, f) \in Seq(Functors)
      /\ Len(Append(queue, f)) = Len(queue) + 1
      /\ \A i \in 1..Len(queue) : Append(queue, f)[i] = queue[i]
      /\ Append(queue, f)[Len(queue) + 1] = f
  BY <1>1, AppendProperties
<1>3. batch \in 0..Len(queue) + 1
  BY <1>1
<1> QED BY <1>2, <1>3

LEMMA sendForeignKeeps ==
  ASSUME ConnIInv, NEW m \in Msgs, sendForeign(m)
  PROVE  ConnIInv'
<1> DEFINE fn == [op |-> "sendInLoop", msg |-> m]
<1>1. /\ unsent' = unsent \ {m}
      /\ queue' = IF state_ = "kConnected" THEN Append(queue, fn) ELSE queue
      /\ UNCHANGED <<et_, state_, reading, outputBuffer_, writing, accepted, stage, revents,
                     batch, sndbuf, rcvbuf, edge, sockErr, fin, peerClosed, peerReset, input,
                     received, eof, deciding>>
  BY DEF sendForeign, output, kernel, peer
<1>2. fn \in Functors /\ fn.op = "sendInLoop"
  BY DEF Functors
<1>3. queue' \in Seq(Functors) /\ batch' \in 0..Len(queue')
  BY <1>1, <1>2, AppendFunctor, Parts
<1>4. ConnTypeOK' /\ InputFits'
  BY <1>1, <1>3, Typed, Parts, TypedNext
<1>5. ~peerReset => received' \o sndbuf' \o outputBuffer_' = accepted'
  BY <1>1 DEF ConnIInv, StreamIntact
<1>6. StreamIntact'
  BY <1>1, <1>5 DEF StreamIntact
<1>7. WritingIffBuffered' /\ FinAfterFlush' /\ EofIsLast'
  BY <1>1 DEF ConnIInv, WritingIffBuffered, FinAfterFlush, EofIsLast
<1>8. ClosingTold'
  <2>1. (state_ = "kConnected" => reading /\ ~fin)
        /\ \A i \in 1..Len(queue) : queue[i].op = "shutdownInLoop" => state_ # "kConnected"
    BY DEF ConnIInv, ClosingTold
  <2> HIDE DEF fn
  <2>2. CASE state_ = "kConnected"
    <3>1. \A i \in 1..Len(queue) : queue'[i] = queue[i] /\ queue[i].op # "shutdownInLoop"
      BY <1>1, <1>2, <2>1, <2>2, AppendFunctor
    <3>2. queue'[Len(queue) + 1].op = "sendInLoop" /\ Len(queue') = Len(queue) + 1
      BY <1>1, <1>2, <2>2, AppendFunctor
    <3>3. \A i \in 1..Len(queue') : i \in 1..Len(queue) \/ i = Len(queue) + 1
      BY <3>2, Parts
    <3> QED BY <1>1, <2>1, <3>1, <3>2, <3>3 DEF ClosingTold
  <2>3. CASE state_ # "kConnected"
    BY <1>1, <2>1, <2>3 DEF ClosingTold
  <2> QED BY <2>2, <2>3
<1> QED BY <1>4, <1>6, <1>7, <1>8 DEF ConnIInv

(* A half-close that finds nothing waiting stays behind every byte. *)
LEMMA HalfClose ==
  ASSUME ConnIInv, shutdownInLoop(writing)
  PROVE  /\ fin' \in BOOLEAN /\ (fin => fin')
         /\ (fin' /\ reading => outputBuffer_ = << >>)
<1>1. fin' = (fin \/ ~writing)
  BY DEF shutdownInLoop
<1>2. reading => (writing <=> outputBuffer_ # << >>)
  BY DEF ConnIInv, WritingIffBuffered
<1>3. fin /\ reading => outputBuffer_ = << >>
  BY DEF ConnIInv, FinAfterFlush
<1>4. fin \in BOOLEAN /\ writing \in BOOLEAN
  BY Typed
<1> QED BY <1>1, <1>2, <1>3, <1>4

LEMMA shutdownOwnerKeeps ==
  ASSUME ConnIInv, shutdownOwner
  PROVE  ConnIInv'
<1>1. /\ state_' = "kDisconnecting" /\ shutdownInLoop(writing)
      /\ UNCHANGED <<et_, reading, outputBuffer_, writing, accepted, stage, revents, queue,
                     batch, sndbuf, rcvbuf, edge, sockErr, peerClosed, peerReset, input,
                     received, eof, unsent, deciding>>
  BY DEF shutdownOwner, isWriting, output, owner, kernel, peer, calls
<1>2. fin' \in BOOLEAN /\ (fin => fin') /\ (fin' /\ reading => outputBuffer_ = << >>)
  BY <1>1, HalfClose
<1>3. ConnTypeOK' /\ InputFits'
  BY <1>1, <1>2, Typed, Parts, TypedNext
<1>4. ~peerReset => received' \o sndbuf' \o outputBuffer_' = accepted'
  BY <1>1 DEF ConnIInv, StreamIntact
<1>5. StreamIntact'
  BY <1>1, <1>4 DEF StreamIntact
<1>6. WritingIffBuffered' /\ FinAfterFlush' /\ EofIsLast' /\ ClosingTold'
  BY <1>1, <1>2 DEF ConnIInv, WritingIffBuffered, FinAfterFlush, EofIsLast, ClosingTold
<1> QED BY <1>3, <1>5, <1>6 DEF ConnIInv

LEMMA shutdownTestsKeeps ==
  ASSUME ConnIInv, shutdownTests
  PROVE  ConnIInv'
<1>1. /\ deciding' = TRUE
      /\ UNCHANGED <<et_, state_, reading, output, queue, sndbuf, fin, peerReset, received, eof>>
      /\ UNCHANGED <<stage, revents, batch, rcvbuf, edge, sockErr, peerClosed, input, unsent>>
  BY DEF shutdownTests, owner, kernel, peer
<1> QED BY <1>1, Typed, Parts, Quiet

LEMMA shutdownForeignKeeps ==
  ASSUME ConnIInv, shutdownForeign
  PROVE  ConnIInv'
<1> DEFINE fn == [op |-> "shutdownInLoop"]
<1>1. /\ state_' = "kDisconnecting" /\ queue' = Append(queue, fn) /\ deciding' = FALSE
      /\ UNCHANGED <<et_, reading, outputBuffer_, writing, accepted, stage, revents, batch,
                     sndbuf, rcvbuf, edge, sockErr, fin, peerClosed, peerReset, input,
                     received, eof, unsent>>
  BY DEF shutdownForeign, output, kernel, peer
<1>2. fn \in Functors
  BY DEF Functors
<1>3. queue' \in Seq(Functors) /\ batch' \in 0..Len(queue')
  BY <1>1, <1>2, AppendFunctor
<1>4. ConnTypeOK' /\ InputFits'
  BY <1>1, <1>3, Typed, Parts, TypedNext
<1>5. ~peerReset => received' \o sndbuf' \o outputBuffer_' = accepted'
  BY <1>1 DEF ConnIInv, StreamIntact
<1>6. StreamIntact'
  BY <1>1, <1>5 DEF StreamIntact
<1>7. WritingIffBuffered' /\ FinAfterFlush' /\ EofIsLast' /\ ClosingTold'
  BY <1>1 DEF ConnIInv, WritingIffBuffered, FinAfterFlush, EofIsLast, ClosingTold
<1> QED BY <1>4, <1>6, <1>7 DEF ConnIInv

-----------------------------------------------------------------------------
(* So does each step of the owner's round. *)

LEMMA pollKeeps ==
  ASSUME ConnIInv, poll
  PROVE  ConnIInv'
<1>1. UNCHANGED <<et_, state_, reading, output, queue, sndbuf, rcvbuf, fin, peerClosed,
                  peerReset, input, received, eof, deciding, unsent>>
  BY DEF poll, peer, calls
<1>2. /\ stage' \in Stages /\ revents' \subseteq {"IN", "OUT"} /\ batch' \in 0..Len(queue)
      /\ edge' \in BOOLEAN /\ sockErr' \in BOOLEAN
  <2>1. Ready \subseteq {"IN", "OUT"}
    BY DEF Ready
  <2>2. CASE Reported
    <3>1. revents' = Ready /\ edge' = FALSE /\ sockErr' = FALSE /\ batch' = batch
      BY <2>2 DEF poll, handleError
    <3>2. stage' \in {"read", "write"}
      BY <2>2 DEF poll
    <3> QED BY <2>1, <3>1, <3>2, Parts DEF Stages
  <2>3. CASE ~Reported
    <3>1. /\ stage' = "functors" /\ batch' = Len(queue) /\ revents' = revents
          /\ edge' = edge /\ sockErr' = sockErr
      BY <2>3 DEF poll
    <3> QED BY <3>1, Typed, Parts DEF Stages
  <2> QED BY <2>2, <2>3
<1> QED BY <1>1, <1>2, Typed, Parts, Quiet

LEMMA AfterReading ==
  ASSUME ConnIInv, AfterRead
  PROVE  stage' \in Stages /\ batch' \in 0..Len(queue)
BY Parts DEF AfterRead, Stages

LEMMA handleReadDataKeeps ==
  ASSUME ConnIInv, handleReadData
  PROVE  ConnIInv'
<1>1. /\ stage' = "callback"
      /\ UNCHANGED <<et_, state_, reading, output, queue, sndbuf, fin, peerReset, received, eof>>
      /\ UNCHANGED <<revents, batch, edge, sockErr, peerClosed, input, deciding, unsent>>
  BY DEF handleReadData, peer, calls
<1>2. PICK n \in 1..rcvbuf : rcvbuf' = rcvbuf - n
  BY DEF handleReadData
<1>3. rcvbuf' \in Nat /\ input' \in Nat /\ rcvbuf' + input' <= MaxInput
  BY <1>1, <1>2, Parts
<1>4. stage' \in Stages
  BY <1>1 DEF Stages
<1> QED BY <1>1, <1>3, <1>4, Typed, Parts, Quiet

LEMMA CallbackReturnsKeeps ==
  ASSUME ConnIInv, CallbackReturns
  PROVE  ConnIInv'
<1>1. /\ UNCHANGED <<et_, state_, reading, output, queue, sndbuf, fin, peerReset, received, eof>>
      /\ UNCHANGED <<revents, rcvbuf, edge, sockErr, peerClosed, input, deciding, unsent>>
  BY DEF CallbackReturns, kernel, peer, calls
<1>2. stage' \in Stages /\ batch' \in 0..Len(queue)
  <2>1. CASE et_
    BY <2>1, Parts DEF CallbackReturns, Stages
  <2>2. CASE ~et_
    BY <2>2, AfterReading DEF CallbackReturns
  <2> QED BY <2>1, <2>2
<1> QED BY <1>1, <1>2, Typed, Parts, Quiet

LEMMA handleReadFailsKeeps ==
  ASSUME ConnIInv, handleReadFails
  PROVE  ConnIInv'
<1>1. /\ sockErr' = FALSE
      /\ UNCHANGED <<et_, state_, reading, output, queue, sndbuf, fin, peerReset, received, eof>>
      /\ UNCHANGED <<revents, rcvbuf, edge, peerClosed, input, deciding, unsent>>
  BY DEF handleReadFails, handleError, peer, calls
<1>2. stage' \in Stages /\ batch' \in 0..Len(queue)
  BY AfterReading DEF handleReadFails
<1> QED BY <1>1, <1>2, Typed, Parts, Quiet

LEMMA handleReadEofKeeps ==
  ASSUME ConnIInv, handleReadEof
  PROVE  ConnIInv'
<1>1. /\ state_' = "kDisconnected" /\ reading' = FALSE /\ writing' = FALSE
      /\ UNCHANGED <<et_, outputBuffer_, accepted, revents, queue, sndbuf, rcvbuf, edge, sockErr,
                     fin, peerClosed, peerReset, input, received, eof, unsent, deciding>>
  BY DEF handleReadEof, handleClose, kernel, peer, calls
<1>2. stage' \in Stages /\ batch' \in 0..Len(queue)
  BY AfterReading DEF handleReadEof
<1>3. ConnTypeOK' /\ InputFits'
  BY <1>1, <1>2, Typed, Parts, TypedNext
<1>4. ~peerReset => received' \o sndbuf' \o outputBuffer_' = accepted'
  BY <1>1 DEF ConnIInv, StreamIntact
<1>5. StreamIntact'
  BY <1>1, <1>4 DEF StreamIntact
<1>6. WritingIffBuffered' /\ FinAfterFlush' /\ EofIsLast' /\ ClosingTold'
  BY <1>1 DEF ConnIInv, WritingIffBuffered, FinAfterFlush, EofIsLast, ClosingTold
<1> QED BY <1>3, <1>5, <1>6 DEF ConnIInv

LEMMA handleWriteFailsKeeps ==
  ASSUME ConnIInv, handleWriteFails
  PROVE  ConnIInv'
<1>1. /\ stage' = "functors" /\ batch' = Len(queue)
      /\ sockErr' = IF writing THEN FALSE ELSE sockErr
      /\ UNCHANGED <<et_, state_, reading, output, queue, sndbuf, fin, peerReset, received, eof>>
      /\ UNCHANGED <<revents, rcvbuf, edge, peerClosed, input, deciding, unsent>>
  BY DEF handleWriteFails, isWriting, AfterWrite, peer, calls
<1>2. stage' \in Stages /\ batch' \in 0..Len(queue)
  BY <1>1, Parts DEF Stages
<1>3. sockErr' \in BOOLEAN
  <2>1. CASE writing
    BY <1>1, <2>1
  <2>2. CASE ~writing
    BY <1>1, <2>2, Typed
  <2> QED BY <2>1, <2>2
<1> QED BY <1>1, <1>2, <1>3, Typed, Parts, Quiet

LEMMA FunctorsDoneKeeps ==
  ASSUME ConnIInv, FunctorsDone
  PROVE  ConnIInv'
<1>1. /\ stage' = "poll" /\ revents' = {}
      /\ UNCHANGED <<et_, state_, reading, output, queue, sndbuf, fin, peerReset, received, eof>>
      /\ UNCHANGED <<batch, rcvbuf, edge, sockErr, peerClosed, input, deciding, unsent>>
  BY DEF FunctorsDone, kernel, peer, calls
<1>2. stage' \in Stages /\ revents' \subseteq {"IN", "OUT"}
  BY <1>1 DEF Stages
<1> QED BY <1>1, <1>2, Typed, Parts, Quiet

(* handleWrite hands the first k bytes waiting to the kernel; the FIN goes  *)
(* out with it only if none are left.                                       *)
LEMMA handleWriteKeeps ==
  ASSUME ConnIInv, handleWrite
  PROVE  ConnIInv'
<1> DEFINE out == outputBuffer_
<1>1. /\ stage = "write" /\ writing
      /\ UNCHANGED <<et_, state_, reading, accepted, revents, queue, rcvbuf, sockErr, peerClosed,
                     peerReset, input, received, eof, unsent, deciding>>
  BY DEF handleWrite, isWriting, peer, calls
<1>2. PICK k \in WriteResults(Len(out)) \ {0} :
        /\ sndbuf' = sndbuf \o SubSeq(out, 1, k)
        /\ outputBuffer_' = SubSeq(out, k + 1, Len(out))
        /\ IF k = Len(out)
           THEN disableWriting /\ PendingShutdown /\ AfterWrite
           ELSE /\ UNCHANGED <<writing, edge, fin>>
                /\ IF et_ THEN UNCHANGED <<stage, batch>> ELSE AfterWrite
  BY Zenon DEF handleWrite
<1>3. k \in 1..Len(out) /\ Len(sndbuf) + k <= SndCap /\ ~peerReset
  <2>1. k \in 0..Len(out) /\ Len(sndbuf) + k <= SndCap
    BY <1>2, Written, Parts
  <2>2. ~peerReset
    BY <1>2 DEF WriteResults
  <2> QED BY <1>2, <2>1, <2>2
<1>4. reading /\ out # << >> /\ ~fin /\ ~eof
  BY <1>1 DEF ConnIInv, ConnTypeOK, WritingIffBuffered, FinAfterFlush, EofIsLast
<1>5. out \in Seq(Placed) /\ Len(out) \in Nat /\ k \in 0..Len(out)
  BY <1>3, Parts
<1> HIDE DEF out
<1>6. /\ SubSeq(out, 1, k) \in Seq(Placed) /\ Len(SubSeq(out, 1, k)) = k
      /\ SubSeq(out, k + 1, Len(out)) \in Seq(Placed)
      /\ Len(SubSeq(out, k + 1, Len(out))) = Len(out) - k
      /\ SubSeq(out, 1, k) \o SubSeq(out, k + 1, Len(out)) = out
  BY <1>5, CutAt
<1>7. /\ sndbuf' \in Seq(Placed) /\ Len(sndbuf') <= SndCap
      /\ outputBuffer_' \in Seq(Placed) /\ Len(outputBuffer_') = Len(out) - k
  <2>1. /\ sndbuf \o SubSeq(out, 1, k) \in Seq(Placed)
        /\ Len(sndbuf \o SubSeq(out, 1, k)) = Len(sndbuf) + k
    BY <1>6, Parts, Concat
  <2> QED BY <1>2, <1>3, <1>6, <2>1
<1>8. received' \o sndbuf' \o outputBuffer_' = accepted'
  <2> DEFINE sent == SubSeq(out, 1, k)
             rest == SubSeq(out, k + 1, Len(out))
  <2>1. sent \in Seq(Placed) /\ rest \in Seq(Placed)
    BY <1>6
  <2>2. sent \o rest = out /\ sndbuf' = sndbuf \o sent /\ outputBuffer_' = rest
    BY <1>2, <1>6
  <2> HIDE DEF sent, rest
  <2>3. received \in Seq(Placed) /\ sndbuf \in Seq(Placed)
    BY Parts
  <2>r. received \o sndbuf \in Seq(Placed)
    BY <2>3, Concat
  <2>4. received \o (sndbuf \o sent) = (received \o sndbuf) \o sent
    BY ONLY <2>1, <2>3, Associative
  <2>5. ((received \o sndbuf) \o sent) \o rest = (received \o sndbuf) \o (sent \o rest)
    BY ONLY <2>1, <2>r, Associative
  <2>6. received \o sndbuf \o out = accepted
    BY <1>3 DEF ConnIInv, StreamIntact, out
  <2> QED BY <1>1, <2>2, <2>4, <2>5, <2>6
<1>9. StreamIntact'
  BY <1>8 DEF StreamIntact
<1>10. stage' \in Stages /\ batch' \in 0..Len(queue) /\ edge' \in BOOLEAN
  <2>1. CASE k = Len(out)
    <3>1. stage' = "functors" /\ batch' = Len(queue)
      BY <1>2, <2>1 DEF AfterWrite
    <3>2. edge' \in BOOLEAN
      BY <1>2, <2>1 DEF disableWriting, Rearm
    <3> QED BY <3>1, <3>2, Parts DEF Stages
  <2>2. CASE k # Len(out)
    <3>1. edge' = edge
      BY <1>2, <2>2
    <3>2. \/ stage' = stage /\ batch' = batch
          \/ stage' = "functors" /\ batch' = Len(queue)
      BY <1>2, <2>2 DEF AfterWrite
    <3> QED BY <3>1, <3>2, Typed, Parts DEF Stages
  <2> QED BY <2>1, <2>2
<1>11. /\ writing' \in BOOLEAN /\ fin' \in BOOLEAN
       /\ (writing' <=> outputBuffer_' # << >>)
       /\ (fin' => outputBuffer_' = << >> /\ state_ # "kConnected")
  <2>1. outputBuffer_' = << >> <=> Len(outputBuffer_') = 0
    BY <1>7, EmptyLen
  <2>2. CASE k = Len(out)
    <3>1. writing' = FALSE /\ outputBuffer_' = << >>
      BY <1>2, <1>5, <1>7, <2>1, <2>2 DEF disableWriting
    <3>2. fin' = (state_ = "kDisconnecting")
      BY <1>2, <1>4, <2>2, Typed DEF PendingShutdown, shutdownInLoop
    <3> QED BY <3>1, <3>2
  <2>3. CASE k # Len(out)
    <3>1. Len(outputBuffer_') # 0
      BY <1>5, <1>7, <2>3
    <3>2. writing' = writing /\ fin' = fin
      BY <1>2, <2>3
    <3>3. writing' = TRUE /\ fin' = FALSE
      BY <1>1, <1>4, <3>2, Typed
    <3> QED BY <2>1, <3>1, <3>3
  <2> QED BY <2>2, <2>3
<1>12. ConnTypeOK' /\ InputFits'
  BY <1>1, <1>4, <1>7, <1>10, <1>11, Typed, Parts, TypedNext
<1>13. ClosingTold'
  BY <1>1, <1>4, <1>11 DEF ConnIInv, ClosingTold
<1>14. WritingIffBuffered' /\ FinAfterFlush' /\ EofIsLast'
  BY <1>1, <1>4, <1>11 DEF WritingIffBuffered, FinAfterFlush, EofIsLast
<1> QED BY <1>9, <1>12, <1>13, <1>14 DEF ConnIInv

LEMMA RunFunctorKeeps ==
  ASSUME ConnIInv, RunFunctor
  PROVE  ConnIInv'
<1>1. /\ batch > 0 /\ batch' = batch - 1 /\ queue' = Tail(queue)
      /\ UNCHANGED <<et_, state_, reading, stage, revents, rcvbuf, peerClosed, peerReset, input,
                     received, eof, unsent, deciding>>
  BY DEF RunFunctor, peer, calls
<1>2. queue # << >> /\ Len(queue) > 0
  BY <1>1, Parts, EmptyLen
<1>3. /\ Head(queue) \in Functors /\ Head(queue) = queue[1]
      /\ Tail(queue) \in Seq(Functors) /\ Len(Tail(queue)) = Len(queue) - 1
      /\ \A i \in 1..Len(Tail(queue)) : Tail(queue)[i] = queue[i + 1]
  BY <1>2, Parts, HeadTailProperties
<1>4. queue' \in Seq(Functors) /\ batch' \in 0..Len(queue')
  BY <1>1, <1>3, Parts
<1>5. \A i \in 1..Len(queue') : queue'[i].op = "shutdownInLoop" => state_ # "kConnected"
  <2>1. \A i \in 1..Len(queue') : i + 1 \in 1..Len(queue) /\ queue'[i] = queue[i + 1]
    BY <1>1, <1>3, Parts
  <2> QED BY <2>1 DEF ConnIInv, ClosingTold
<1>6. CASE Head(queue).op = "sendInLoop" /\ sendInLoop(Head(queue).msg) /\ UNCHANGED fin
  <2>1. Head(queue).msg \in Msgs
    BY <1>3, <1>6 DEF Functors
  <2>2. fin' = fin
    BY <1>6
  <2>3. /\ outputBuffer_' \in Seq(Placed) /\ sndbuf' \in Seq(Placed) /\ accepted' \in Seq(Placed)
        /\ Len(sndbuf') <= SndCap
        /\ writing' \in BOOLEAN /\ (writing' => reading)
        /\ edge' \in BOOLEAN /\ sockErr' \in BOOLEAN
        /\ StreamIntact' /\ WritingIffBuffered' /\ FinAfterFlush' /\ EofIsLast'
    BY <1>1, <1>6, <2>1, <2>2, SendKeeps
  <2>4. ConnTypeOK' /\ InputFits'
    BY <1>1, <1>4, <2>2, <2>3, Typed, Parts, TypedNext
  <2>5. ClosingTold'
    BY <1>1, <1>5, <2>2 DEF ConnIInv, ClosingTold
  <2> QED BY <2>3, <2>4, <2>5 DEF ConnIInv
<1>7. CASE /\ Head(queue).op = "shutdownInLoop"
           /\ shutdownInLoop(writing)
           /\ UNCHANGED <<output, sndbuf, edge, sockErr>>
  <2>1. UNCHANGED <<outputBuffer_, writing, accepted, sndbuf, edge, sockErr>>
    BY <1>7 DEF output
  <2>2. fin' \in BOOLEAN /\ (fin => fin') /\ (fin' /\ reading => outputBuffer_ = << >>)
    BY <1>7, HalfClose
  <2>3. state_ # "kConnected"
    <3>1. 1 \in 1..Len(queue)
      BY <1>2, Parts
    <3> QED BY <1>3, <1>7, <3>1 DEF ConnIInv, ClosingTold
  <2>4. ConnTypeOK' /\ InputFits'
    BY <1>1, <1>4, <2>1, <2>2, Typed, Parts, TypedNext
  <2>5. ~peerReset => received' \o sndbuf' \o outputBuffer_' = accepted'
    BY <1>1, <2>1 DEF ConnIInv, StreamIntact
  <2>6. StreamIntact'
    BY <1>1, <2>5 DEF StreamIntact
  <2>7. ClosingTold'
    BY <1>1, <1>5, <2>3 DEF ClosingTold
  <2>8. WritingIffBuffered' /\ FinAfterFlush' /\ EofIsLast'
    BY <1>1, <2>1, <2>2 DEF ConnIInv, WritingIffBuffered, FinAfterFlush, EofIsLast
  <2> QED BY <2>4, <2>6, <2>7, <2>8 DEF ConnIInv
<1> QED BY <1>6, <1>7, Zenon DEF RunFunctor, isWriting

-----------------------------------------------------------------------------
(* The theorems *)

LEMMA InitHolds ==
  ASSUME Init
  PROVE  ConnIInv
<1>1. << >> \in Seq(Msgs \X (1..MsgLen)) /\ << >> \in Seq(Functors) /\ Len(<< >>) = 0
  BY EmptySeq
<1>2. ConnTypeOK
  <2>1. /\ \A s \in {outputBuffer_, sndbuf, received, accepted} : s \in Seq(Msgs \X (1..MsgLen))
        /\ queue \in Seq(Functors)
    BY <1>1 DEF Init
  <2>2. batch \in 0..Len(queue) /\ Len(sndbuf) <= SndCap
    BY <1>1, SizeAssumption DEF Init
  <2>3. rcvbuf \in 0..MaxInput /\ input \in 0..MaxInput
    BY InputAssumption DEF Init
  <2>4. {reading, writing, deciding, edge, sockErr, fin, peerClosed, peerReset, eof}
          \subseteq BOOLEAN
    BY DEF Init
  <2>5. /\ et_ \in BOOLEAN /\ state_ \in {"kConnected", "kDisconnecting", "kDisconnected"}
        /\ stage \in {"poll", "read", "callback", "write", "functors"}
        /\ (writing => reading) /\ revents \subseteq {"IN", "OUT"} /\ unsent \subseteq Msgs
    BY DEF Init
  <2> QED BY <2>1, <2>2, <2>3, <2>4, <2>5 DEF ConnTypeOK
<1>3. StreamIntact
  <2>1. << >> \o << >> \o << >> = << >>
    BY <1>1, ConcatEmptySeq
  <2> QED BY <2>1 DEF Init, StreamIntact
<1>4. WritingIffBuffered /\ FinAfterFlush /\ EofIsLast /\ InputFits
  BY InputAssumption DEF Init, WritingIffBuffered, FinAfterFlush, EofIsLast, InputFits
<1>5. ClosingTold
  BY <1>1 DEF Init, ClosingTold
<1> QED BY <1>2, <1>3, <1>4, <1>5 DEF ConnIInv

LEMMA StepKeeps ==
  ASSUME ConnIInv, [Next]_vars
  PROVE  ConnIInv'
<1>1. CASE OwnerRound
  BY <1>1, pollKeeps, handleReadDataKeeps, CallbackReturnsKeeps, handleReadFailsKeeps,
     handleReadEofKeeps, handleWriteKeeps, handleWriteFailsKeeps, RunFunctorKeeps,
     FunctorsDoneKeeps DEF OwnerRound
<1>2. CASE Callers
  BY <1>2, sendOwnerKeeps, sendForeignKeeps, shutdownOwnerKeeps, shutdownTestsKeeps,
     shutdownForeignKeeps DEF Callers
<1>3. CASE Peer
  BY <1>3, peerSendsKeeps, peerReadsKeeps, peerReadsEofKeeps, peerClosesKeeps, peerResetsKeeps
     DEF Peer
<1>4. CASE UNCHANGED vars
  <2>1. /\ UNCHANGED <<et_, state_, reading, output, queue, sndbuf, fin, peerReset, received, eof>>
        /\ UNCHANGED <<stage, revents, batch, edge, sockErr, peerClosed, deciding, unsent, rcvbuf,
                       input>>
    BY <1>4 DEF vars, owner, kernel, peer, calls
  <2> QED BY <2>1, Typed, Parts, Quiet
<1> QED BY <1>1, <1>2, <1>3, <1>4 DEF Next

(* The strengthened invariant holds in every reachable state, under any     *)
(* schedule of the owner, the other threads and the peer.                   *)
THEOREM ConnInductive == SafeSpec => []ConnIInv
<1>1. Init => ConnIInv
  BY InitHolds
<1>2. ConnIInv /\ [Next]_vars => ConnIInv'
  BY StepKeeps
<1> QED BY <1>1, <1>2, PTL DEF SafeSpec

(* No byte that sendInLoop took is lost, repeated or overtaken on its way   *)
(* through outputBuffer_ and the kernel, whatever ::write takes at a time.  *)
THEOREM StreamKept == Spec => []StreamIntact
<1>1. ConnIInv => StreamIntact
  BY DEF ConnIInv
<1> QED BY <1>1, ConnInductive, PTL DEF Spec

(* Every variable of a connection keeps its type. *)
THEOREM ConnTypeCorrect == Spec => []ConnTypeOK
<1>1. ConnIInv => ConnTypeOK
  BY DEF ConnIInv
<1> QED BY <1>1, ConnInductive, PTL DEF Spec

(* handleRead, handleWrite and sendInLoop ask for EPOLLOUT exactly while    *)
(* bytes wait.                                                              *)
THEOREM AsksWhileBuffered == Spec => []WritingIffBuffered
<1>1. ConnIInv => WritingIffBuffered
  BY DEF ConnIInv
<1> QED BY <1>1, ConnInductive, PTL DEF Spec

(* shutdown()'s FIN goes out behind the last byte that was waiting.         *)
THEOREM FinIsLast == Spec => []FinAfterFlush
<1>1. ConnIInv => FinAfterFlush
  BY DEF ConnIInv
<1> QED BY <1>1, ConnInductive, PTL DEF Spec

-----------------------------------------------------------------------------
(* The connection keeps ByteStream's safety promises: every step is one of  *)
(* the stream's or changes nothing there.                                   *)

LEMMA StatusIs ==
  /\ eof => StreamStatus = "eof"
  /\ ~eof /\ (peerReset \/ ~reading) => StreamStatus = "aborted"
  /\ ~eof /\ ~peerReset /\ reading /\ state_ = "kConnected" => StreamStatus = "open"
  /\ ~eof /\ ~peerReset /\ reading /\ state_ # "kConnected" => StreamStatus = "closing"
BY DEF StreamStatus

LEMMA StatusNext ==
  /\ eof' => StreamStatus' = "eof"
  /\ ~eof' /\ (peerReset' \/ ~reading') => StreamStatus' = "aborted"
  /\ ~eof' /\ ~peerReset' /\ reading' /\ state_' = "kConnected" => StreamStatus' = "open"
  /\ ~eof' /\ ~peerReset' /\ reading' /\ state_' # "kConnected" => StreamStatus' = "closing"
BY DEF StreamStatus

LEMMA Stutters ==
  ASSUME UNCHANGED <<accepted, received, eof, peerReset, peerClosed, reading, state_>>
  PROVE  UNCHANGED BS!vars
<1>1. StreamStatus' = StreamStatus
  BY DEF StreamStatus
<1> QED BY <1>1 DEF BS!vars

LEMMA peerReadsDelivers ==
  ASSUME ConnIInv, peerReads
  PROVE  BS!Next
<1>1. /\ ~peerReset /\ sndbuf # << >>
      /\ received' = Append(received, Head(sndbuf)) /\ sndbuf' = Tail(sndbuf)
      /\ UNCHANGED <<reading, outputBuffer_, accepted, peerClosed, peerReset, eof, state_>>
  BY DEF peerReads, output
<1>2. ConnIInv'
  BY peerReadsKeeps
<1>3. received' \o sndbuf' \o outputBuffer_' = accepted
  BY <1>1, <1>2 DEF ConnIInv, StreamIntact
<1>4. received' \in Seq(Placed) /\ sndbuf' \in Seq(Placed) /\ outputBuffer_' \in Seq(Placed)
  BY <1>2 DEF ConnIInv, ConnTypeOK, Placed
<1>5. sndbuf' \o outputBuffer_' \in Seq(Placed)
  BY <1>4, Concat
<1>6. received' \o sndbuf' \o outputBuffer_' = received' \o (sndbuf' \o outputBuffer_')
  BY ONLY <1>4, Associative
<1>7. Len(received') \in 0..Len(accepted) /\ SubSeq(accepted, 1, Len(received')) = received'
  BY <1>3, <1>4, <1>5, <1>6, PrefixOfConcat
<1>8. Len(received') = Len(received) + 1 /\ Len(received) \in Nat /\ Len(accepted) \in Nat
  <2>1. Head(sndbuf) \in Placed
    BY <1>1, Parts, HeadTailProperties
  <2> QED BY <1>1, <2>1, Parts, AppendProperties, LenProperties
<1>9. \E n \in Len(received) + 1 .. Len(accepted) : received' = SubSeq(accepted, 1, n)
  <2>1. Len(received') \in Len(received) + 1 .. Len(accepted)
    BY <1>7, <1>8
  <2> QED BY <1>7, <2>1
<1>10. ~eof
  BY <1>1 DEF ConnIInv, EofIsLast
<1>11. StreamStatus' = StreamStatus
  BY <1>1 DEF StreamStatus
<1>12. BS!ReadMore
  BY <1>1, <1>9, <1>11 DEF BS!ReadMore
<1>13. StreamStatus \in {"open", "closing", "aborted"}
  BY <1>10, StatusIs, Typed
<1> QED BY <1>12, <1>13 DEF BS!Next, BS!Deliver, BS!DeliverLate

LEMMA peerReadsEofEnds ==
  ASSUME ConnIInv, peerReadsEof
  PROVE  BS!Next
<1>1. /\ fin /\ sndbuf = << >> /\ ~eof /\ reading /\ ~peerReset /\ eof' = TRUE
      /\ UNCHANGED <<accepted, received, peerClosed, peerReset>>
  BY DEF peerReadsEof, output
<1>2. received = accepted
  <2>1. received' = accepted'
    BY <1>1, peerReadsEofKeeps DEF ConnIInv, EofIsLast
  <2> QED BY <1>1, <2>1
<1>3. state_ # "kConnected"
  BY <1>1 DEF ConnIInv, ClosingTold
<1>4. StreamStatus = "closing"
  BY <1>1, <1>3, StatusIs
<1>5. StreamStatus' = "eof"
  BY <1>1, StatusNext
<1>6. BS!Eof
  BY <1>1, <1>2, <1>4, <1>5 DEF BS!Eof
<1> QED BY <1>6 DEF BS!Next

LEMMA peerClosesGoes ==
  ASSUME ConnIInv, peerCloses
  PROVE  BS!Next
<1>1. /\ ~peerClosed /\ ~peerReset /\ peerClosed' = TRUE
      /\ UNCHANGED <<reading, accepted, received, peerReset, eof, state_>>
  BY DEF peerCloses, output
<1>2. StreamStatus' = StreamStatus
  BY <1>1 DEF StreamStatus
<1>3. BS!PeerGoes
  BY <1>1, <1>2 DEF BS!PeerGoes
<1> QED BY <1>3 DEF BS!Next

LEMMA peerResetsAborts ==
  ASSUME ConnIInv, peerResets
  PROVE  [BS!Next]_(BS!vars)
<1>1. /\ ~peerReset /\ peerReset' = TRUE
      /\ UNCHANGED <<reading, accepted, received, peerClosed, eof, state_>>
  BY DEF peerResets, output
<1>2. CASE ~eof /\ reading
  <2>1. StreamStatus \in {"open", "closing"} /\ StreamStatus' = "aborted"
    BY <1>1, <1>2, StatusIs, StatusNext
  <2>2. BS!Abort
    BY <1>1, <2>1 DEF BS!Abort
  <2> QED BY <2>2 DEF BS!Next
<1>3. CASE eof \/ ~reading
  <2>1. StreamStatus' = StreamStatus
    BY <1>1, <1>3, StatusIs, StatusNext, Typed
  <2>2. CASE peerClosed
    <3>1. (peerClosed \/ peerReset)' = (peerClosed \/ peerReset)
      BY <1>1, <2>2
    <3> QED BY <1>1, <2>1, <3>1 DEF BS!vars
  <2>3. CASE ~peerClosed
    <3>1. BS!PeerGoes
      BY <1>1, <2>1, <2>3 DEF BS!PeerGoes
    <3> QED BY <3>1 DEF BS!Next
  <2> QED BY <2>2, <2>3
<1> QED BY <1>2, <1>3

LEMMA SendAccepts ==
  ASSUME ConnIInv, NEW m \in Msgs, sendInLoop(m),
         UNCHANGED <<received, eof, peerReset, peerClosed, reading, state_>>
  PROVE  [BS!Next]_(BS!vars)
<1>1. CASE state_ = "kConnected"
  <2>1. accepted' = accepted \o Bytes(m)
    BY <1>1 DEF sendInLoop
  <2>2. reading /\ ~fin /\ ~eof
    BY <1>1 DEF ConnIInv, ClosingTold, EofIsLast
  <2>3. StreamStatus \in {"open", "aborted"}
    BY <1>1, <2>2, StatusIs
  <2>4. StreamStatus' = StreamStatus
    BY DEF StreamStatus
  <2>5. BS!Accept(m)
    BY <2>1, <2>3, <2>4 DEF BS!Accept
  <2> QED BY <2>5 DEF BS!Next
<1>2. CASE state_ # "kConnected"
  <2>1. accepted' = accepted
    BY <1>2 DEF sendInLoop, output
  <2> QED BY <2>1, Stutters
<1> QED BY <1>1, <1>2

(* Whoever calls shutdown() closes the stream if it was open. *)
LEMMA ShutdownCloses ==
  ASSUME ConnIInv, state_' = "kDisconnecting",
         UNCHANGED <<accepted, received, eof, peerReset, peerClosed, reading>>
  PROVE  [BS!Next]_(BS!vars)
<1>1. CASE ~eof /\ ~peerReset /\ reading /\ state_ = "kConnected"
  <2>1. StreamStatus = "open" /\ StreamStatus' = "closing"
    BY <1>1, StatusIs, StatusNext
  <2>2. BS!Close
    BY <2>1 DEF BS!Close
  <2> QED BY <2>2 DEF BS!Next
<1>2. CASE ~(~eof /\ ~peerReset /\ reading /\ state_ = "kConnected")
  <2>1. StreamStatus' = StreamStatus
    BY <1>2, StatusIs, StatusNext, Typed
  <2> QED BY <2>1 DEF BS!vars
<1> QED BY <1>1, <1>2

(* handleClose gives up a connection only when the peer is gone. *)
LEMMA handleReadEofAborts ==
  ASSUME ConnIInv, handleReadEof
  PROVE  [BS!Next]_(BS!vars)
<1>1. (peerClosed \/ peerReset) /\ UNCHANGED <<accepted, received, eof, peerReset, peerClosed>>
  BY DEF handleReadEof, peer
<1>2. reading' = FALSE
  BY DEF handleReadEof, handleClose
<1>3. CASE ~eof /\ ~peerReset /\ reading
  <2>1. StreamStatus \in {"open", "closing"} /\ StreamStatus' = "aborted"
    BY <1>1, <1>2, <1>3, StatusIs, StatusNext
  <2>2. BS!Abort
    BY <1>1, <2>1 DEF BS!Abort
  <2> QED BY <2>2 DEF BS!Next
<1>4. CASE ~(~eof /\ ~peerReset /\ reading)
  <2>1. StreamStatus' = StreamStatus
    BY <1>1, <1>2, <1>4, StatusIs, StatusNext, Typed
  <2> QED BY <1>1, <2>1 DEF BS!vars
<1> QED BY <1>3, <1>4

LEMMA OwnerKeepsStream ==
  ASSUME ConnIInv, OwnerRound
  PROVE  [BS!Next]_(BS!vars)
<1>1. CASE poll \/ handleReadData \/ CallbackReturns
  BY <1>1, Stutters DEF poll, handleReadData, CallbackReturns, output, peer
<1>2. CASE handleReadFails \/ handleWriteFails \/ FunctorsDone
  BY <1>2, Stutters DEF handleReadFails, handleWriteFails, FunctorsDone, output, peer
<1>3. CASE handleWrite
  <2>1. UNCHANGED <<accepted, received, eof, peerReset, peerClosed, reading, state_>>
    BY <1>3 DEF handleWrite, peer
  <2> QED BY <2>1, Stutters
<1>4. CASE handleReadEof
  BY <1>4, handleReadEofAborts
<1>5. CASE RunFunctor
  <2>1. /\ batch > 0
        /\ UNCHANGED <<received, eof, peerReset, peerClosed, reading, state_>>
    BY <1>5 DEF RunFunctor, peer
  <2>2. CASE Head(queue).op = "sendInLoop" /\ sendInLoop(Head(queue).msg)
    <3>1. queue # << >>
      BY <2>1, Parts, EmptyLen
    <3>2. Head(queue) \in Functors
      BY <3>1, Parts, HeadTailProperties
    <3>3. Head(queue).msg \in Msgs
      BY <2>2, <3>2 DEF Functors
    <3> QED BY <2>1, <2>2, <3>3, SendAccepts
  <2>3. CASE UNCHANGED <<output, sndbuf, edge, sockErr>>
    BY <2>1, <2>3, Stutters DEF output
  <2> QED BY <1>5, <2>2, <2>3, Zenon DEF RunFunctor
<1> QED BY <1>1, <1>2, <1>3, <1>4, <1>5 DEF OwnerRound

LEMMA CallersKeepStream ==
  ASSUME ConnIInv, Callers
  PROVE  [BS!Next]_(BS!vars)
<1>1. ASSUME NEW m \in Msgs, sendOwner(m) PROVE [BS!Next]_(BS!vars)
  <2>1. sendInLoop(m) /\ UNCHANGED <<received, eof, peerReset, peerClosed, reading, state_>>
    BY <1>1 DEF sendOwner, peer
  <2> QED BY <2>1, SendAccepts
<1>2. ASSUME NEW m \in Msgs, sendForeign(m) PROVE [BS!Next]_(BS!vars)
  BY <1>2, Stutters DEF sendForeign, output, peer
<1>3. CASE shutdownOwner
  BY <1>3, ShutdownCloses DEF shutdownOwner, output, peer
<1>4. CASE shutdownTests
  BY <1>4, Stutters DEF shutdownTests, output, peer
<1>5. CASE shutdownForeign
  BY <1>5, ShutdownCloses DEF shutdownForeign, output, peer
<1> QED BY <1>1, <1>2, <1>3, <1>4, <1>5 DEF Callers

LEMMA PeerKeepsStream ==
  ASSUME ConnIInv, Peer
  PROVE  [BS!Next]_(BS!vars)
<1>1. CASE peerSends
  BY <1>1, Stutters DEF peerSends, output
<1> QED
  BY <1>1, peerReadsDelivers, peerReadsEofEnds, peerClosesGoes, peerResetsAborts DEF Peer

(* TcpConnection implements ByteStream's safety part: bytes arrive in order *)
(* and without gap, end-of-file only behind the last, and only the peer     *)
(* breaks the connection.                                                   *)
THEOREM ConnRefinesByteStream == SafeSpec => BS!SafeSpec
<1>1. Init => BS!Init
  BY DEF Init, BS!Init, StreamStatus
<1>2. ConnIInv /\ [Next]_vars => [BS!Next]_(BS!vars)
  <2> SUFFICES ASSUME ConnIInv, [Next]_vars PROVE [BS!Next]_(BS!vars)
    OBVIOUS
  <2>1. CASE UNCHANGED vars
    BY <2>1, Stutters DEF vars, output, peer
  <2> QED BY <2>1, OwnerKeepsStream, CallersKeepStream, PeerKeepsStream DEF Next
<1> QED BY <1>1, <1>2, ConnInductive, PTL DEF SafeSpec, BS!SafeSpec
=============================================================================
