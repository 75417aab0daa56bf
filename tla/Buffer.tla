------------------------------- MODULE Buffer -------------------------------
(***************************************************************************)
(* src/base/Buffer: the byte buffer in front of and behind a connection.   *)
(* The object is a record of its three members, buf_ with indices from 0   *)
(* as in the code; the bytes of buf_ outside of what is readable are left  *)
(* over from earlier use and stay in the model.                            *)
(***************************************************************************)
EXTENDS Integers, Sequences

CONSTANTS kPrepend, kInitial,
          ExtraSize,   \* sizeof(extrabuf) in readFd
          NUL,         \* what std::vector fills new bytes with
          EOL,         \* '\n'
          Bytes        \* every byte, these two among them

ASSUME SizeAssumption == kPrepend \in Nat /\ kInitial \in Nat /\ ExtraSize \in Nat \ {0}
ASSUME ByteAssumption == {NUL, EOL} \subseteq Bytes

Object(buf, size, reader, writer) ==
  [buf_ |-> buf, size |-> size, readerIndex_ |-> reader, writerIndex_ |-> writer]

NewBuffer == Object([i \in 0..kPrepend + kInitial - 1 |-> NUL], kPrepend + kInitial,
                    kPrepend, kPrepend)

(* The order the indices of a Buffer must keep. *)
WellFormed(b) ==
  /\ b.readerIndex_ \in Nat /\ b.writerIndex_ \in Nat /\ b.size \in Nat
  /\ b.buf_ \in [0..b.size - 1 -> Bytes]
  /\ kPrepend <= b.readerIndex_
  /\ b.readerIndex_ <= b.writerIndex_
  /\ b.writerIndex_ <= b.size

readableBytes(b) == b.writerIndex_ - b.readerIndex_
writableBytes(b) == b.size - b.writerIndex_
prependableBytes(b) == b.readerIndex_

(* The readable bytes, from peek() on. *)
Content(b) == [i \in 1..readableBytes(b) |-> b.buf_[b.readerIndex_ + i - 1]]

retrieveAll(b) == Object(b.buf_, b.size, kPrepend, kPrepend)

retrieve(b, len) ==
  IF len < readableBytes(b)
  THEN Object(b.buf_, b.size, b.readerIndex_ + len, b.writerIndex_)
  ELSE retrieveAll(b)

(* buf_.resize(n), n no less than the size *)
grown(b, n) == [i \in 0..n - 1 |-> IF i < b.size THEN b.buf_[i] ELSE NUL]
resize(b, n) == Object(grown(b, n), n, b.readerIndex_, b.writerIndex_)

(* The readable bytes are moved to the front. *)
moved(b) ==
  [i \in 0..b.size - 1 |-> IF kPrepend <= i /\ i < kPrepend + readableBytes(b)
                           THEN b.buf_[b.readerIndex_ + i - kPrepend] ELSE b.buf_[i]]
moveForward(b) == Object(moved(b), b.size, kPrepend, kPrepend + readableBytes(b))

makeSpaceNoPrepend(b, len) ==
  IF writableBytes(b) + prependableBytes(b) < len
  THEN resize(b, b.writerIndex_ + len)
  ELSE moveForward(b)

makeSpace(b, len) ==
  IF writableBytes(b) + prependableBytes(b) < len + kPrepend
  THEN resize(b, b.writerIndex_ + len)
  ELSE moveForward(b)

ensureWritable(b, len) == IF writableBytes(b) < len THEN makeSpace(b, len) ELSE b

(* std::copy to beginWrite(), and the index moved behind it.  A byte copied *)
(* past the end of buf_ makes a function that no longer fits WellFormed.    *)
written(b, data) ==
  [i \in 0..b.size - 1 \cup b.writerIndex_ .. b.writerIndex_ + Len(data) - 1 |->
     IF b.writerIndex_ <= i /\ i < b.writerIndex_ + Len(data)
     THEN data[i - b.writerIndex_ + 1] ELSE b.buf_[i]]
write(b, data) ==
  Object(written(b, data), b.size, b.readerIndex_, b.writerIndex_ + Len(data))

append(b, data) == write(ensureWritable(b, Len(data)), data)

(* How much one readv may return: a second area, extrabuf, is offered only  *)
(* when the writable bytes are fewer than it holds.                         *)
readvSize(b) == writableBytes(b) + (IF writableBytes(b) < ExtraSize THEN ExtraSize ELSE 0)

readFdNoExtra(b, data) ==
  write(b, SubSeq(data, 1, IF Len(data) <= writableBytes(b) THEN Len(data)
                                                            ELSE writableBytes(b)))

(* readFd when readv has delivered data: what fits goes behind the readable *)
(* bytes, the rest by way of extrabuf and append.                           *)
readFd(b, data) ==
  IF Len(data) <= writableBytes(b) THEN write(b, data)
  ELSE append(write(b, SubSeq(data, 1, writableBytes(b))),
              SubSeq(data, writableBytes(b) + 1, Len(data)))

(* The first EOL of the readable bytes is the i-th from peek() on, if there *)
(* is one.                                                                 *)
HasEOL(b) == \E i \in 1..readableBytes(b) : Content(b)[i] = EOL

findEOL(b, i) ==
  /\ i \in 1..readableBytes(b) /\ Content(b)[i] = EOL
  /\ \A j \in 1..i - 1 : Content(b)[j] # EOL
=============================================================================
