---------------------------- MODULE FramingProofs ----------------------------
(***************************************************************************)
(* CutsDoNotMatter for every stream, every way to cut it and every size of *)
(* the buffers, from what each operation of a Buffer does to its Content.   *)
(***************************************************************************)
EXTENDS Framing, SequenceLemmas

-----------------------------------------------------------------------------
(* What each Buffer operation does to the indices and to the readable      *)
(* bytes, for every size of the three areas.                               *)

(* The library's theorems, for the sequences these proofs are about. *)
LEMMA Concat ==
  ASSUME NEW s \in Seq(Bytes), NEW t \in Seq(Bytes)
  PROVE  /\ s \o t \in Seq(Bytes)
         /\ Len(s \o t) = Len(s) + Len(t)
         /\ \A i \in 1..Len(s) + Len(t) : (s \o t)[i] = IF i <= Len(s) THEN s[i] ELSE t[i - Len(s)]
         /\ s \o << >> = s /\ << >> \o s = s
BY ConcatProperties, ConcatEmptySeq

LEMMA Associative ==
  ASSUME NEW s \in Seq(Bytes), NEW t \in Seq(Bytes), NEW u \in Seq(Bytes)
  PROVE  (s \o t) \o u = s \o (t \o u)
BY ConcatAssociative

(* A sequence is the part up to n and the part behind n. *)
LEMMA SplitAt ==
  ASSUME NEW s \in Seq(Bytes), NEW n \in 0..Len(s)
  PROVE  /\ SubSeq(s, 1, n) \in Seq(Bytes) /\ Len(SubSeq(s, 1, n)) = n
         /\ SubSeq(s, n + 1, Len(s)) \in Seq(Bytes)
         /\ SubSeq(s, 1, n) \o SubSeq(s, n + 1, Len(s)) = s
         /\ \A i \in 1..n : SubSeq(s, 1, n)[i] = s[i]
         /\ Len(SubSeq(s, n + 1, Len(s))) = Len(s) - n
         /\ \A i \in 1..Len(s) - n : SubSeq(s, n + 1, Len(s))[i] = s[n + i]
BY CutAt

(* The members of a Buffer: WellFormed says that it is such a record. *)
LEMMA Members ==
  ASSUME NEW b, WellFormed(b)
  PROVE  /\ b.readerIndex_ \in Nat /\ b.writerIndex_ \in Nat /\ b.size \in Nat
         /\ b.buf_ \in [0..b.size - 1 -> Bytes]
         /\ kPrepend \in Nat
         /\ kPrepend <= b.readerIndex_ /\ b.readerIndex_ <= b.writerIndex_
         /\ b.writerIndex_ <= b.size
BY SizeAssumption DEF WellFormed

(* The readable bytes form a sequence of readableBytes() bytes. *)
LEMMA ContentIsSeq ==
  ASSUME NEW b, WellFormed(b)
  PROVE  /\ readableBytes(b) \in Nat
         /\ Content(b) \in Seq(Bytes)
         /\ Len(Content(b)) = readableBytes(b)
         /\ \A i \in 1..readableBytes(b) : Content(b)[i] = b.buf_[b.readerIndex_ + i - 1]
<1>1. readableBytes(b) \in Nat
  BY Members DEF readableBytes
<1>2. \A i \in 1..readableBytes(b) : b.buf_[b.readerIndex_ + i - 1] \in Bytes
  BY Members DEF readableBytes
<1>3. Content(b) \in [1..readableBytes(b) -> Bytes]
  BY <1>2 DEF Content
<1> QED
  BY <1>1, <1>3, SeqDef DEF Content

(* A new Buffer is well-formed and has nothing to read. *)
LEMMA NewIsEmpty == WellFormed(NewBuffer) /\ Content(NewBuffer) = << >>
<1>1. WellFormed(NewBuffer)
  BY SizeAssumption, ByteAssumption DEF WellFormed, NewBuffer, Object
<1>2. readableBytes(NewBuffer) = 0
  BY SizeAssumption DEF NewBuffer, readableBytes, Object
<1> QED
  BY <1>1, <1>2, ContentIsSeq, EmptySeq

(* Two buffers with the same readable bytes, index by index, have the same  *)
(* Content.                                                                 *)
LEMMA SameContent ==
  ASSUME NEW b, WellFormed(b), NEW c, WellFormed(c),
         readableBytes(b) = readableBytes(c),
         \A i \in 0..readableBytes(b) - 1 :
           b.buf_[b.readerIndex_ + i] = c.buf_[c.readerIndex_ + i]
  PROVE  Content(b) = Content(c)
<1>1. \A i \in 1..readableBytes(b) : Content(b)[i] = Content(c)[i]
  <2>1. TAKE i \in 1..readableBytes(b)
  <2>2. i - 1 \in 0..readableBytes(b) - 1
    BY <2>1, ContentIsSeq
  <2>3. b.readerIndex_ + i - 1 = b.readerIndex_ + (i - 1) /\ c.readerIndex_ + i - 1 = c.readerIndex_ + (i - 1)
    BY <2>1, Members, ContentIsSeq
  <2> QED
    BY <2>1, <2>2, <2>3, ContentIsSeq
<1> QED
  BY <1>1, ContentIsSeq, SeqEqual

(* retrieveAll leaves an empty, well-formed Buffer. *)
LEMMA RetrieveAll ==
  ASSUME NEW b, WellFormed(b)
  PROVE  WellFormed(retrieveAll(b)) /\ Content(retrieveAll(b)) = << >>
<1>1. WellFormed(retrieveAll(b))
  BY SizeAssumption DEF WellFormed, retrieveAll, Object
<1>2. readableBytes(retrieveAll(b)) = 0
  BY SizeAssumption DEF readableBytes, retrieveAll, Object
<1> QED
  BY <1>1, <1>2, ContentIsSeq, EmptySeq

(* retrieve takes bytes off the front, and all of them if asked for more.   *)
LEMMA Retrieve ==
  ASSUME NEW b, WellFormed(b), NEW len \in Nat
  PROVE  /\ WellFormed(retrieve(b, len))
         /\ Content(retrieve(b, len)) = SubSeq(Content(b), len + 1, readableBytes(b))
<1>1. CASE len < readableBytes(b)
  <2> DEFINE c == Object(b.buf_, b.size, b.readerIndex_ + len, b.writerIndex_)
  <2>1. retrieve(b, len) = c
    BY <1>1 DEF retrieve
  <2>2. WellFormed(c)
    BY <1>1, SizeAssumption DEF WellFormed, readableBytes, Object
  <2>3. readableBytes(c) = readableBytes(b) - len /\ c.buf_ = b.buf_ /\ c.readerIndex_ = b.readerIndex_ + len
    BY <1>1, Members DEF readableBytes, Object
  <2>4. /\ SubSeq(Content(b), len + 1, readableBytes(b)) \in Seq(Bytes)
        /\ Len(SubSeq(Content(b), len + 1, readableBytes(b))) = readableBytes(b) - len
        /\ \A i \in 1..readableBytes(b) - len :
             SubSeq(Content(b), len + 1, readableBytes(b))[i] = Content(b)[len + i]
    <3>1. \A i \in len + 1 .. readableBytes(b) : Content(b)[i] \in Bytes
      BY ContentIsSeq, ElementOfSeq
    <3> QED
      BY <1>1, <3>1, ContentIsSeq, SubSeqProperties
  <2>5. \A i \in 1..readableBytes(b) - len : Content(c)[i] = Content(b)[len + i]
    <3>1. TAKE i \in 1..readableBytes(b) - len
    <3>2. len + i \in 1..readableBytes(b) /\ i \in 1..readableBytes(c)
      BY <3>1, <2>3, <1>1, ContentIsSeq
    <3>3. c.readerIndex_ + i - 1 = b.readerIndex_ + (len + i) - 1
      BY <2>3, <3>1, Members
    <3> QED
      BY <3>2, <3>3, <2>2, <2>3, ContentIsSeq
  <2>6. Content(c) = SubSeq(Content(b), len + 1, readableBytes(b))
    <3>1. Content(c) \in Seq(Bytes) /\ Len(Content(c)) = readableBytes(b) - len
      BY <2>2, <2>3, ContentIsSeq
    <3> HIDE DEF c
    <3> QED
      BY <3>1, <2>4, <2>5, SeqEqual
  <2> QED
    BY <2>1, <2>2, <2>6
<1>2. CASE ~(len < readableBytes(b))
  <2>1. retrieve(b, len) = retrieveAll(b)
    BY <1>2 DEF retrieve
  <2>2. SubSeq(Content(b), len + 1, readableBytes(b)) = << >>
    BY <1>2, ContentIsSeq, SubSeqEmpty
  <2> QED
    BY <2>1, <2>2, RetrieveAll
<1> QED
  BY <1>1, <1>2

(* Growing keeps the readable bytes and makes room for len more. *)
LEMMA Resize ==
  ASSUME NEW b, WellFormed(b), NEW len \in Nat, writableBytes(b) < len
  PROVE  /\ WellFormed(resize(b, b.writerIndex_ + len))
         /\ Content(resize(b, b.writerIndex_ + len)) = Content(b)
         /\ writableBytes(resize(b, b.writerIndex_ + len)) = len
<1> DEFINE c == resize(b, b.writerIndex_ + len)
<1>1. b.size < b.writerIndex_ + len
  BY Members DEF writableBytes
<1>2. /\ c.buf_ = grown(b, b.writerIndex_ + len) /\ c.size = b.writerIndex_ + len
      /\ c.readerIndex_ = b.readerIndex_ /\ c.writerIndex_ = b.writerIndex_
  BY DEF resize, Object
<1> HIDE DEF c
<1>3. c.buf_ \in [0..c.size - 1 -> Bytes]
  BY <1>1, <1>2, Members, ByteAssumption DEF grown
<1>4. WellFormed(c)
  BY <1>1, <1>2, <1>3, Members DEF WellFormed
<1>5. readableBytes(c) = readableBytes(b) /\ writableBytes(c) = len
  BY <1>2, Members DEF readableBytes, writableBytes
<1>6. grown(b, b.writerIndex_ + len) =
        [i \in 0..(b.writerIndex_ + len) - 1 |-> IF i < b.size THEN b.buf_[i] ELSE NUL]
  BY DEF grown
<1>7. \A k \in 0..b.size - 1 : c.buf_[k] = b.buf_[k]
  BY <1>1, <1>2, <1>6, Members
<1>8. ASSUME NEW i \in 0..readableBytes(b) - 1
      PROVE  c.buf_[c.readerIndex_ + i] = b.buf_[b.readerIndex_ + i]
  <2>1. b.readerIndex_ + i \in 0..b.size - 1
    BY <1>1, <1>8, Members DEF readableBytes
  <2> QED
    BY <1>2, <1>7, <2>1
<1> QED
  BY <1>4, <1>5, <1>8, SameContent DEF c

(* Moving to the front keeps the readable bytes and wins the space that was *)
(* in front of them.                                                        *)
LEMMA MoveForward ==
  ASSUME NEW b, WellFormed(b)
  PROVE  /\ WellFormed(moveForward(b))
         /\ Content(moveForward(b)) = Content(b)
         /\ writableBytes(moveForward(b)) = writableBytes(b) + prependableBytes(b) - kPrepend
<1> DEFINE c == moveForward(b)
           n == readableBytes(b)
<1>1. n \in Nat /\ n = b.writerIndex_ - b.readerIndex_
  BY Members DEF readableBytes
<1>2. /\ c.buf_ = moved(b) /\ c.size = b.size
      /\ c.readerIndex_ = kPrepend /\ c.writerIndex_ = kPrepend + n
  BY DEF moveForward, Object
<1>3. moved(b) = [i \in 0..b.size - 1 |-> IF kPrepend <= i /\ i < kPrepend + n
                                          THEN b.buf_[b.readerIndex_ + i - kPrepend] ELSE b.buf_[i]]
  BY DEF moved
<1> HIDE DEF c, n
<1>4. c.buf_ \in [0..c.size - 1 -> Bytes]
  <2>1. \A i \in 0..b.size - 1 : kPrepend <= i /\ i < kPrepend + n =>
                                   b.readerIndex_ + i - kPrepend \in 0..b.size - 1
    BY <1>1, Members
  <2> QED
    BY <1>2, <1>3, <2>1, Members
<1>5. WellFormed(c)
  BY <1>1, <1>2, <1>4, Members DEF WellFormed
<1>6. /\ readableBytes(c) = n
      /\ writableBytes(c) = writableBytes(b) + prependableBytes(b) - kPrepend
  BY <1>1, <1>2, Members DEF readableBytes, writableBytes, prependableBytes
<1>7. ASSUME NEW i \in 0..n - 1
      PROVE  c.buf_[c.readerIndex_ + i] = b.buf_[b.readerIndex_ + i]
  <2>0. /\ b.readerIndex_ \in Nat /\ b.writerIndex_ \in Nat /\ b.size \in Nat /\ kPrepend \in Nat
        /\ kPrepend <= b.readerIndex_ /\ b.writerIndex_ <= b.size
    BY Members
  <2>1. /\ i \in Int /\ kPrepend + i \in 0..b.size - 1
        /\ kPrepend <= kPrepend + i /\ kPrepend + i < kPrepend + n
    BY <1>1, <1>7, <2>0
  <2>2. b.readerIndex_ + (kPrepend + i) - kPrepend = b.readerIndex_ + i
    BY <2>0, <2>1
  <2> QED
    BY <1>2, <1>3, <2>1, <2>2
<1> QED
  BY <1>5, <1>6, <1>7, SameContent DEF c, n

(* ensureWritable makes room for len bytes and disturbs nothing. *)
LEMMA EnsureWritable ==
  ASSUME NEW b, WellFormed(b), NEW len \in Nat
  PROVE  /\ WellFormed(ensureWritable(b, len))
         /\ Content(ensureWritable(b, len)) = Content(b)
         /\ len <= writableBytes(ensureWritable(b, len))
<1>1. CASE ~(writableBytes(b) < len)
  BY <1>1, Members DEF ensureWritable, writableBytes
<1>2. CASE writableBytes(b) < len
  <2>1. CASE writableBytes(b) + prependableBytes(b) < len + kPrepend
    BY <1>2, <2>1, Resize DEF ensureWritable, makeSpace
  <2>2. CASE ~(writableBytes(b) + prependableBytes(b) < len + kPrepend)
    <3>1. len <= writableBytes(b) + prependableBytes(b) - kPrepend
      BY <2>2, Members DEF writableBytes, prependableBytes
    <3> QED
      BY <1>2, <2>2, <3>1, MoveForward DEF ensureWritable, makeSpace
  <2> QED
    BY <2>1, <2>2
<1> QED
  BY <1>1, <1>2

(* The i-th readable byte lies before w or behind it, where w is the old    *)
(* writer index and n bytes are written from there.                         *)
LEMMA IndexOf ==
  ASSUME NEW r \in Nat, NEW w \in Nat, NEW size \in Nat, NEW n \in Nat,
         r <= w, w + n <= size, NEW i \in 1..(w - r) + n
  PROVE  /\ r + i - 1 \in 0..size - 1 /\ r + i - 1 < w + n
         /\ i <= w - r <=> r + i - 1 < w
         /\ i <= w - r => i \in 1..w - r
         /\ (r + i - 1) - w + 1 = i - (w - r)
OBVIOUS

(* Bytes written where they fit come behind the readable ones. *)
LEMMA Write ==
  ASSUME NEW b, WellFormed(b), NEW data \in Seq(Bytes), Len(data) <= writableBytes(b)
  PROVE  WellFormed(write(b, data)) /\ Content(write(b, data)) = Content(b) \o data
<1> DEFINE c == write(b, data)
           n == Len(data)
<1>0. /\ b.readerIndex_ \in Nat /\ b.writerIndex_ \in Nat /\ b.size \in Nat /\ kPrepend \in Nat
      /\ b.buf_ \in [0..b.size - 1 -> Bytes] /\ kPrepend <= b.readerIndex_
      /\ b.readerIndex_ <= b.writerIndex_ /\ b.writerIndex_ <= b.size
      /\ readableBytes(b) = b.writerIndex_ - b.readerIndex_
  BY Members DEF readableBytes
<1>1. n \in Nat /\ b.writerIndex_ + n <= b.size
  BY <1>0, LenProperties DEF writableBytes
<1>2. /\ c.buf_ = written(b, data) /\ c.size = b.size
      /\ c.readerIndex_ = b.readerIndex_ /\ c.writerIndex_ = b.writerIndex_ + n
  BY DEF write, Object
<1> HIDE DEF c
<1>3. written(b, data) =
        [i \in 0..b.size - 1 |-> IF b.writerIndex_ <= i /\ i < b.writerIndex_ + n
                                 THEN data[i - b.writerIndex_ + 1] ELSE b.buf_[i]]
  <2>1. 0..b.size - 1 \cup b.writerIndex_ .. b.writerIndex_ + n - 1 = 0..b.size - 1
    BY <1>0, <1>1
  <2> QED
    BY <2>1 DEF written
<1>4. \A i \in 1..n : data[i] \in Bytes
  BY ElementOfSeq
<1> HIDE DEF n
<1>5. c.buf_ \in [0..c.size - 1 -> Bytes]
  <2>1. ASSUME NEW i \in 0..b.size - 1, b.writerIndex_ <= i, i < b.writerIndex_ + n
        PROVE  i - b.writerIndex_ + 1 \in 1..n
    <3>1. b.writerIndex_ \in Nat /\ i \in Int
      BY <1>0
    <3>2. n \in Nat
      BY <1>1
    <3> QED
      BY <2>1, <3>1, <3>2
  <2> QED
    BY <1>0, <1>2, <1>3, <1>4, <2>1
<1>6. WellFormed(c)
  BY <1>0, <1>1, <1>2, <1>5 DEF WellFormed
<1>7. readableBytes(c) = readableBytes(b) + n
  BY <1>0, <1>1, <1>2 DEF readableBytes
<1> DEFINE r == b.readerIndex_
           w == b.writerIndex_
<1>i. /\ r \in Nat /\ w \in Nat /\ b.size \in Nat /\ r <= w /\ w + n <= b.size
      /\ readableBytes(b) = w - r
  BY <1>0, <1>1
<1>c. /\ c.buf_ = [i \in 0..b.size - 1 |-> IF w <= i /\ i < w + n
                                            THEN data[i - w + 1] ELSE b.buf_[i]]
      /\ c.readerIndex_ = r
  BY <1>2, <1>3
<1>b. /\ \A i \in 1..readableBytes(b) : Content(b)[i] = b.buf_[r + i - 1]
      /\ \A i \in 1..readableBytes(c) : Content(c)[i] = c.buf_[c.readerIndex_ + i - 1]
  BY <1>6, ContentIsSeq
<1> HIDE DEF r, w
<1>8. ASSUME NEW i \in 1..readableBytes(b) + n
      PROVE  Content(c)[i] = IF i <= readableBytes(b) THEN Content(b)[i] ELSE data[i - readableBytes(b)]
  <2> DEFINE j == r + i - 1
  <2>0. i \in 1..(w - r) + n
    BY <1>i
  <2>1. Content(c)[i] = c.buf_[j]
    BY <1>7, <1>b, <1>c
  <2>2. /\ j \in 0..b.size - 1 /\ j < w + n
        /\ i <= w - r <=> j < w
        /\ i <= w - r => i \in 1..w - r
        /\ j - w + 1 = i - (w - r)
    BY <1>1, <1>i, <2>0, IndexOf
  <2>3. i <= w - r => Content(b)[i] = b.buf_[j]
    BY <1>b, <1>i, <2>2
  <2> HIDE DEF j
  <2>4. c.buf_[j] = IF w <= j /\ j < w + n THEN data[j - w + 1] ELSE b.buf_[j]
    BY <1>c, <2>2
  <2>5. CASE i <= w - r
    <3>1. ~(w <= j) BY <1>i, <2>2, <2>5
    <3> QED BY <1>i, <2>1, <2>3, <2>4, <2>5, <3>1
  <2>6. CASE ~(i <= w - r)
    <3>1. w <= j BY <1>i, <2>2, <2>6
    <3> QED BY <1>i, <2>1, <2>2, <2>4, <2>6, <3>1
  <2> QED
    BY <2>5, <2>6
<1>9. Content(c) = Content(b) \o data
  <2>0. Content(b) \in Seq(Bytes) /\ Len(Content(b)) = readableBytes(b)
    BY ContentIsSeq
  <2>1. /\ Content(b) \o data \in Seq(Bytes)
        /\ Len(Content(b) \o data) = readableBytes(b) + n
        /\ \A i \in 1..readableBytes(b) + n : (Content(b) \o data)[i] =
             IF i <= readableBytes(b) THEN Content(b)[i] ELSE data[i - readableBytes(b)]
    <3>1. /\ Content(b) \o data \in Seq(Bytes)
          /\ Len(Content(b) \o data) = Len(Content(b)) + Len(data)
          /\ \A i \in 1..Len(Content(b)) + Len(data) : (Content(b) \o data)[i] =
               IF i <= Len(Content(b)) THEN Content(b)[i] ELSE data[i - Len(Content(b))]
      BY <2>0, ConcatProperties, Zenon
    <3>2. Len(data) = n
      BY DEF n
    <3> QED
      BY <2>0, <3>1, <3>2
  <2>2. Content(c) \in Seq(Bytes) /\ Len(Content(c)) = readableBytes(b) + n
    BY <1>6, <1>7, ContentIsSeq
  <2> QED
    <3>1. \A i \in 1..readableBytes(b) + n : Content(c)[i] = (Content(b) \o data)[i]
      BY <1>8, <2>1
    <3> QED
      BY <2>1, <2>2, <3>1, SeqEqual
<1> QED
  BY <1>6, <1>9 DEF c

(* append adds its bytes behind the readable ones, whatever the space.      *)
THEOREM Appended ==
  ASSUME NEW b, WellFormed(b), NEW data \in Seq(Bytes)
  PROVE  WellFormed(append(b, data)) /\ Content(append(b, data)) = Content(b) \o data
<1>1. Len(data) \in Nat
  BY LenProperties
<1> QED
  BY <1>1, EnsureWritable, Write DEF append

(* readFd adds what readv delivered behind the readable bytes, the part     *)
(* that overflowed into extrabuf included.                                  *)
THEOREM ReadFd ==
  ASSUME NEW b, WellFormed(b), NEW data \in Seq(Bytes)
  PROVE  WellFormed(readFd(b, data)) /\ Content(readFd(b, data)) = Content(b) \o data
<1>1. CASE Len(data) <= writableBytes(b)
  BY <1>1, Write DEF readFd
<1>2. CASE ~(Len(data) <= writableBytes(b))
  <2> DEFINE w == writableBytes(b)
             front == SubSeq(data, 1, w)
             back == SubSeq(data, w + 1, Len(data))
  <2>1. w \in Nat /\ w < Len(data) /\ Len(data) \in Nat
    BY <1>2, Members, LenProperties DEF writableBytes
  <2>2. front \in Seq(Bytes) /\ Len(front) = w /\ back \in Seq(Bytes) /\ front \o back = data
    <3> HIDE DEF w
    <3>1. w \in 0..Len(data)
      BY <2>1
    <3> QED
      BY <3>1, SplitAt
  <2> HIDE DEF w, front, back
  <2>3. WellFormed(write(b, front)) /\ Content(write(b, front)) = Content(b) \o front
    BY <2>1, <2>2, Write DEF w
  <2>4. /\ WellFormed(append(write(b, front), back))
        /\ Content(append(write(b, front), back)) = (Content(b) \o front) \o back
    BY <2>2, <2>3, Appended
  <2>5. (Content(b) \o front) \o back = Content(b) \o (front \o back)
    <3>1. Content(b) \in Seq(Bytes)
      BY ContentIsSeq
    <3> QED
      BY <2>2, <3>1, Associative
  <2>6. readFd(b, data) = append(write(b, front), back)
    BY <1>2 DEF readFd, front, back, w
  <2> QED
    BY <2>2, <2>4, <2>5, <2>6
<1> QED
  BY <1>1, <1>2

-----------------------------------------------------------------------------
(* A step of the connection moves bytes between four places. *)

(* What is read from the fd is a sequence of bytes. *)
LEMMA PieceIsSeq ==
  ASSUME FramingTypeOK, NEW k \in 1..MaxBytes - Len(arrived), NEW eols \in SUBSET (1..k)
  PROVE  Piece(k, eols) \in Seq(Bytes) /\ arrived \o Piece(k, eols) \in Seq(Bytes)
<1>1. Len(arrived) \in Nat /\ arrived \in Seq(Bytes) /\ k \in Nat
  BY FramingAssumption, LenProperties DEF FramingTypeOK
<1>2. \A i \in 1..k : Len(arrived) + i \in Bytes /\ EOL \in Bytes
  BY <1>1, FramingAssumption, NumberAssumption, ByteAssumption
<1>3. Piece(k, eols) \in [1..k -> Bytes]
  BY <1>2 DEF Piece
<1>4. Piece(k, eols) \in Seq(Bytes)
  BY <1>1, <1>3, SeqDef
<1> QED
  BY <1>1, <1>4, Concat

(* What is put behind the bytes that wait is behind all that was accepted.  *)
LEMMA Behind ==
  ASSUME NEW s \in Seq(Bytes), NEW c \in Seq(Bytes), NEW m \in Seq(Bytes)
  PROVE  s \o (c \o m) = (s \o c) \o m
BY Associative

(* With nothing waiting, some of m is sent now and the rest waits. *)
LEMMA SentAtOnce ==
  ASSUME NEW s \in Seq(Bytes), NEW m \in Seq(Bytes), NEW n \in 0..Len(m)
  PROVE  /\ (s \o SubSeq(m, 1, n)) \o SubSeq(m, n + 1, Len(m)) = s \o m
         /\ s \o SubSeq(m, 1, n) \in Seq(Bytes)
<1> DEFINE now == SubSeq(m, 1, n)
           later == SubSeq(m, n + 1, Len(m))
<1>1. now \in Seq(Bytes) /\ later \in Seq(Bytes) /\ now \o later = m
  BY SplitAt
<1> HIDE DEF now, later
<1>2. (s \o now) \o later = s \o (now \o later)
  BY <1>1, Associative
<1>3. s \o now \in Seq(Bytes)
  BY <1>1, Concat
<1> QED
  BY <1>1, <1>2, <1>3 DEF now, later

(* sendInLoop keeps what was sent, and what waits, equal to what was        *)
(* accepted.                                                                *)
LEMMA SendKeeps ==
  ASSUME WellFormed(outputBuffer_), sent \in Seq(Bytes), accepted \in Seq(Bytes),
         sent \o Content(outputBuffer_) = accepted,
         NEW msg \in Seq(Bytes), NEW n \in Nat, sendInLoop(msg, n)
  PROVE  /\ WellFormed(outputBuffer_') /\ sent' \in Seq(Bytes) /\ accepted' \in Seq(Bytes)
         /\ sent' \o Content(outputBuffer_') = accepted'
         /\ accepted' = accepted \o msg
<1> DEFINE now == SubSeq(msg, 1, n)
           later == SubSeq(msg, n + 1, Len(msg))
           c == Content(outputBuffer_)
<1>1. n \in 0..Len(msg) /\ Len(msg) \in Nat
  BY LenProperties DEF sendInLoop
<1>2. now \in Seq(Bytes) /\ later \in Seq(Bytes) /\ sent \o now \in Seq(Bytes)
  BY <1>1, SplitAt, SentAtOnce
<1>3. c \in Seq(Bytes) /\ Len(c) = readableBytes(outputBuffer_)
  BY ContentIsSeq
<1>4. /\ accepted' = accepted \o msg /\ sent' = sent \o now
      /\ outputBuffer_' = IF n < Len(msg) THEN append(outputBuffer_, later) ELSE outputBuffer_
  BY DEF sendInLoop
<1>5. WellFormed(outputBuffer_') /\ Content(outputBuffer_') = c \o later
  <2>1. CASE n < Len(msg)
    BY <1>2, <1>4, <2>1, Appended
  <2>2. CASE ~(n < Len(msg))
    <3>1. later = << >>
      BY <1>1, <2>2, SubSeqEmpty
    <3> HIDE DEF c, later
    <3>2. c \o later = c
      BY <1>3, <3>1, Concat
    <3> QED
      BY <1>4, <2>2, <3>2 DEF c
  <2> QED
    BY <2>1, <2>2
<1>6. (sent \o now) \o (c \o later) = accepted \o msg
  <2>1. CASE n = 0
    <3>1. now = << >> /\ later = msg
      <4>1. SubSeq(msg, 1, 0) = << >> /\ SubSeq(msg, 1, Len(msg)) = msg
        BY <1>1, SubSeqEmpty, SubSeqFull
      <4> QED
        BY <2>1, <4>1
    <3> HIDE DEF now, later, c
    <3>2. sent \o now = sent
      BY <3>1, Concat
    <3>3. sent \o (c \o msg) = (sent \o c) \o msg
      BY <1>3, Behind
    <3> QED
      BY <3>1, <3>2, <3>3 DEF c
  <2>2. CASE n # 0
    <3>1. c = << >>
      BY <1>3, <2>2, EmptySeq DEF sendInLoop
    <3>2. (sent \o now) \o later = sent \o msg
      BY <1>1, SentAtOnce
    <3>3. sent \o << >> = sent
      BY Concat
    <3> HIDE DEF now, later, c
    <3>4. << >> \o later = later
      BY <1>2, Concat
    <3> QED
      BY <3>1, <3>2, <3>3, <3>4 DEF c
  <2> QED
    BY <2>1, <2>2
<1> HIDE DEF now, later, c
<1>7. accepted \o msg \in Seq(Bytes)
  BY Concat
<1> QED
  BY <1>2, <1>4, <1>5, <1>6, <1>7

(* The blank line stays where it is when more is put around it. *)
LEMMA BlankLineStays ==
  ASSUME NEW s \in Seq(Bytes), NEW t \in Seq(Bytes), HasBlankLine(s) \/ HasBlankLine(t)
  PROVE  HasBlankLine(s \o t)
<1>1. /\ Len(s) \in Nat /\ Len(t) \in Nat
      /\ Len(s \o t) = Len(s) + Len(t)
      /\ \A i \in 1..Len(s) + Len(t) : (s \o t)[i] = IF i <= Len(s) THEN s[i] ELSE t[i - Len(s)]
  BY Concat, LenProperties
<1>2. CASE HasBlankLine(s)
  <2>1. PICK i \in 1..Len(s) - 3 : \A j \in i..i + 3 : s[j] = EOL
    BY <1>2 DEF HasBlankLine
  <2>2. i \in 1..(Len(s) + Len(t)) - 3
    BY <1>1, <2>1
  <2>3. ASSUME NEW j \in i..i + 3 PROVE (s \o t)[j] = EOL
    <3>1. j \in 1..Len(s) + Len(t) /\ j <= Len(s)
      BY <1>1, <2>1, <2>3
    <3> QED
      BY <1>1, <2>1, <2>3, <3>1
  <2> QED
    BY <1>1, <2>2, <2>3 DEF HasBlankLine
<1>3. CASE HasBlankLine(t)
  <2>1. PICK i \in 1..Len(t) - 3 : \A j \in i..i + 3 : t[j] = EOL
    BY <1>3 DEF HasBlankLine
  <2>2. PICK m \in Int : m = Len(s) + i
    BY <1>1
  <2>3. m \in 1..(Len(s) + Len(t)) - 3
    BY <1>1, <2>1, <2>2
  <2>4. ASSUME NEW j \in m..m + 3 PROVE (s \o t)[j] = EOL
    <3>1. j \in 1..Len(s) + Len(t) /\ ~(j <= Len(s)) /\ j - Len(s) \in i..i + 3
      BY <1>1, <2>1, <2>2, <2>4
    <3> QED
      BY <1>1, <2>1, <3>1
  <2> QED
    BY <1>1, <2>3, <2>4 DEF HasBlankLine
<1> QED
  BY <1>2, <1>3

NoEOL(l) == \A j \in 1..Len(l) : l[j] # EOL

(* A whole line is added to the lines. *)
LEMMA LineAdded ==
  ASSUME NEW ls \in Seq(Seq(Bytes)), NEW l \in Seq(Bytes), NoEOL(l),
         \A i \in 1..Len(ls) : NoEOL(ls[i])
  PROVE  Append(ls, l) \in Seq(Seq(Bytes)) /\ \A i \in 1..Len(Append(ls, l)) : NoEOL(Append(ls, l)[i])
<1>1. /\ Append(ls, l) \in Seq(Seq(Bytes)) /\ Len(Append(ls, l)) = Len(ls) + 1
      /\ \A i \in 1..Len(ls) : Append(ls, l)[i] = ls[i]
      /\ Append(ls, l)[Len(ls) + 1] = l
  BY AppendProperties
<1>2. Len(ls) \in Nat
  BY LenProperties
<1>3. ASSUME NEW i \in 1..Len(ls) + 1 PROVE NoEOL(Append(ls, l)[i])
  <2>1. CASE i = Len(ls) + 1
    BY <1>1, <2>1
  <2>2. CASE i # Len(ls) + 1
    <3>1. i \in 1..Len(ls)
      BY <1>2, <2>2
    <3> QED
      BY <1>1, <3>1
  <2> QED
    BY <2>1, <2>2
<1> QED
  BY <1>1, <1>3

(* What is behind pos grows by what is put behind the string. *)
LEMMA RestGrows ==
  ASSUME NEW s \in Seq(Bytes), NEW t \in Seq(Bytes), NEW n \in 0..Len(s)
  PROVE  SubSeq(s \o t, n + 1, Len(s \o t)) = SubSeq(s, n + 1, Len(s)) \o t
<1> DEFINE f == SubSeq(s, n + 1, Len(s))
           g == SubSeq(s \o t, n + 1, Len(s \o t))
<1>1. /\ Len(s) \in Nat /\ Len(t) \in Nat /\ n \in Nat /\ n <= Len(s)
      /\ s \o t \in Seq(Bytes) /\ Len(s \o t) = Len(s) + Len(t)
      /\ \A i \in 1..Len(s) + Len(t) : (s \o t)[i] = IF i <= Len(s) THEN s[i] ELSE t[i - Len(s)]
  BY Concat, LenProperties
<1>2. /\ f \in Seq(Bytes) /\ Len(f) = Len(s) - n
      /\ \A i \in 1..Len(s) - n : f[i] = s[n + i]
  BY SplitAt
<1>3. /\ g \in Seq(Bytes) /\ Len(g) = Len(s \o t) - n
      /\ \A i \in 1..Len(s \o t) - n : g[i] = (s \o t)[n + i]
  <2>1. n \in 0..Len(s \o t)
    BY <1>1
  <2> QED
    BY <1>1, <2>1, SplitAt
<1> HIDE DEF f, g
<1>4. /\ f \o t \in Seq(Bytes) /\ Len(f \o t) = Len(f) + Len(t)
      /\ \A i \in 1..Len(f) + Len(t) : (f \o t)[i] = IF i <= Len(f) THEN f[i] ELSE t[i - Len(f)]
  BY <1>2, Concat
<1>5. Len(g) = Len(f \o t)
  BY <1>1, <1>2, <1>3, <1>4
<1>6. ASSUME NEW i \in 1..Len(g) PROVE g[i] = (f \o t)[i]
  <2>1. /\ i \in 1..Len(s \o t) - n /\ i \in 1..Len(f) + Len(t) /\ n + i \in 1..Len(s) + Len(t)
        /\ i - Len(f) = (n + i) - Len(s)
    BY <1>1, <1>2, <1>3, <1>6
  <2>2. g[i] = IF n + i <= Len(s) THEN s[n + i] ELSE t[(n + i) - Len(s)]
    BY <1>1, <1>3, <2>1
  <2>3. CASE i <= Len(f)
    <3>1. n + i <= Len(s) /\ i \in 1..Len(s) - n
      BY <1>1, <1>2, <2>1, <2>3
    <3> QED
      BY <1>2, <1>4, <2>1, <2>2, <2>3, <3>1
  <2>4. CASE ~(i <= Len(f))
    <3>1. ~(n + i <= Len(s))
      BY <1>1, <1>2, <2>1, <2>4
    <3> QED
      BY <1>4, <2>1, <2>2, <2>4, <3>1
  <2> QED
    BY <2>3, <2>4
<1>7. f \o t = g
  BY <1>3, <1>4, <1>5, <1>6, SeqEqual
<1> QED
  BY <1>7 DEF f, g

(* The invariant, in the parts the steps below cite. *)
LEMMA Parts ==
  ASSUME FramingIInv
  PROVE  /\ app \in {"chat", "http", "echo", "bench"} /\ calling \in BOOLEAN
         /\ state_ \in {"kConnected", "kDisconnecting"}
         /\ WellFormed(inputBuffer_) /\ WellFormed(outputBuffer_)
         /\ reader.buf \in Seq(Bytes) /\ reader.pos \in 0..Len(reader.buf)
         /\ arrived \in Seq(Bytes) /\ taken \in Seq(Bytes)
         /\ accepted \in Seq(Bytes) /\ sent \in Seq(Bytes)
         /\ lines \in Seq(Seq(Bytes))
         /\ Content(inputBuffer_) \in Seq(Bytes) /\ Content(outputBuffer_) \in Seq(Bytes)
         /\ app # "bench" => taken \o Content(inputBuffer_) = arrived
         /\ app = "bench" => taken \o Rest(reader) = arrived
         /\ sent \o Content(outputBuffer_) = accepted
         /\ \A i \in 1..Len(lines) : NoEOL(lines[i])
<1>1. FramingTypeOK /\ StreamKept /\ LinesWhole
  BY DEF FramingIInv, CutsDoNotMatter
<1>2. WellFormed(inputBuffer_) /\ WellFormed(outputBuffer_)
  BY <1>1 DEF FramingTypeOK
<1>3. Content(inputBuffer_) \in Seq(Bytes) /\ Content(outputBuffer_) \in Seq(Bytes)
  BY <1>2, ContentIsSeq
<1>4. \A i \in 1..Len(lines) : NoEOL(lines[i])
  BY <1>1 DEF LinesWhole, NoEOL
<1>5. /\ app # "bench" => taken \o Content(inputBuffer_) = arrived
      /\ app = "bench" => taken \o Rest(reader) = arrived
      /\ sent \o Content(outputBuffer_) = accepted
  BY <1>1 DEF StreamKept
<1> QED
  BY <1>1, <1>2, <1>3, <1>4, <1>5 DEF FramingTypeOK
(* handleRead *)
LEMMA ReadStep ==
  ASSUME FramingIInv, NEW k \in 1..MaxBytes - Len(arrived), NEW eols \in SUBSET (1..k),
         handleRead(k, eols)
  PROVE  FramingIInv'
<1> DEFINE piece == Piece(k, eols)
<1>1. piece \in Seq(Bytes) /\ arrived \o piece \in Seq(Bytes)
  BY PieceIsSeq DEF FramingIInv
<1>2. /\ app # "bench" /\ calling' = TRUE /\ arrived' = arrived \o piece
      /\ inputBuffer_' = readFd(inputBuffer_, piece)
      /\ UNCHANGED <<app, state_, outputBuffer_, accepted, sent, reader, taken, lines>>
  BY DEF handleRead, output
<1> HIDE DEF piece
<1>3. WellFormed(inputBuffer_') /\ Content(inputBuffer_') = Content(inputBuffer_) \o piece
  BY <1>1, <1>2, Parts, ReadFd
<1>4. FramingTypeOK'
  BY <1>1, <1>2, <1>3, Parts DEF FramingTypeOK
<1>5. taken \o (Content(inputBuffer_) \o piece) = (taken \o Content(inputBuffer_)) \o piece
  <2>1. taken \in Seq(Bytes) /\ Content(inputBuffer_) \in Seq(Bytes)
    BY Parts
  <2> QED
    BY <1>1, <2>1, Behind
<1>6. StreamKept'
  BY <1>2, <1>3, <1>5, Parts DEF StreamKept
<1>7. LinesWhole'
  BY <1>2, Parts DEF LinesWhole, NoEOL
<1>8. AnswersRight'
  BY <1>2 DEF FramingIInv, CutsDoNotMatter, AnswersRight
<1>9. HttpConsumes'
  <2>1. HasBlankLine(arrived) => HasBlankLine(arrived \o piece)
    BY <1>1, Parts, BlankLineStays
  <2> QED
    BY <1>2, <2>1 DEF FramingIInv, HttpConsumes
<1> QED
  BY <1>4, <1>6, <1>7, <1>8, <1>9 DEF FramingIInv, CutsDoNotMatter

(* recv: LineReader appends to its own string. *)
LEMMA RecvStep ==
  ASSUME FramingIInv, NEW k \in 1..MaxBytes - Len(arrived), NEW eols \in SUBSET (1..k),
         recv(k, eols)
  PROVE  FramingIInv'
<1> DEFINE piece == Piece(k, eols)
           buf == reader.buf
           pos == reader.pos
<1>1. piece \in Seq(Bytes) /\ arrived \o piece \in Seq(Bytes)
  BY PieceIsSeq DEF FramingIInv
<1>2. /\ app = "bench" /\ arrived' = arrived \o piece
      /\ reader' = LineReader(buf \o piece, pos)
      /\ UNCHANGED <<app, state_, calling, inputBuffer_, outputBuffer_, accepted, sent, taken, lines>>
  BY DEF recv, output
<1> HIDE DEF piece
<1>3. /\ buf \in Seq(Bytes) /\ pos \in 0..Len(buf) /\ Len(buf) \in Nat /\ Len(piece) \in Nat
      /\ buf \o piece \in Seq(Bytes) /\ Len(buf \o piece) = Len(buf) + Len(piece)
  BY <1>1, Parts, Concat, LenProperties
<1>4. reader'.buf = buf \o piece /\ reader'.pos = pos
  BY <1>2 DEF LineReader
<1>5. FramingTypeOK'
  BY <1>1, <1>2, <1>3, <1>4, Parts DEF FramingTypeOK
<1>6. Rest(reader') = Rest(reader) \o piece
  BY <1>1, <1>3, <1>4, RestGrows DEF Rest
<1>7. taken \o (Rest(reader) \o piece) = (taken \o Rest(reader)) \o piece
  <2>1. Rest(reader) \in Seq(Bytes) /\ taken \in Seq(Bytes)
    BY <1>3, Parts, SplitAt DEF Rest
  <2> QED
    BY <1>1, <2>1, Behind
<1>8. StreamKept'
  BY <1>2, <1>6, <1>7, Parts DEF StreamKept
<1>9. LinesWhole' /\ AnswersRight' /\ HttpConsumes'
  BY <1>2, Parts DEF FramingIInv, CutsDoNotMatter, LinesWhole, NoEOL, AnswersRight, HttpConsumes
<1> QED
  BY <1>5, <1>8, <1>9 DEF FramingIInv, CutsDoNotMatter
(* readLine, with and without the consumed front of buf erased. *)
LEMMA ReadLineStep ==
  ASSUME FramingIInv, NEW nl \in 1..Len(reader.buf), readLine(nl)
  PROVE  FramingIInv'
<1> DEFINE buf == reader.buf
           pos == reader.pos
           line == SubSeq(buf, pos + 1, nl - 1)
           both == SubSeq(buf, pos + 1, nl)
           rest == SubSeq(buf, nl + 1, Len(buf))
<1>1. /\ app = "bench" /\ nl \in pos + 1 .. Len(buf)
      /\ \A i \in pos + 1 .. nl - 1 : buf[i] # EOL
      /\ lines' = Append(lines, line) /\ taken' = taken \o both
      /\ reader' = reclaim(LineReader(buf, nl))
      /\ UNCHANGED <<app, state_, calling, inputBuffer_, arrived, outputBuffer_, accepted, sent>>
  BY DEF readLine, input, output
<1>2. buf \in Seq(Bytes) /\ pos \in 0..Len(buf) /\ Len(buf) \in Nat /\ \A i \in 1..Len(buf) : buf[i] \in Bytes
  BY Parts, LenProperties, ElementOfSeq
<1> HIDE DEF buf, pos
<1>3. line \in Seq(Bytes) /\ NoEOL(line)
  <2>1. \A i \in pos + 1 .. nl - 1 : buf[i] \in Bytes
    BY <1>1, <1>2
  <2>2. /\ line \in Seq(Bytes)
        /\ Len(line) = IF pos + 1 <= nl - 1 THEN (nl - 1) - (pos + 1) + 1 ELSE 0
        /\ \A i \in 1..(nl - 1) - (pos + 1) + 1 : line[i] = buf[(pos + 1) + i - 1]
    BY <1>1, <1>2, <2>1, SubSeqProperties
  <2> HIDE DEF line
  <2>3. ASSUME NEW i \in 1..Len(line) PROVE line[i] # EOL
    <3>1. i \in 1..(nl - 1) - (pos + 1) + 1 /\ (pos + 1) + i - 1 \in pos + 1 .. nl - 1
      BY <1>1, <1>2, <2>2, <2>3
    <3> QED
      BY <1>1, <2>2, <3>1
  <2> QED
    BY <2>2, <2>3 DEF NoEOL
<1>4. both \in Seq(Bytes)
  <2>1. \A i \in pos + 1 .. nl : buf[i] \in Bytes
    BY <1>1, <1>2
  <2> QED
    BY <1>1, <1>2, <2>1, SubSeqProperties
<1>5. rest \in Seq(Bytes) /\ SubSeq(rest, 1, Len(rest)) = rest
  BY <1>1, <1>2, SplitAt, SubSeqFull
<1>6. both \o rest = SubSeq(buf, pos + 1, Len(buf))
  <2>1. pos + 1 \in 1..Len(buf) + 1 /\ nl \in (pos + 1) - 1 .. Len(buf) /\ Len(buf) \in nl..Len(buf)
    BY <1>1, <1>2
  <2> QED
    BY <1>2, <2>1, ConcatAdjacentSubSeq
<1> HIDE DEF line, both
<1>7. /\ reader'.buf \in Seq(Bytes) /\ reader'.pos \in 0..Len(reader'.buf)
      /\ Rest(reader') = rest
  <2>1. CASE nl > ReclaimLimit
    <3>1. reader'.buf = rest /\ reader'.pos = 0
      BY <1>1, <2>1 DEF reclaim, LineReader, Rest
    <3> HIDE DEF rest
    <3>2. Len(rest) \in Nat
      BY <1>5, LenProperties
    <3> QED
      BY <1>5, <3>1, <3>2 DEF Rest
  <2>2. CASE ~(nl > ReclaimLimit)
    <3>1. reader'.buf = buf /\ reader'.pos = nl
      BY <1>1, <2>2 DEF reclaim, LineReader
    <3> QED
      BY <1>1, <1>2, <3>1 DEF Rest
  <2> QED
    BY <2>1, <2>2
<1> HIDE DEF rest
<1>8. taken \o both \in Seq(Bytes) /\ (taken \o both) \o rest = taken \o (both \o rest)
  <2>1. taken \in Seq(Bytes)
    BY Parts
  <2> QED
    BY <1>4, <1>5, <2>1, Concat, Associative
<1>9. lines' \in Seq(Seq(Bytes)) /\ \A i \in 1..Len(lines') : NoEOL(lines'[i])
  BY <1>1, <1>3, Parts, LineAdded
<1>10. FramingTypeOK'
  BY <1>1, <1>7, <1>8, <1>9, Parts DEF FramingTypeOK
<1>11. StreamKept'
  <2>1. taken \o (both \o rest) = arrived
    BY <1>1, <1>6, Parts DEF Rest, buf, pos
  <2> QED
    BY <1>1, <1>7, <1>8, <2>1, Parts DEF StreamKept
<1>12. LinesWhole'
  BY <1>1, <1>9 DEF LinesWhole, NoEOL
<1>13. AnswersRight' /\ HttpConsumes'
  BY <1>1 DEF FramingIInv, CutsDoNotMatter, AnswersRight, HttpConsumes
<1> QED
  BY <1>10, <1>11, <1>12, <1>13 DEF FramingIInv, CutsDoNotMatter

(* handleWrite: what was taken off the front of the output buffer is sent.  *)
LEMMA WriteStep ==
  ASSUME FramingIInv, NEW n \in 1..readableBytes(outputBuffer_), handleWrite(n)
  PROVE  FramingIInv'
<1> DEFINE c == Content(outputBuffer_)
           now == SubSeq(c, 1, n)
           later == SubSeq(c, n + 1, Len(c))
<1>1. /\ sent' = sent \o now /\ outputBuffer_' = retrieve(outputBuffer_, n)
      /\ UNCHANGED <<app, state_, calling, inputBuffer_, arrived, reader, taken, lines, accepted>>
  BY DEF handleWrite, input
<1>2. WellFormed(outputBuffer_) /\ sent \in Seq(Bytes)
  BY Parts
<1>3. c \in Seq(Bytes) /\ Len(c) = readableBytes(outputBuffer_) /\ n \in 0..Len(c) /\ n \in Nat
  BY <1>2, ContentIsSeq
<1>4. WellFormed(outputBuffer_') /\ Content(outputBuffer_') = later
  BY <1>1, <1>2, <1>3, Retrieve
<1> HIDE DEF c
<1>5. (sent \o now) \o later = sent \o c /\ sent \o now \in Seq(Bytes)
  BY <1>2, <1>3, SentAtOnce
<1> HIDE DEF now, later
<1>6. FramingTypeOK'
  BY <1>1, <1>4, <1>5, Parts DEF FramingTypeOK
<1>7. StreamKept'
  BY <1>1, <1>4, <1>5, Parts DEF StreamKept, c
<1>8. LinesWhole' /\ AnswersRight' /\ HttpConsumes'
  BY <1>1, Parts DEF FramingIInv, CutsDoNotMatter, LinesWhole, NoEOL, AnswersRight, HttpConsumes
<1> QED
  BY <1>6, <1>7, <1>8 DEF FramingIInv, CutsDoNotMatter
(* The line before the first EOL, the EOL, and what stays. *)
LEMMA CutAtEOL ==
  ASSUME NEW b, WellFormed(b), NEW eol, findEOL(b, eol)
  PROVE  LET line == SubSeq(Content(b), 1, eol - 1)
             c == retrieve(retrieve(b, eol - 1), 1)
         IN /\ line \in Seq(Bytes) /\ NoEOL(line)
            /\ WellFormed(c) /\ Content(c) \in Seq(Bytes)
            /\ line \o (<<EOL>> \o Content(c)) = Content(b)
<1> DEFINE s == Content(b)
           line == SubSeq(s, 1, eol - 1)
           d == retrieve(b, eol - 1)
           c == retrieve(d, 1)
<1>1. /\ s \in Seq(Bytes) /\ Len(s) = readableBytes(b) /\ Len(s) \in Nat
      /\ eol \in 1..Len(s) /\ s[eol] = EOL /\ \A j \in 1..eol - 1 : s[j] # EOL
      /\ eol \in 1..readableBytes(b)
  BY ContentIsSeq DEF findEOL
<1>2. eol - 1 \in 0..Len(s) /\ eol - 1 \in Nat /\ (eol - 1) + 1 = eol
  BY <1>1
<1>3. /\ WellFormed(d) /\ Content(d) = SubSeq(s, eol, Len(s))
  BY <1>1, <1>2, Retrieve
<1> HIDE DEF s
<1>4. /\ line \in Seq(Bytes) /\ Len(line) = eol - 1 /\ \A i \in 1..eol - 1 : line[i] = s[i]
      /\ line \o SubSeq(s, eol, Len(s)) = s
  <2> DEFINE n == eol - 1
  <2>1. n \in 0..Len(s) /\ n + 1 = eol
    BY <1>2
  <2> HIDE DEF n
  <2>2. /\ SubSeq(s, 1, n) \in Seq(Bytes) /\ Len(SubSeq(s, 1, n)) = n
        /\ \A i \in 1..n : SubSeq(s, 1, n)[i] = s[i]
        /\ SubSeq(s, 1, n) \o SubSeq(s, n + 1, Len(s)) = s
    BY <1>1, <2>1, SplitAt
  <2> QED
    BY <2>1, <2>2 DEF n
<1>5. SubSeq(s, eol, Len(s)) = <<EOL>> \o SubSeq(s, eol + 1, Len(s))
  <2>1. Len(s) \in eol..Len(s)
    BY <1>1
  <2> QED
    BY <1>1, <2>1, SubSeqRecursiveFirst
<1> HIDE DEF d, line
<1>6. WellFormed(c) /\ Content(c) \in Seq(Bytes) /\ Content(c) = SubSeq(Content(d), 2, readableBytes(d))
  <2>1. /\ WellFormed(retrieve(d, 1))
        /\ Content(retrieve(d, 1)) = SubSeq(Content(d), 1 + 1, readableBytes(d))
    BY <1>3, Retrieve
  <2> QED
    BY <2>1, ContentIsSeq
<1>7. Content(c) = SubSeq(s, eol + 1, Len(s))
  <2>1. Content(d) \in Seq(Bytes) /\ Len(Content(d)) = readableBytes(d)
    BY <1>3, ContentIsSeq
  <2>2. Content(d) # << >> /\ Content(d) = <<EOL>> \o SubSeq(s, eol + 1, Len(s))
    <3>1. SubSeq(s, eol + 1, Len(s)) \in Seq(Bytes) /\ <<EOL>> \in Seq(Bytes) /\ Len(<<EOL>>) = 1
      BY <1>1, SplitAt, ByteAssumption
    <3>2. Len(<<EOL>> \o SubSeq(s, eol + 1, Len(s))) = 1 + Len(SubSeq(s, eol + 1, Len(s)))
      BY <3>1, Concat
    <3> QED
      BY <1>3, <1>5, <3>1, <3>2, LenProperties, EmptySeq
  <2>3. Tail(Content(d)) = SubSeq(Content(d), 2, Len(Content(d)))
    BY <2>1, <2>2, TailIsSubSeq
  <2>4. Tail(SubSeq(s, eol, Len(s))) = SubSeq(s, eol + 1, Len(s))
    BY <1>1, HeadTailOfSubSeq
  <2> QED
    BY <1>3, <1>6, <2>1, <2>3, <2>4
<1>8. NoEOL(line)
  BY <1>1, <1>4 DEF NoEOL
<1> HIDE DEF c
<1> QED
  BY <1>4, <1>5, <1>6, <1>7, <1>8 DEF c, d, line, s

(* takeLine: what follows the line stays in the buffer. *)
LEMMA TakeLineStep ==
  ASSUME FramingIInv, NEW eol, takeLine(eol)
  PROVE  FramingIInv'
<1> DEFINE line == SubSeq(Content(inputBuffer_), 1, eol - 1)
           rest == Content(inputBuffer_')
<1>1. /\ app = "chat" /\ calling /\ findEOL(inputBuffer_, eol)
      /\ lines' = Append(lines, line) /\ taken' = (taken \o line) \o <<EOL>>
      /\ inputBuffer_' = retrieve(retrieve(inputBuffer_, eol - 1), 1)
      /\ UNCHANGED <<app, state_, calling, outputBuffer_, accepted, sent, reader, arrived>>
  BY DEF takeLine, output
<1>2. /\ line \in Seq(Bytes) /\ NoEOL(line)
      /\ WellFormed(inputBuffer_') /\ rest \in Seq(Bytes)
      /\ line \o (<<EOL>> \o rest) = Content(inputBuffer_)
  BY <1>1, Parts, CutAtEOL
<1> HIDE DEF line, rest
<1>3. /\ taken \o line \in Seq(Bytes)
      /\ (taken \o line) \o <<EOL>> \in Seq(Bytes)
      /\ ((taken \o line) \o <<EOL>>) \o rest = taken \o (line \o (<<EOL>> \o rest))
  <2>1. taken \in Seq(Bytes) /\ <<EOL>> \in Seq(Bytes)
    BY Parts, ByteAssumption
  <2>2. taken \o line \in Seq(Bytes) /\ <<EOL>> \o rest \in Seq(Bytes)
    BY <1>2, <2>1, Concat
  <2>3. ((taken \o line) \o <<EOL>>) \o rest = (taken \o line) \o (<<EOL>> \o rest)
    BY <1>2, <2>1, <2>2, Associative
  <2>4. (taken \o line) \o (<<EOL>> \o rest) = taken \o (line \o (<<EOL>> \o rest))
    BY <1>2, <2>1, <2>2, Associative
  <2>5. (taken \o line) \o <<EOL>> \in Seq(Bytes)
    BY <2>1, <2>2, Concat
  <2> QED
    BY <2>2, <2>3, <2>4, <2>5
<1>4. lines' \in Seq(Seq(Bytes)) /\ \A i \in 1..Len(lines') : NoEOL(lines'[i])
  BY <1>1, <1>2, Parts, LineAdded
<1>5. FramingTypeOK'
  BY <1>1, <1>2, <1>3, <1>4, Parts DEF FramingTypeOK
<1>6. StreamKept'
  BY <1>1, <1>2, <1>3, Parts DEF StreamKept, rest
<1>7. LinesWhole'
  BY <1>1, <1>4 DEF LinesWhole, NoEOL
<1>8. AnswersRight' /\ HttpConsumes'
  BY <1>1 DEF FramingIInv, CutsDoNotMatter, AnswersRight, HttpConsumes
<1> QED
  BY <1>5, <1>6, <1>7, <1>8 DEF FramingIInv, CutsDoNotMatter

(* takeLines returns only when no complete line is left. *)
LEMMA TakeLinesReturnsStep ==
  ASSUME FramingIInv, takeLinesReturns
  PROVE  FramingIInv'
<1>1. /\ app = "chat" /\ ~HasEOL(inputBuffer_) /\ calling' = FALSE
      /\ UNCHANGED <<app, state_, outputBuffer_, accepted, sent, reader, inputBuffer_, arrived, taken, lines>>
  BY DEF takeLinesReturns, CallbackReturns, output
<1>2. FramingTypeOK' /\ StreamKept'
  BY <1>1, Parts DEF FramingTypeOK, StreamKept
<1>3. LinesWhole'
  BY <1>1, Parts DEF LinesWhole, NoEOL, HasEOL
<1>4. AnswersRight' /\ HttpConsumes'
  BY <1>1 DEF FramingIInv, CutsDoNotMatter, AnswersRight, HttpConsumes
<1> QED
  BY <1>2, <1>3, <1>4 DEF FramingIInv, CutsDoNotMatter

(* http waits only when the blank line has not arrived. *)
LEMMA HttpWaitStep ==
  ASSUME FramingIInv, onHttpWait
  PROVE  FramingIInv'
<1>1. /\ app = "http" /\ ~HasBlankLine(Content(inputBuffer_)) /\ calling' = FALSE
      /\ UNCHANGED <<app, state_, outputBuffer_, accepted, sent, reader, inputBuffer_, arrived, taken, lines>>
  BY DEF onHttpWait, CallbackReturns, output
<1>2. FramingTypeOK' /\ StreamKept'
  BY <1>1, Parts DEF FramingTypeOK, StreamKept
<1>3. LinesWhole' /\ HttpConsumes'
  BY <1>1, Parts DEF FramingIInv, LinesWhole, NoEOL, HttpConsumes
<1>4. state_ = "kConnected" => ~HasBlankLine(arrived)
  <2>1. << >> \o Content(inputBuffer_) = Content(inputBuffer_)
    <3>1. Content(inputBuffer_) \in Seq(Bytes)
      BY Parts
    <3> QED
      BY <3>1, Concat
  <2> QED
    BY <1>1, <2>1, Parts DEF FramingIInv, HttpConsumes
<1>5. AnswersRight'
  BY <1>1, <1>4, Parts DEF FramingIInv, CutsDoNotMatter, AnswersRight, HttpConsumes
<1> QED
  BY <1>2, <1>3, <1>5 DEF FramingIInv, CutsDoNotMatter
(* Once everything is taken, taken is what arrived. *)
LEMMA AllTaken ==
  ASSUME FramingIInv, app # "bench"
  PROVE  /\ taken \o Content(inputBuffer_) = arrived
         /\ arrived \o << >> = arrived
<1>1. arrived \in Seq(Bytes)
  BY Parts
<1> QED
  BY <1>1, Parts, Concat

(* echo: all that waits is consumed and accepted. *)
LEMMA EchoStep ==
  ASSUME FramingIInv, NEW n \in 0..readableBytes(inputBuffer_), onEcho(n)
  PROVE  FramingIInv'
<1> DEFINE c == Content(inputBuffer_)
<1>1. /\ app = "echo" /\ sendInLoop(c, n) /\ taken' = taken \o c /\ calling' = FALSE
      /\ inputBuffer_' = retrieve(inputBuffer_, readableBytes(inputBuffer_))
      /\ UNCHANGED <<app, state_, reader, arrived, lines>>
  BY DEF onEcho, retrieveAllAsString, CallbackReturns
<1>2. WellFormed(inputBuffer_) /\ c \in Seq(Bytes) /\ n \in Nat /\ readableBytes(inputBuffer_) \in Nat
  BY Parts, ContentIsSeq
<1>3. WellFormed(inputBuffer_') /\ Content(inputBuffer_') = << >>
  <2>1. SubSeq(c, readableBytes(inputBuffer_) + 1, readableBytes(inputBuffer_)) = << >>
    BY <1>2, SubSeqEmpty
  <2> QED
    BY <1>1, <1>2, <2>1, Retrieve
<1> HIDE DEF c
<1>4. /\ WellFormed(outputBuffer_') /\ sent' \in Seq(Bytes) /\ accepted' \in Seq(Bytes)
      /\ sent' \o Content(outputBuffer_') = accepted' /\ accepted' = accepted \o c
  BY <1>1, <1>2, Parts, SendKeeps
<1>5. taken' = arrived /\ taken' \o << >> = arrived
  BY <1>1, AllTaken DEF c
<1>6. FramingTypeOK'
  BY <1>1, <1>3, <1>4, <1>5, Parts DEF FramingTypeOK
<1>7. StreamKept'
  BY <1>1, <1>3, <1>4, <1>5 DEF StreamKept
<1>8. LinesWhole' /\ HttpConsumes'
  BY <1>1, Parts DEF FramingIInv, LinesWhole, NoEOL, HttpConsumes
<1>9. accepted' = taken'
  BY <1>1, <1>4 DEF FramingIInv, CutsDoNotMatter, AnswersRight
<1>10. AnswersRight'
  BY <1>1, <1>9 DEF AnswersRight
<1> QED
  BY <1>6, <1>7, <1>8, <1>10 DEF FramingIInv, CutsDoNotMatter

(* http: the first time the blank line is there it is answered, and bytes   *)
(* that come after that get no answer.                                      *)
LEMMA HttpRequestStep ==
  ASSUME FramingIInv, NEW n \in 0..Len(Response), onHttpRequest(n)
  PROVE  FramingIInv'
<1> DEFINE c == Content(inputBuffer_)
<1>1. /\ app = "http" /\ HasBlankLine(c) /\ taken' = taken \o c /\ calling' = FALSE
      /\ inputBuffer_' = retrieveAll(inputBuffer_)
      /\ IF state_ = "kConnected" THEN sendInLoop(Response, n)
                                  ELSE UNCHANGED <<outputBuffer_, accepted, sent>>
      /\ state_' = "kDisconnecting"
      /\ UNCHANGED <<app, reader, arrived, lines>>
  BY DEF onHttpRequest, CallbackReturns, output
<1>2. WellFormed(inputBuffer_) /\ c \in Seq(Bytes) /\ taken \in Seq(Bytes) /\ accepted \in Seq(Bytes) /\ n \in Nat
  BY Parts, LenProperties, ResponseAssumption
<1>3. WellFormed(inputBuffer_') /\ Content(inputBuffer_') = << >>
  BY <1>1, <1>2, RetrieveAll
<1>4. taken' = arrived /\ taken' \o << >> = arrived
  BY <1>1, AllTaken
<1>5. HasBlankLine(arrived)
  <2>1. HasBlankLine(taken \o c)
    BY <1>1, <1>2, BlankLineStays
  <2> QED
    BY <1>1, <1>4, <2>1
<1>6. accepted = IF state_ = "kDisconnecting" THEN Response ELSE << >>
  BY <1>1 DEF FramingIInv, CutsDoNotMatter, AnswersRight
<1> HIDE DEF c
<1>7. /\ WellFormed(outputBuffer_') /\ sent' \in Seq(Bytes) /\ accepted' \in Seq(Bytes)
      /\ sent' \o Content(outputBuffer_') = accepted' /\ accepted' = Response
  <2>1. CASE state_ = "kConnected"
    <3>1. /\ WellFormed(outputBuffer_') /\ sent' \in Seq(Bytes) /\ accepted' \in Seq(Bytes)
          /\ sent' \o Content(outputBuffer_') = accepted' /\ accepted' = accepted \o Response
      BY <1>1, <1>2, <2>1, Parts, ResponseAssumption, SendKeeps
    <3>2. << >> \o Response = Response
      BY ResponseAssumption, Concat
    <3> QED
      BY <1>6, <2>1, <3>1, <3>2
  <2>2. CASE state_ # "kConnected"
    BY <1>1, <1>6, <2>2, Parts
  <2> QED
    BY <2>1, <2>2
<1>8. FramingTypeOK'
  BY <1>1, <1>3, <1>4, <1>7, Parts DEF FramingTypeOK
<1>9. StreamKept'
  BY <1>1, <1>3, <1>4, <1>7 DEF StreamKept
<1>10. LinesWhole' /\ HttpConsumes'
  BY <1>1, <1>5, Parts DEF FramingIInv, LinesWhole, NoEOL, HttpConsumes
<1>11. AnswersRight'
  BY <1>1, <1>5, <1>7 DEF AnswersRight
<1> QED
  BY <1>8, <1>9, <1>10, <1>11 DEF FramingIInv, CutsDoNotMatter

(* A new connection and a new LineReader. *)
LEMMA InitEstablishes == Init => FramingIInv
<1> SUFFICES ASSUME Init PROVE FramingIInv
  OBVIOUS
<1>1. /\ WellFormed(inputBuffer_) /\ Content(inputBuffer_) = << >>
      /\ WellFormed(outputBuffer_) /\ Content(outputBuffer_) = << >>
  BY NewIsEmpty DEF Init
<1>2. /\ << >> \in Seq(Bytes) /\ Len(<< >>) = 0 /\ << >> \o << >> = << >>
      /\ << >> \in Seq(Seq(Bytes))
  BY EmptySeq, Concat
<1>3. reader.buf = << >> /\ reader.pos = 0
  BY DEF Init, LineReader
<1>4. Rest(reader) = << >>
  BY <1>2, <1>3, SubSeqEmpty DEF Rest
<1>5. FramingTypeOK
  <2>1. reader.buf \in Seq(Bytes) /\ reader.pos \in 0..Len(reader.buf)
    BY <1>2, <1>3
  <2>2. arrived \in Seq(Bytes) /\ taken \in Seq(Bytes) /\ accepted \in Seq(Bytes) /\ sent \in Seq(Bytes)
    BY <1>2 DEF Init
  <2>3. lines \in Seq(Seq(Bytes))
    BY <1>2 DEF Init
  <2> QED
    BY <1>1, <2>1, <2>2, <2>3 DEF Init, FramingTypeOK
<1>6. StreamKept
  BY <1>1, <1>2, <1>4 DEF Init, StreamKept
<1>7. readableBytes(inputBuffer_) = 0
  BY SizeAssumption DEF Init, NewBuffer, readableBytes, Object
<1>8. LinesWhole
  BY <1>2, <1>7 DEF Init, LinesWhole, HasEOL
<1>9. AnswersRight /\ HttpConsumes
  BY <1>2 DEF Init, AnswersRight, HttpConsumes, HasBlankLine
<1> QED
  BY <1>5, <1>6, <1>8, <1>9 DEF FramingIInv, CutsDoNotMatter

(* Every step of the connection and its application keeps the invariant. *)
LEMMA NextPreserves == FramingIInv /\ [Next]_vars => FramingIInv'
<1> SUFFICES ASSUME FramingIInv, [Next]_vars PROVE FramingIInv'
  OBVIOUS
<1>1. ASSUME NEW k \in 1..MaxBytes - Len(arrived), NEW eols \in SUBSET (1..k),
             handleRead(k, eols) \/ recv(k, eols)
      PROVE  FramingIInv'
  BY <1>1, ReadStep, RecvStep
<1>2. CASE takeLinesReturns \/ onHttpWait
  BY <1>2, TakeLinesReturnsStep, HttpWaitStep
<1>3. ASSUME NEW eol \in 1..readableBytes(inputBuffer_), takeLine(eol) PROVE FramingIInv'
  BY <1>3, TakeLineStep
<1>4. ASSUME NEW n \in 0..readableBytes(inputBuffer_), onEcho(n) PROVE FramingIInv'
  BY <1>4, EchoStep
<1>5. ASSUME NEW n \in 0..Len(Response), onHttpRequest(n) PROVE FramingIInv'
  BY <1>5, HttpRequestStep
<1>6. ASSUME NEW n \in 1..readableBytes(outputBuffer_), handleWrite(n) PROVE FramingIInv'
  BY <1>6, WriteStep
<1>7. ASSUME NEW nl \in 1..Len(reader.buf), readLine(nl) PROVE FramingIInv'
  BY <1>7, ReadLineStep
<1>8. CASE UNCHANGED vars
  BY <1>8 DEF vars, input, output, FramingIInv, FramingTypeOK, CutsDoNotMatter, StreamKept,
              LinesWhole, AnswersRight, HttpConsumes
<1> QED
  BY <1>1, <1>2, <1>3, <1>4, <1>5, <1>6, <1>7, <1>8 DEF Next

(* The inductive invariant holds of every connection. *)
THEOREM FramingInvariant == Spec => []FramingIInv
<1>1. Init => FramingIInv
  BY InitEstablishes
<1>2. FramingIInv /\ [Next]_vars => FramingIInv'
  BY NextPreserves
<1> QED
  BY <1>1, <1>2, PTL DEF Spec

(* Both buffers keep their indices in order and write inside buf_ only,     *)
(* whatever the sizes of their three areas.                                 *)
THEOREM BuffersWellFormed == Spec => []FramingTypeOK
<1>1. FramingIInv => FramingTypeOK
  BY DEF FramingIInv
<1> QED
  BY <1>1, FramingInvariant, PTL

(* Every application makes the same of the same bytes, whatever the pieces  *)
(* in which they arrive and leave.                                          *)
THEOREM FramingCorrect == Spec => []CutsDoNotMatter
<1>1. FramingIInv => CutsDoNotMatter
  BY DEF FramingIInv
<1> QED
  BY <1>1, FramingInvariant, PTL
=============================================================================
