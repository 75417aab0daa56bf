--------------------------- MODULE AsyncLoggerProofs ---------------------------
(***************************************************************************)
(* Machine-checked proofs about AsyncLogger, for buffers of any size, any  *)
(* number of lines and restarts: no buffer overflows, no line is lost,     *)
(* doubled or overtaken, the last round leaves nothing behind, and the     *)
(* logger implements the safety half of LogFile.                           *)
(***************************************************************************)
EXTENDS AsyncLogger, SequenceLemmas

-----------------------------------------------------------------------------
(* What keeps file, buffers and log together *)

(* A line goes to the end of the last buffer.  *)
LEMMA IntactGrows ==
  ASSUME NEW f \in Seq(Lines), NEW b \in Seq(Buffers), NEW log \in Seq(Lines), NEW line \in Lines,
         NEW c \in Seq(Buffers), Len(b) # 0, Len(c) = Len(b), Intact(f, b, log),
         \A i \in 1..Len(b) - 1 : c[i].lines = b[i].lines,
         c[Len(b)].lines = Append(b[Len(b)].lines, line)
  PROVE  Intact(f, c, Append(log, line))
<1> DEFINE n == Len(b)
           longer == Append(log, line)
<1>1. n \in Nat \ {0} /\ Len(log) \in Nat /\ Len(f) \in Nat /\ Len(longer) = Len(log) + 1
  BY LenProperties, AppendProperties
<1>2. PICK cut \in [0..n -> Len(f)..Len(log)] :
        /\ cut[0] = Len(f) /\ cut[n] = Len(log)
        /\ \A i, j \in 0..n : i <= j => cut[i] <= cut[j]
        /\ \A i \in 1..n : b[i].lines = SubSeq(log, cut[i - 1] + 1, cut[i])
  BY DEF Intact
<1> DEFINE new == [cut EXCEPT ![n] = Len(longer)]
<1> HIDE DEF n, longer
<1>3. \A i \in 0..n : cut[i] \in Len(f)..Len(log)
  BY <1>2
<1>4. \A i \in 0..n : cut[i] \in Nat /\ Len(f) <= cut[i] /\ cut[i] <= Len(log)
  BY <1>1, <1>3
<1>5. /\ new \in [0..n -> Len(f)..Len(longer)]
      /\ new[0] = Len(f) /\ new[n] = Len(longer)
      /\ \A i \in 0..n - 1 : /\ new[i] = cut[i] /\ i \in 0..n
                              /\ cut[i] \in Nat /\ Len(f) <= cut[i] /\ cut[i] <= Len(log)
      /\ \A i, j \in 0..n : i <= j => new[i] <= new[j]
  <2>1. \A i \in 0..n : cut[i] \in Nat /\ Len(f) <= cut[i] /\ cut[i] <= Len(log)
    BY <1>4
  <2>2. 0 \in 0..n /\ n \in 0..n /\ 0 # n /\ \A i \in 0..n - 1 : i \in 0..n /\ i # n
    BY <1>1
  <2>3. \A i \in 0..n : new[i] = IF i = n THEN Len(longer) ELSE cut[i]
    BY <1>2
  <2>4. \A i \in 0..n : new[i] \in Len(f)..Len(longer)
    BY <1>1, <2>1, <2>2, <2>3
  <2>5. ASSUME NEW i \in 0..n, NEW j \in 0..n, i <= j
        PROVE  new[i] <= new[j]
    <3>1. CASE j = n
      BY <1>1, <2>1, <2>3, <3>1
    <3>2. CASE j # n
      <4>1. i # n
        BY <1>1, <2>5, <3>2
      <4> QED BY <1>2, <2>3, <2>5, <3>2, <4>1
    <3> QED BY <3>1, <3>2
  <2>6. new \in [0..n -> Len(f)..Len(longer)]
    BY <1>2, <2>4
  <2> HIDE DEF new
  <2> QED BY <1>1, <1>2, <2>1, <2>2, <2>3, <2>5, <2>6
<1> HIDE DEF new
<1>6. f = SubSeq(longer, 1, Len(f))
  <2>1. 0 \in 0..Len(log) /\ Len(f) \in 0..Len(log) /\ 0 + 1 = 1
    BY <1>1, <1>2
  <2>2. SubSeq(longer, 0 + 1, Len(f)) = SubSeq(log, 0 + 1, Len(f))
    BY <2>1, StretchBefore DEF longer
  <2> QED BY <2>1, <2>2 DEF Intact
<1>7. ASSUME NEW i \in 1..n
      PROVE  c[i].lines = SubSeq(longer, new[i - 1] + 1, new[i])
  <2>1. /\ i - 1 \in 0..n - 1 /\ i \in 0..n /\ new[i - 1] = cut[i - 1]
        /\ cut[i - 1] \in 0..Len(log) /\ cut[i] \in cut[i - 1]..Len(log)
    <3>1. i - 1 \in 0..n - 1 /\ i \in 0..n /\ i - 1 \in 0..n /\ i - 1 <= i
      BY <1>1
    <3>2. cut[i - 1] \in Nat /\ cut[i] \in Nat /\ cut[i] <= Len(log) /\ cut[i - 1] <= Len(log)
      BY <1>4, <3>1
    <3>3. cut[i - 1] <= cut[i]
      BY <1>2, <3>1
    <3> QED BY <1>1, <1>5, <3>1, <3>2, <3>3
  <2>2. CASE i = n
    <3>1. c[i].lines = Append(SubSeq(log, cut[i - 1] + 1, Len(log)), line)
      BY <1>2, <2>2 DEF n
    <3>2. SubSeq(longer, cut[i - 1] + 1, Len(log) + 1) = Append(SubSeq(log, cut[i - 1] + 1, Len(log)), line)
      BY <2>1, StretchGrows DEF longer
    <3> QED BY <1>1, <1>2, <1>5, <2>1, <2>2, <3>1, <3>2
  <2>3. CASE i # n
    <3>1. i \in 1..n - 1 /\ new[i] = cut[i]
      BY <1>1, <1>5, <2>3
    <3>2. c[i].lines = SubSeq(log, cut[i - 1] + 1, cut[i])
      BY <1>2, <3>1 DEF n
    <3>3. SubSeq(longer, cut[i - 1] + 1, cut[i]) = SubSeq(log, cut[i - 1] + 1, cut[i])
      <4>1. PICK p \in 0..Len(log) : p = cut[i - 1]
        BY <2>1
      <4>2. PICK q \in p..Len(log) : q = cut[i]
        BY <2>1, <4>1
      <4>3. SubSeq(longer, p + 1, q) = SubSeq(log, p + 1, q)
        BY StretchBefore DEF longer
      <4> QED BY <4>1, <4>2, <4>3
    <3> QED BY <2>1, <3>1, <3>2, <3>3
  <2> QED BY <2>2, <2>3
<1>8. Len(c) = n
  BY DEF n
<1> QED BY <1>5, <1>6, <1>7, <1>8 DEF Intact, longer

(* An empty buffer behind the others holds nothing. *)
LEMMA IntactLonger ==
  ASSUME NEW f \in Seq(Lines), NEW b \in Seq(Buffers), NEW log \in Seq(Lines), Intact(f, b, log)
  PROVE  Intact(f, Append(b, Empty), log)
<1> DEFINE n == Len(b)
           c == Append(b, Empty)
<1>1. Empty \in Buffers
  <2>1. << >> \in Seq(Lines) /\ 0 \in 0..kSize
    BY EmptySeq, SizeAssumption
  <2> QED BY <2>1 DEF Empty, Buffers
<1>2. n \in Nat /\ Len(log) \in Nat /\ Len(f) \in Nat
  BY LenProperties
<1>3. Len(c) = n + 1 /\ c[n + 1] = Empty /\ \A i \in 1..n : c[i] = b[i]
  BY <1>1, AppendProperties
<1>4. PICK cut \in [0..n -> Len(f)..Len(log)] :
        /\ cut[0] = Len(f) /\ cut[n] = Len(log)
        /\ \A i, j \in 0..n : i <= j => cut[i] <= cut[j]
        /\ \A i \in 1..n : b[i].lines = SubSeq(log, cut[i - 1] + 1, cut[i])
  BY DEF Intact
<1> DEFINE new == [i \in 0..n + 1 |-> IF i = n + 1 THEN Len(log) ELSE cut[i]]
<1> HIDE DEF n, c
<1>5. /\ new \in [0..n + 1 -> Len(f)..Len(log)]
      /\ new[0] = Len(f) /\ new[n + 1] = Len(log)
      /\ \A i \in 0..n : new[i] = cut[i]
      /\ \A i, j \in 0..n + 1 : i <= j => new[i] <= new[j]
  <2>1. \A i \in 0..n : cut[i] \in Nat /\ Len(f) <= cut[i] /\ cut[i] <= Len(log)
    BY <1>2, <1>4
  <2>2. /\ 0 \in 0..n /\ n + 1 \in 0..n + 1 /\ n \in 0..n
        /\ \A i \in 0..n + 1 : i = n + 1 \/ (i \in 0..n /\ i # n + 1)
        /\ \A i \in 0..n : i \in 0..n + 1 /\ i # n + 1
    BY <1>2
  <2>3. \A i \in 0..n + 1 : new[i] = IF i = n + 1 THEN Len(log) ELSE cut[i]
    OBVIOUS
  <2>4. \A i \in 0..n + 1 : new[i] \in Len(f)..Len(log)
    BY <1>2, <2>1, <2>2, <2>3
  <2>5. ASSUME NEW i \in 0..n + 1, NEW j \in 0..n + 1, i <= j
        PROVE  new[i] <= new[j]
    <3>1. CASE j = n + 1
      BY <1>2, <2>1, <2>2, <2>3, <3>1
    <3>2. CASE j # n + 1
      <4>1. i # n + 1
        BY <1>2, <2>5, <3>2
      <4> QED BY <1>4, <2>2, <2>3, <2>5, <3>2, <4>1
    <3> QED BY <3>1, <3>2
  <2>6. new \in [0..n + 1 -> Len(f)..Len(log)]
    BY <2>4
  <2> HIDE DEF new
  <2> QED BY <1>4, <2>2, <2>3, <2>5, <2>6
<1> HIDE DEF new
<1>6. ASSUME NEW i \in 1..n + 1
      PROVE  c[i].lines = SubSeq(log, new[i - 1] + 1, new[i])
  <2>1. CASE i = n + 1
    <3>1. new[i - 1] = Len(log) /\ new[i] = Len(log)
      <4>1. i - 1 = n /\ n \in 0..n
        BY <1>2, <2>1
      <4> QED BY <1>4, <1>5, <2>1, <4>1
    <3>2. SubSeq(log, Len(log) + 1, Len(log)) = << >>
      BY <1>2, SubSeqEmpty
    <3>3. c[i].lines = << >>
      BY <1>3, <2>1 DEF Empty
    <3> QED BY <3>1, <3>2, <3>3
  <2>2. CASE i # n + 1
    <3>1. i \in 1..n /\ new[i] = cut[i] /\ new[i - 1] = cut[i - 1]
      BY <1>2, <1>5, <2>2
    <3> QED BY <1>3, <1>4, <3>1
  <2> QED BY <2>1, <2>2
<1>7. Intact(f, c, log)
  BY <1>3, <1>5, <1>6 DEF Intact
<1> QED BY <1>7 DEF c

(* The first buffer is written behind what is in the file. *)
LEMMA IntactWritten ==
  ASSUME NEW f \in Seq(Lines), NEW b \in Seq(Buffers), NEW log \in Seq(Lines), Intact(f, b, log),
         b # << >>
  PROVE  /\ f \o b[1].lines \in Seq(Lines) /\ Intact(f \o b[1].lines, Tail(b), log)
         /\ \E m \in Len(f)..Len(log) :
              Len(f \o b[1].lines) = m /\ f \o b[1].lines = SubSeq(log, 1, m)
         /\ Len(f \o b[1].lines) = Len(f) => f \o b[1].lines = f
<1> DEFINE n == Len(b)
           g == f \o b[1].lines
           rest == Tail(b)
<1>1. n \in Nat \ {0} /\ Len(log) \in Nat /\ Len(f) \in Nat
  BY LenProperties, EmptySeq
<1>2. Len(rest) = n - 1 /\ \A i \in 1..n - 1 : rest[i] = b[i + 1]
  BY HeadTailProperties
<1>3. PICK cut \in [0..n -> Len(f)..Len(log)] :
        /\ cut[0] = Len(f) /\ cut[n] = Len(log)
        /\ \A i, j \in 0..n : i <= j => cut[i] <= cut[j]
        /\ \A i \in 1..n : b[i].lines = SubSeq(log, cut[i - 1] + 1, cut[i])
  BY DEF Intact
<1> DEFINE m == cut[1]
<1> HIDE DEF n, rest
<1>4. m \in Len(f)..Len(log) /\ m \in Nat /\ b[1].lines = SubSeq(log, Len(f) + 1, m)
  <2>1. 1 \in 1..n /\ 1 - 1 = 0 /\ 1 \in 0..n
    BY <1>1
  <2>2. b[1].lines = SubSeq(log, cut[1 - 1] + 1, cut[1])
    BY <1>3, <2>1
  <2>3. m \in Len(f)..Len(log)
    BY <1>3, <2>1
  <2>4. b[1].lines = SubSeq(log, Len(f) + 1, m)
    BY <1>3, <2>1, <2>2
  <2> HIDE DEF m
  <2>5. m \in Nat
    BY <1>1, <2>3
  <2> QED BY <2>3, <2>4, <2>5
<1>5. f = SubSeq(log, 1, Len(f))
  BY DEF Intact
<1> HIDE DEF m
<1>6. g = SubSeq(log, 1, m) /\ g \in Seq(Lines) /\ Len(g) = m
  <2>1. /\ 1 \in 1..Len(log) + 1 /\ Len(f) \in 1 - 1..Len(log) /\ m \in Len(f)..Len(log)
        /\ 0 \in 0..Len(log) /\ m \in 0..Len(log) /\ 0 + 1 = 1 /\ m - 0 = m
    BY <1>1, <1>4
  <2>2. SubSeq(log, 1, Len(f)) \o SubSeq(log, Len(f) + 1, m) = SubSeq(log, 1, m)
    BY <2>1, ConcatAdjacentSubSeq
  <2>3. SubSeq(log, 0 + 1, m) \in Seq(Lines) /\ Len(SubSeq(log, 0 + 1, m)) = m - 0
    BY <2>1, Stretch
  <2> QED BY <1>4, <1>5, <2>1, <2>2, <2>3
<1> HIDE DEF g
<1> DEFINE new == [i \in 0..n - 1 |-> cut[i + 1]]
<1>7. /\ new \in [0..n - 1 -> m..Len(log)] /\ new[0] = m /\ new[n - 1] = Len(log)
      /\ \A i \in 0..n - 1 : new[i] = cut[i + 1]
      /\ \A i, j \in 0..n - 1 : i <= j => new[i] <= new[j]
  <2>1. \A i \in 0..n - 1 : i + 1 \in 0..n /\ 1 <= i + 1
    BY <1>1
  <2>2. ASSUME NEW i \in 0..n - 1
        PROVE  cut[i + 1] \in m..Len(log)
    <3>1. cut[i + 1] \in Len(f)..Len(log) /\ 1 \in 0..n
      BY <1>1, <1>3, <2>1
    <3>2. m <= cut[i + 1]
      BY <1>3, <2>1, <3>1 DEF m
    <3> QED BY <1>1, <1>4, <3>1, <3>2
  <2>3. 0 + 1 = 1 /\ (n - 1) + 1 = n /\ 0 \in 0..n - 1 /\ n - 1 \in 0..n - 1
    BY <1>1
  <2>4. \A i, j \in 0..n - 1 : i <= j => i + 1 <= j + 1
    BY <1>1
  <2> QED BY <1>3, <2>1, <2>2, <2>3, <2>4 DEF m
<1> HIDE DEF new
<1>8. ASSUME NEW i \in 1..n - 1
      PROVE  rest[i].lines = SubSeq(log, new[i - 1] + 1, new[i])
  <2>1. /\ i + 1 \in 1..n /\ (i + 1) - 1 = i /\ i - 1 \in 0..n - 1 /\ i \in 0..n - 1
        /\ (i - 1) + 1 = i
    BY <1>1
  <2>2. b[i + 1].lines = SubSeq(log, cut[i] + 1, cut[i + 1])
    BY <1>3, <2>1
  <2>3. new[i - 1] = cut[i] /\ new[i] = cut[i + 1]
    BY <1>7, <2>1
  <2> QED BY <1>2, <2>2, <2>3
<1>9. Intact(g, rest, log)
  BY <1>2, <1>6, <1>7, <1>8 DEF Intact
<1>10. Len(g) = Len(f) => g = f
  BY <1>5, <1>6
<1> QED BY <1>4, <1>6, <1>9, <1>10 DEF g, rest

LEMMA IntactFirst == Intact(<< >>, <<Empty>>, << >>)
<1>1. Len(<< >>) = 0 /\ Len(<<Empty>>) = 1 /\ <<Empty>>[1] = Empty
  OBVIOUS
<1>2. SubSeq(<< >>, 1, 0) = << >> /\ SubSeq(<< >>, 0 + 1, 0) = << >>
  BY SubSeqEmpty
<1> DEFINE cut == [i \in 0..1 |-> 0]
<1>3. /\ cut \in [0..1 -> 0..0] /\ cut[0] = 0 /\ cut[1] = 0
      /\ \A i, j \in 0..1 : i <= j => cut[i] <= cut[j]
      /\ \A i \in 1..1 : i = 1 /\ i - 1 = 0
  OBVIOUS
<1> HIDE DEF cut
<1>4. \A i \in 1..1 : <<Empty>>[i].lines = SubSeq(<< >>, cut[i - 1] + 1, cut[i])
  BY <1>1, <1>2, <1>3 DEF Empty
<1> QED BY <1>1, <1>2, <1>3, <1>4 DEF Intact

(* Once all buffers are empty, everything is in the file. *)
LEMMA IntactDone ==
  ASSUME NEW f \in Seq(Lines), NEW log \in Seq(Lines), Intact(f, <<Empty>>, log)
  PROVE  f = log
<1>1. Len(f) \in Nat /\ Len(log) \in Nat /\ Len(<<Empty>>) = 1 /\ <<Empty>>[1].lines = << >>
  BY LenProperties DEF Empty
<1>2. PICK cut \in [0..1 -> Len(f)..Len(log)] :
        /\ cut[0] = Len(f) /\ cut[1] = Len(log)
        /\ <<Empty>>[1].lines = SubSeq(log, cut[0] + 1, cut[1])
  <2>1. PICK cut \in [0..1 -> Len(f)..Len(log)] :
        /\ cut[0] = Len(f) /\ cut[1] = Len(log)
        /\ \A i \in 1..1 : <<Empty>>[i].lines = SubSeq(log, cut[i - 1] + 1, cut[i])
    BY <1>1 DEF Intact
  <2>2. 1 \in 1..1 /\ 1 - 1 = 0
    OBVIOUS
  <2> QED BY <2>1, <2>2
<1>3. SubSeq(log, Len(f) + 1, Len(log)) = << >> /\ Len(f) <= Len(log)
  BY <1>1, <1>2
<1>4. Len(f) = Len(log)
  <2>1. Len(f) \in 0..Len(log) /\ Len(log) \in Len(f)..Len(log)
    BY <1>1, <1>3
  <2>2. Len(SubSeq(log, Len(f) + 1, Len(log))) = Len(log) - Len(f)
    BY <2>1, Stretch
  <2>3. Len(<< >>) = 0
    OBVIOUS
  <2>4. Len(log) - Len(f) = 0
    BY <1>3, <2>2, <2>3
  <2> QED BY <1>1, <2>4
<1> QED BY <1>4, SubSeqFull DEF Intact

-----------------------------------------------------------------------------
(* The chain of buffers *)

Pending == SubSeq(toWrite, written + 1, Len(toWrite)) \o buffersToWrite_

ChainFits ==
  /\ SubSeq(toWrite, written + 1, Len(toWrite)) \in Seq(Buffers)
  /\ Pending \in Seq(Buffers)
  /\ Chain = Append(Pending, currentBuffer_)
  /\ Chain \in Seq(Buffers) /\ Chain # << >>
  /\ Len(Chain) = Len(Pending) + 1 /\ Len(Pending) \in Nat
  /\ Chain[Len(Chain)] = currentBuffer_
  /\ \A i \in 1..Len(Pending) : Chain[i] = Pending[i]

LEMMA ChainType == LoggerTypeOK => ChainFits
<1> SUFFICES ASSUME LoggerTypeOK PROVE ChainFits
  OBVIOUS
<1>1. toWrite \in Seq(Buffers) /\ buffersToWrite_ \in Seq(Buffers) /\ currentBuffer_ \in Buffers
  BY DEF LoggerTypeOK
<1>2. Len(toWrite) \in Nat /\ written \in 0..Len(toWrite)
  BY <1>1, LenProperties DEF LoggerTypeOK
<1>3. Len(toWrite) \in written..Len(toWrite)
  BY <1>2
<1>4. SubSeq(toWrite, written + 1, Len(toWrite)) \in Seq(Buffers)
  BY <1>1, <1>2, <1>3, Stretch
<1>5. Pending \in Seq(Buffers)
  BY <1>1, <1>4, ConcatProperties DEF Pending
<1>6. Chain = Append(Pending, currentBuffer_)
  BY <1>1, <1>5, AppendIsConcat DEF Chain, Pending
<1>7. /\ Append(Pending, currentBuffer_) \in Seq(Buffers)
      /\ Append(Pending, currentBuffer_) # << >>
      /\ Len(Append(Pending, currentBuffer_)) = Len(Pending) + 1 /\ Len(Pending) \in Nat
      /\ \A i \in 1..Len(Pending) : Append(Pending, currentBuffer_)[i] = Pending[i]
      /\ Append(Pending, currentBuffer_)[Len(Pending) + 1] = currentBuffer_
  BY <1>1, <1>5, AppendProperties, LenProperties
<1> QED BY <1>4, <1>5, <1>6, <1>7 DEF ChainFits

LEMMA ChainTypeNext == LoggerTypeOK' => ChainFits'
BY ChainType, PTL

LEMMA EmptyFits == Empty \in Buffers /\ avail(Empty) = kSize
<1>1. << >> \in Seq(Lines) /\ 0 \in 0..kSize
  BY EmptySeq, SizeAssumption
<1> QED BY <1>1, SizeAssumption DEF Empty, Buffers, avail

(* A line that fits leaves the buffer within its bytes. *)
LEMMA HoldingFits ==
  ASSUME NEW buffer \in Buffers, NEW line \in Lines, avail(buffer) >= line.len
  PROVE  /\ Holding(buffer, line) \in Buffers
         /\ Holding(buffer, line).lines = Append(buffer.lines, line)
<1>1. buffer.lines \in Seq(Lines) /\ buffer.cur_ \in 0..kSize /\ line.len \in 1..kSize
  BY DEF Buffers, Lines
<1>2. Append(buffer.lines, line) \in Seq(Lines)
  BY <1>1, AppendProperties
<1>3. buffer.cur_ + line.len \in 0..kSize
  BY <1>1, SizeAssumption DEF avail
<1> QED BY <1>2, <1>3 DEF Holding, Buffers

(* The spare buffer is as good as new. *)
LEMMA SpareIsEmpty == LoggerTypeOK => Spare = Empty
<1> SUFFICES ASSUME LoggerTypeOK, nextBuffer_ # << >> PROVE Head(nextBuffer_) = Empty
  BY DEF Spare
<1>1. nextBuffer_ = <<Empty>>
  BY DEF LoggerTypeOK
<1> QED BY <1>1

-----------------------------------------------------------------------------
(* Every step keeps the invariant *)

LEMMA InitHolds == Init => LoggerIInv
<1> SUFFICES ASSUME Init PROVE LoggerIInv
  OBVIOUS
<1> USE DEF Init
<1>1. << >> \in Seq(Buffers) /\ << >> \in Seq(Lines) /\ Len(<< >>) = 0
  BY EmptySeq
<1>2. LoggerTypeOK
  <2>1. 0 \in 0..Len(<< >>) /\ 0 \in 0..MaxStarts
    BY <1>1, StartsAssumption
  <2> QED BY <1>1, <2>1, EmptyFits DEF LoggerTypeOK
<1>3. Chain = <<Empty>>
  <2>1. SubSeq(<< >>, 0 + 1, 0) = << >>
    BY SubSeqEmpty
  <2>2. SubSeq(toWrite, written + 1, Len(toWrite)) = << >>
    BY <1>1, <2>1
  <2>3. << >> \o << >> = << >> /\ << >> \o <<Empty>> = <<Empty>>
    BY <1>1, ConcatEmptySeq
  <2> QED BY <2>2, <2>3 DEF Chain
<1>4. LogIntact
  BY <1>3, IntactFirst DEF LogIntact
<1>5. StopperWaits /\ RoundInHand
  BY DEF StopperWaits, RoundInHand
<1> QED BY <1>2, <1>4, <1>5 DEF LoggerIInv

LEMMA appendKeepsType ==
  ASSUME LoggerIInv, NEW line \in Lines, append(line)
  PROVE  LoggerTypeOK'
<1>1. /\ currentBuffer_ \in Buffers /\ nextBuffer_ \in {<< >>, <<Empty>>}
      /\ buffersToWrite_ \in Seq(Buffers) /\ appended \in Seq(Lines)
  BY DEF LoggerIInv, LoggerTypeOK
<1>2. Append(appended, line) \in Seq(Lines) /\ Append(buffersToWrite_, currentBuffer_) \in Seq(Buffers)
  BY <1>1, AppendProperties
<1>3. currentBuffer_' \in Buffers /\ nextBuffer_' \in {<< >>, <<Empty>>} /\ buffersToWrite_' \in Seq(Buffers)
  <2>1. CASE Fits(line)
    BY <1>1, <2>1, HoldingFits DEF append, Fits
  <2>2. CASE ~Fits(line)
    <3>1. Spare = Empty
      BY SpareIsEmpty DEF LoggerIInv
    <3>2. avail(Empty) >= line.len
      BY EmptyFits, SizeAssumption DEF Lines
    <3>3. Holding(Spare, line) \in Buffers
      BY <3>1, <3>2, EmptyFits, HoldingFits
    <3> QED BY <1>2, <2>2, <3>3 DEF append
  <2> QED BY <2>1, <2>2
<1> QED BY <1>2, <1>3 DEF append, LoggerIInv, LoggerTypeOK, back

LEMMA appendKeeps ==
  ASSUME LoggerIInv, NEW line \in Lines, append(line)
  PROVE  LoggerIInv'
<1>1. LoggerTypeOK /\ LoggerTypeOK' /\ ChainFits /\ ChainFits'
  BY appendKeepsType, ChainType, ChainTypeNext DEF LoggerIInv
<1>2. /\ file \in Seq(Lines) /\ appended \in Seq(Lines) /\ currentBuffer_ \in Buffers
      /\ toWrite \in Seq(Buffers) /\ buffersToWrite_ \in Seq(Buffers)
      /\ Intact(file, Chain, appended)
  BY <1>1 DEF LoggerTypeOK, LoggerIInv, LogIntact
<1>3. UNCHANGED <<running_, backend, toWrite, written, stopping, stopper, starts, file>> /\ stopper = "idle"
  BY DEF append, back
<1>4. Intact(file, Chain', Append(appended, line))
  <2>1. CASE Fits(line)
    <3>1. Pending' = Pending /\ currentBuffer_' = Holding(currentBuffer_, line)
      BY <1>3, <2>1 DEF Pending, append
    <3>2. currentBuffer_'.lines = Append(currentBuffer_.lines, line)
      BY <1>2, <2>1, <3>1, HoldingFits DEF Fits
    <3>3. /\ Len(Chain) # 0 /\ Len(Chain') = Len(Chain) /\ Len(Chain) - 1 = Len(Pending)
          /\ Chain \in Seq(Buffers) /\ Chain' \in Seq(Buffers)
          /\ \A i \in 1..Len(Pending) : Chain'[i] = Chain[i]
          /\ Chain[Len(Chain)] = currentBuffer_ /\ Chain'[Len(Chain)] = currentBuffer_'
      BY <1>1, <3>1 DEF ChainFits
    <3>4. /\ \A i \in 1..Len(Chain) - 1 : Chain'[i].lines = Chain[i].lines
          /\ Chain'[Len(Chain)].lines = Append(Chain[Len(Chain)].lines, line)
      BY <3>2, <3>3
    <3> QED BY <1>2, <3>3, <3>4, IntactGrows
  <2>2. CASE ~Fits(line)
    <3> DEFINE b == Append(Chain, Empty)
    <3>1. currentBuffer_'.lines = Append(Empty.lines, line)
      <4>1. Spare = Empty
        BY <1>1, SpareIsEmpty
      <4>2. avail(Empty) >= line.len
        BY EmptyFits, SizeAssumption DEF Lines
      <4> QED BY <2>2, <4>1, <4>2, EmptyFits, HoldingFits DEF append
    <3>2. Pending' = Chain
      <4>1. buffersToWrite_' = Append(buffersToWrite_, currentBuffer_)
        BY <2>2 DEF append
      <4>2. Append(buffersToWrite_, currentBuffer_) = buffersToWrite_ \o <<currentBuffer_>>
        BY <1>2, AppendIsConcat
      <4>3. <<currentBuffer_>> \in Seq(Buffers)
        BY <1>2
      <4>4. SubSeq(toWrite, written + 1, Len(toWrite)) \o (buffersToWrite_ \o <<currentBuffer_>>) = Chain
        <5> DEFINE out == SubSeq(toWrite, written + 1, Len(toWrite))
        <5>1. out \in Seq(Buffers) /\ Chain = (out \o buffersToWrite_) \o <<currentBuffer_>>
          BY <1>1 DEF ChainFits, Chain
        <5> HIDE DEF out
        <5>2. out \o (buffersToWrite_ \o <<currentBuffer_>>) = Chain
          BY <1>2, <4>3, <5>1, ConcatAssociative
        <5> QED BY <5>2 DEF out
      <4> QED BY <1>3, <4>1, <4>2, <4>4 DEF Pending
    <3>3. Intact(file, b, appended)
      BY <1>1, <1>2, IntactLonger DEF ChainFits
    <3>4. /\ b \in Seq(Buffers) /\ Len(b) = Len(Chain) + 1 /\ Len(Chain) \in Nat
          /\ b[Len(Chain) + 1] = Empty /\ \A i \in 1..Len(Chain) : b[i] = Chain[i]
      BY <1>1, EmptyFits, AppendProperties, LenProperties DEF ChainFits
    <3> HIDE DEF b
    <3>5. /\ Chain' \in Seq(Buffers) /\ Len(Chain') = Len(Chain) + 1
          /\ Chain'[Len(Chain) + 1] = currentBuffer_'
          /\ \A i \in 1..Len(Chain) : Chain'[i] = Chain[i]
      BY <1>1, <3>2 DEF ChainFits
    <3>6. /\ Len(b) # 0 /\ Len(Chain') = Len(b) /\ Len(b) - 1 = Len(Chain)
          /\ Chain'[Len(b)].lines = Append(b[Len(b)].lines, line)
      BY <3>1, <3>4, <3>5
    <3>7. \A i \in 1..Len(b) - 1 : Chain'[i].lines = b[i].lines
      BY <3>4, <3>5, <3>6
    <3> QED BY <1>2, <3>3, <3>4, <3>5, <3>6, <3>7, IntactGrows
  <2> QED BY <2>1, <2>2
<1>5. LogIntact'
  BY <1>3, <1>4 DEF LogIntact, append
<1>6. StopperWaits' /\ RoundInHand'
  BY <1>3 DEF LoggerIInv, StopperWaits, RoundInHand
<1> QED BY <1>1, <1>5, <1>6 DEF LoggerIInv

(* The steps that move no line. *)
Quiet == start \/ stop \/ stopJoins \/ fopen \/ fflush

LEMMA QuietMovesNothing ==
  Quiet => UNCHANGED <<currentBuffer_, nextBuffer_, buffersToWrite_, toWrite, written, file,
                       appended>>
<1>1. start \/ stop
        => UNCHANGED <<currentBuffer_, nextBuffer_, buffersToWrite_, toWrite, written, file,
                       appended>>
  BY DEF start, stop, front, back
<1>2. stopJoins \/ fopen \/ fflush
        => UNCHANGED <<currentBuffer_, nextBuffer_, buffersToWrite_, toWrite, written, file,
                       appended>>
  BY DEF stopJoins, fopen, fflush, front
<1> QED BY <1>1, <1>2 DEF Quiet

LEMMA QuietKeeps ==
  ASSUME LoggerIInv, Quiet
  PROVE  LoggerIInv'
<1>1. UNCHANGED <<currentBuffer_, nextBuffer_, buffersToWrite_, toWrite, written, file, appended>>
  BY QuietMovesNothing
<1>2. LogIntact'
  BY <1>1 DEF LoggerIInv, LogIntact, Chain
<1> DEFINE control ==
             /\ running_ \in BOOLEAN /\ stopping \in BOOLEAN
             /\ backend \in {"none", "opening", "waiting", "writing", "recycling", "done", "failed"}
             /\ stopper \in {"idle", "joining"} /\ starts \in 0..MaxStarts
             /\ StopperWaits /\ RoundInHand
<1>3. control /\ written \in 0..Len(toWrite)
  BY DEF LoggerIInv, LoggerTypeOK
<1>4. control'
  <2>1. CASE start
    <3>1. starts' \in 0..MaxStarts
      BY <1>3, <2>1, StartsAssumption DEF start
    <3>2. StopperWaits' /\ RoundInHand'
      BY <1>1, <1>3, <2>1 DEF start, StopperWaits, RoundInHand
    <3> QED BY <1>3, <2>1, <3>1, <3>2 DEF start
  <2>2. CASE stop
    BY <1>1, <1>3, <2>2 DEF stop, back, StopperWaits, RoundInHand
  <2>3. CASE stopJoins
    BY <1>1, <1>3, <2>3 DEF stopJoins, StopperWaits, RoundInHand
  <2>4. CASE fopen
    BY <1>1, <1>3, <2>4 DEF fopen, StopperWaits, RoundInHand
  <2>5. CASE fflush
    BY <1>1, <1>3, <2>5 DEF fflush, StopperWaits, RoundInHand
  <2> QED BY <2>1, <2>2, <2>3, <2>4, <2>5 DEF Quiet
<1>5. LoggerTypeOK'
  BY <1>1, <1>4 DEF LoggerIInv, LoggerTypeOK
<1> QED BY <1>2, <1>4, <1>5 DEF LoggerIInv

LEMMA collectKeeps ==
  ASSUME LoggerIInv, collect
  PROVE  LoggerIInv'
<1>1. /\ LoggerTypeOK /\ Spare = Empty
      /\ currentBuffer_ \in Buffers /\ buffersToWrite_ \in Seq(Buffers)
      /\ file \in Seq(Lines) /\ appended \in Seq(Lines)
  BY SpareIsEmpty DEF LoggerIInv, LoggerTypeOK
<1>2. UNCHANGED <<running_, stopper, starts, file, appended>> /\ backend' = "writing"
  BY DEF collect
<1>3. /\ toWrite = << >> /\ written = 0 /\ ~stopping
  BY DEF LoggerIInv, RoundInHand, collect
<1>4. /\ toWrite' = Append(buffersToWrite_, currentBuffer_) /\ written' = 0
      /\ buffersToWrite_' = << >> /\ currentBuffer_' = Empty /\ nextBuffer_' = << >>
      /\ stopping' = ~running_
  BY <1>1 DEF collect
<1>5. Append(buffersToWrite_, currentBuffer_) \in Seq(Buffers) /\ << >> \in Seq(Buffers)
  BY <1>1, AppendProperties, EmptySeq
<1>6. Len(toWrite') \in Nat
  BY <1>4, <1>5, LenProperties
<1>7. LoggerTypeOK'
  BY <1>1, <1>2, <1>4, <1>5, <1>6, EmptyFits DEF LoggerTypeOK
<1>8. ChainFits /\ ChainFits'
  BY <1>1, <1>7, ChainType, ChainTypeNext
<1>9. Pending' = Chain
  <2>1. Pending = buffersToWrite_
    <3>1. SubSeq(toWrite, written + 1, Len(toWrite)) = << >>
      BY <1>3, SubSeqEmpty
    <3> QED BY <1>1, <3>1, ConcatEmptySeq DEF Pending
  <2>2. SubSeq(toWrite', written' + 1, Len(toWrite')) = toWrite'
    <3>1. 0 + 1 = 1
      OBVIOUS
    <3> QED BY <1>4, <1>5, <3>1, SubSeqFull
  <2>3. Pending' = toWrite'
    BY <1>4, <1>5, <2>2, ConcatEmptySeq DEF Pending
  <2> QED BY <1>4, <1>8, <2>1, <2>3 DEF ChainFits
<1>10. Chain' = Append(Chain, Empty)
  BY <1>4, <1>8, <1>9 DEF ChainFits
<1>11. LogIntact'
  <2>1. Intact(file, Append(Chain, Empty), appended)
    BY <1>1, <1>8, IntactLonger DEF ChainFits, LoggerIInv, LogIntact
  <2> QED BY <1>2, <1>10, <2>1 DEF LogIntact
<1>12. StopperWaits'
  BY <1>2 DEF LoggerIInv, StopperWaits, collect
<1>13. RoundInHand'
  BY <1>2, <1>4 DEF RoundInHand
<1> QED BY <1>7, <1>11, <1>12, <1>13 DEF LoggerIInv

LEMMA fwriteChain ==
  ASSUME LoggerIInv, fwrite
  PROVE  /\ Chain' = Tail(Chain) /\ Chain[1] = toWrite[written + 1]
         /\ written + 1 \in 1..Len(toWrite)
<1>1. /\ LoggerTypeOK /\ ChainFits
      /\ toWrite \in Seq(Buffers) /\ Len(toWrite) \in Nat /\ written \in 0..Len(toWrite)
      /\ buffersToWrite_ \in Seq(Buffers) /\ currentBuffer_ \in Buffers
  BY ChainType, LenProperties DEF LoggerIInv, LoggerTypeOK
<1>2. /\ written' = written + 1 /\ written + 1 \in 1..Len(toWrite)
      /\ Len(toWrite) \in written + 1..Len(toWrite)
      /\ UNCHANGED <<toWrite, buffersToWrite_, currentBuffer_>>
  BY <1>1 DEF fwrite, front
<1> DEFINE first == toWrite[written + 1]
           left == SubSeq(toWrite, (written + 1) + 1, Len(toWrite))
           rest == left \o buffersToWrite_
<1>3. first \in Buffers /\ <<first>> \in Seq(Buffers) /\ <<currentBuffer_>> \in Seq(Buffers)
  BY <1>1, <1>2, ElementOfSeq
<1>4. SubSeq(toWrite, written + 1, Len(toWrite)) = <<first>> \o left
  BY <1>1, <1>2, SubSeqRecursiveFirst
<1>5. left \in Seq(Buffers)
  <2>1. written + 1 \in 0..Len(toWrite)
    BY <1>2
  <2> QED BY <1>1, <1>2, <2>1, Stretch
<1>6. rest \in Seq(Buffers)
  BY <1>1, <1>5, ConcatProperties
<1>7. Chain' = rest \o <<currentBuffer_>>
  BY <1>2 DEF Chain
<1>8. Chain = (<<first>> \o left) \o buffersToWrite_ \o <<currentBuffer_>>
  BY <1>4 DEF Chain
<1> HIDE DEF first, left
<1>9. (<<first>> \o left) \o buffersToWrite_ = <<first>> \o rest
  BY <1>1, <1>3, <1>5, ConcatAssociative
<1> HIDE DEF rest
<1>10. Chain = <<first>> \o Chain'
  BY <1>3, <1>6, <1>7, <1>8, <1>9, ConcatAssociative
<1>11. Chain' \in Seq(Buffers)
  BY <1>3, <1>6, <1>7, ConcatProperties
<1>12. Chain[1] = first /\ Tail(Chain) = Chain'
  BY <1>3, <1>10, <1>11
<1> QED BY <1>2, <1>12 DEF first

LEMMA fwriteKeeps ==
  ASSUME LoggerIInv, fwrite
  PROVE  LoggerIInv'
<1>1. /\ LoggerTypeOK /\ ChainFits /\ Intact(file, Chain, appended)
      /\ toWrite \in Seq(Buffers) /\ Len(toWrite) \in Nat
      /\ file \in Seq(Lines) /\ appended \in Seq(Lines)
  BY ChainType, LenProperties DEF LoggerIInv, LoggerTypeOK, LogIntact
<1>2. /\ Chain' = Tail(Chain) /\ Chain[1] = toWrite[written + 1]
      /\ written + 1 \in 1..Len(toWrite)
  BY fwriteChain
<1>3. /\ file' = file \o Chain[1].lines /\ written' = written + 1
      /\ UNCHANGED <<running_, front, backend, toWrite, stopping, stopper, starts, appended>>
  BY <1>2 DEF fwrite
<1>4. file' \in Seq(Lines) /\ Intact(file', Chain', appended)
  BY <1>1, <1>2, <1>3, IntactWritten DEF ChainFits
<1>5. LoggerTypeOK'
  <2>1. written' \in 0..Len(toWrite')
    BY <1>1, <1>2, <1>3
  <2> QED BY <1>1, <1>3, <1>4, <2>1 DEF LoggerTypeOK, front
<1>6. LogIntact'
  BY <1>3, <1>4 DEF LogIntact
<1>7. StopperWaits' /\ RoundInHand'
  BY <1>3 DEF LoggerIInv, StopperWaits, RoundInHand, front, fwrite
<1> QED BY <1>5, <1>6, <1>7 DEF LoggerIInv

LEMMA recycleKeeps ==
  ASSUME LoggerIInv, recycle
  PROVE  LoggerIInv'
<1>1. toWrite \in Seq(Buffers) /\ Len(toWrite) \in Nat /\ written = Len(toWrite)
  BY LenProperties DEF LoggerIInv, LoggerTypeOK, RoundInHand, recycle
<1>2. /\ toWrite' = << >> /\ written' = 0 /\ << >> \in Seq(Buffers) /\ Len(<< >>) = 0
      /\ UNCHANGED <<running_, currentBuffer_, buffersToWrite_, stopping, stopper, starts, file,
                     appended>>
      /\ backend = "recycling" /\ backend' = IF stopping THEN "done" ELSE "waiting"
  BY EmptySeq DEF recycle, leaves
<1>3. nextBuffer_' \in {<< >>, <<Empty>>}
  BY DEF recycle, recycled, LoggerIInv, LoggerTypeOK
<1>4. LoggerTypeOK'
  BY <1>2, <1>3 DEF LoggerIInv, LoggerTypeOK
<1>5. LogIntact'
  <2>1. SubSeq(toWrite, written + 1, Len(toWrite)) = << >>
    BY <1>1, SubSeqEmpty
  <2>2. SubSeq(toWrite', written' + 1, Len(toWrite')) = << >>
    BY <1>2, SubSeqEmpty
  <2>3. Chain' = Chain
    BY <1>2, <2>1, <2>2 DEF Chain
  <2> QED BY <1>2, <2>3 DEF LoggerIInv, LogIntact
<1>6. StopperWaits' /\ RoundInHand'
  BY <1>2 DEF LoggerIInv, StopperWaits, RoundInHand
<1> QED BY <1>4, <1>5, <1>6 DEF LoggerIInv

LEMMA StepKeeps == LoggerIInv /\ [Next]_vars => LoggerIInv'
<1> SUFFICES ASSUME LoggerIInv, [Next]_vars PROVE LoggerIInv'
  OBVIOUS
<1>1. ASSUME NEW line \in Lines, append(line)
      PROVE  LoggerIInv'
  BY <1>1, appendKeeps
<1>2. CASE Quiet
  BY <1>2, QuietKeeps
<1>3. CASE collect \/ fwrite \/ recycle
  BY <1>3, collectKeeps, fwriteKeeps, recycleKeeps
<1>4. CASE UNCHANGED vars
  <2>1. UNCHANGED Chain
    BY <1>4 DEF vars, front, back, Chain
  <2> QED BY <1>4, <2>1 DEF vars, front, back, LoggerIInv, LoggerTypeOK, LogIntact, StopperWaits,
                             RoundInHand
<1> QED BY <1>1, <1>2, <1>3, <1>4 DEF Next, threadFunc, Quiet

-----------------------------------------------------------------------------
(* The theorems *)

(* The inductive invariant of the logger: its types, the log intact across  *)
(* file and buffers, stop() and the back end in step, and the last round    *)
(* leaving nothing behind.                                                  *)
THEOREM LoggerInductive == SafeSpec => []LoggerIInv
BY InitHolds, StepKeeps, PTL DEF SafeSpec

(* No buffer of append() or threadFunc ever holds more than its bytes, and  *)
(* the buffer handed back as nextBuffer_ has always been reset.             *)
THEOREM LoggerTypeCorrect == SafeSpec => []LoggerTypeOK
<1>1. LoggerIInv => LoggerTypeOK
  BY DEF LoggerIInv
<1> QED BY <1>1, LoggerInductive, PTL

(* Between append() and the file no line is lost, doubled or overtaken,     *)
(* whatever the swaps of buffers, a failed fopen and restarts do.           *)
THEOREM LogStaysIntact == SafeSpec => []LogIntact
<1>1. LoggerIInv => LogIntact
  BY DEF LoggerIInv
<1> QED BY <1>1, LoggerInductive, PTL

LEMMA DoneIsFlushed == LoggerIInv => StoppedMeansFlushed
<1> SUFFICES ASSUME LoggerIInv, backend = "done" PROVE file = appended
  BY DEF StoppedMeansFlushed
<1>1. /\ toWrite = << >> /\ written = 0 /\ buffersToWrite_ = << >> /\ currentBuffer_ = Empty
      /\ file \in Seq(Lines) /\ appended \in Seq(Lines)
  BY DEF LoggerIInv, LoggerTypeOK, RoundInHand
<1>2. Chain = <<Empty>>
  <2>1. SubSeq(<< >>, 0 + 1, 0) = << >> /\ Len(<< >>) = 0
    BY SubSeqEmpty
  <2>2. << >> \in Seq(Buffers) /\ <<Empty>> \in Seq(Buffers)
    BY EmptyFits
  <2>3. << >> \o << >> = << >> /\ << >> \o <<Empty>> = <<Empty>>
    BY <2>2, ConcatEmptySeq
  <2> QED BY <1>1, <2>1, <2>3 DEF Chain
<1> QED BY <1>1, <1>2, IntactDone DEF LoggerIInv, LogIntact

(* When threadFunc has ended its last round, every line handed to append()  *)
(* is in the file: a round begun before stop() is not the last.  After a    *)
(* failed fopen there is no round.                                          *)
THEOREM StopFlushes == SafeSpec => []StoppedMeansFlushed
BY DoneIsFlushed, LoggerInductive, PTL

-----------------------------------------------------------------------------
(* The logger implements LogFile *)

LEMMA QuietRefines == LoggerIInv /\ Quiet => [LF!Next]_(LF!vars)
<1> SUFFICES ASSUME LoggerIInv, Quiet PROVE [LF!Next]_(LF!vars)
  OBVIOUS
<1>1. UNCHANGED <<file, appended>>
  BY QuietMovesNothing
<1>2. CASE start
  <2>1. Status = "idle" /\ Status' = "running"
    BY <1>2 DEF start, Status
  <2> QED BY <1>1, <2>1 DEF LF!Next, LF!Start
<1>3. CASE stop \/ fflush
  <2>1. UNCHANGED Status
    BY <1>3 DEF stop, fflush, back, Status
  <2> QED BY <1>1, <2>1 DEF LF!vars
<1>4. CASE stopJoins
  <2>1. CASE backend = "done"
    <3>1. file = appended
      BY <2>1, DoneIsFlushed DEF StoppedMeansFlushed
    <3>2. Status = "running" /\ Status' = "idle"
      BY <1>4, <2>1 DEF stopJoins, Status
    <3> QED BY <1>1, <3>1, <3>2 DEF LF!Next, LF!Stop
  <2>2. CASE backend = "failed"
    <3>1. Status = "broken" /\ Status' = "idle"
      BY <1>4, <2>2 DEF stopJoins, Status
    <3> QED BY <1>1, <3>1 DEF LF!Next, LF!Stop
  <2> QED BY <1>4, <2>1, <2>2 DEF stopJoins
<1>5. CASE fopen
  <2>1. CASE backend' = "waiting"
    <3>1. UNCHANGED Status
      BY <1>5, <2>1 DEF fopen, Status
    <3> QED BY <1>1, <3>1 DEF LF!vars
  <2>2. CASE backend' = "failed"
    <3>1. Status = "running" /\ Status' = "broken"
      BY <1>5, <2>2 DEF fopen, Status
    <3> QED BY <1>1, <3>1 DEF LF!Next, LF!Break
  <2> QED BY <1>5, <2>1, <2>2 DEF fopen
<1> QED BY <1>2, <1>3, <1>4, <1>5 DEF Quiet

(* A full buffer reaches the file as one Write, an empty one as none. *)
LEMMA fwriteRefines == LoggerIInv /\ fwrite => [LF!Next]_(LF!vars)
<1> SUFFICES ASSUME LoggerIInv, fwrite PROVE [LF!Next]_(LF!vars)
  OBVIOUS
<1>1. /\ ChainFits /\ Intact(file, Chain, appended)
      /\ file \in Seq(Lines) /\ appended \in Seq(Lines)
  BY ChainType DEF LoggerIInv, LoggerTypeOK, LogIntact
<1>2. file' = file \o Chain[1].lines
  BY fwriteChain DEF fwrite
<1>3. /\ Len(file') = Len(file) => file' = file
      /\ \E m \in Len(file)..Len(appended) : Len(file') = m /\ file' = SubSeq(appended, 1, m)
  <2>1. Chain \in Seq(Buffers) /\ Chain # << >>
    BY <1>1 DEF ChainFits
  <2> DEFINE g == file \o Chain[1].lines
  <2>2. /\ Len(g) = Len(file) => g = file
        /\ \E m \in Len(file)..Len(appended) : Len(g) = m /\ g = SubSeq(appended, 1, m)
    BY <1>1, <2>1, IntactWritten
  <2> QED BY <1>2, <2>2
<1>4. Status = "running" /\ UNCHANGED Status /\ UNCHANGED appended
  BY DEF fwrite, Status
<1>5. CASE Len(file') = Len(file)
  BY <1>3, <1>4, <1>5 DEF LF!vars
<1>6. CASE Len(file') # Len(file)
  <2>1. PICK m \in Len(file)..Len(appended) : Len(file') = m /\ file' = SubSeq(appended, 1, m)
    BY <1>3
  <2>2. m \in Len(file) + 1..Len(appended)
    BY <1>1, <1>6, <2>1, LenProperties
  <2>3. LF!Write
    BY <1>4, <2>1, <2>2 DEF LF!Write
  <2> QED BY <2>3 DEF LF!Next
<1> QED BY <1>5, <1>6

LEMMA StepRefines == LoggerIInv /\ [Next]_vars => [LF!Next]_(LF!vars)
<1> SUFFICES ASSUME LoggerIInv, [Next]_vars PROVE [LF!Next]_(LF!vars)
  OBVIOUS
<1>1. ASSUME NEW line \in Lines, append(line)
      PROVE  [LF!Next]_(LF!vars)
  <2>1. appended' = Append(appended, line) /\ UNCHANGED <<file, backend>>
    BY <1>1 DEF append, back
  <2>2. LF!Accept(line)
    BY <2>1 DEF LF!Accept, Status
  <2> QED BY <2>2 DEF LF!Next
<1>2. CASE collect \/ recycle
  <2>1. UNCHANGED <<file, appended>> /\ UNCHANGED Status
    BY <1>2 DEF collect, recycle, Status
  <2> QED BY <2>1 DEF LF!vars
<1>3. CASE UNCHANGED vars
  BY <1>3 DEF vars, back, Status, LF!vars
<1> QED BY <1>1, <1>2, <1>3, QuietRefines, fwriteRefines DEF Next, threadFunc, Quiet

(* The logger implements the safety half of LogFile: what is written is     *)
(* always the next stretch of what was logged, and stop() ends with the     *)
(* file caught up unless it could not be opened.                            *)
THEOREM LogFileRefinement == SafeSpec => LF!SafeSpec
<1>1. Init => LF!Init
  BY DEF Init, LF!Init, Status
<1> QED BY <1>1, StepRefines, LoggerInductive, PTL DEF SafeSpec, LF!SafeSpec
=============================================================================
