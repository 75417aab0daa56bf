--------------------------- MODULE SequenceLemmas ---------------------------
(***************************************************************************)
(* Facts about sequences that several proofs rest on and the library does  *)
(* not have.                                                               *)
(***************************************************************************)
EXTENDS Integers, Sequences, SequenceTheorems, TLAPS

(* A sequence is the part up to n and the part behind n. *)
LEMMA CutAt ==
  ASSUME NEW S, NEW s \in Seq(S), NEW n \in 0..Len(s)
  PROVE  /\ SubSeq(s, 1, n) \in Seq(S) /\ Len(SubSeq(s, 1, n)) = n
         /\ SubSeq(s, n + 1, Len(s)) \in Seq(S)
         /\ SubSeq(s, 1, n) \o SubSeq(s, n + 1, Len(s)) = s
         /\ \A i \in 1..n : SubSeq(s, 1, n)[i] = s[i]
         /\ Len(SubSeq(s, n + 1, Len(s))) = Len(s) - n
         /\ \A i \in 1..Len(s) - n : SubSeq(s, n + 1, Len(s))[i] = s[n + i]
<1> DEFINE f == SubSeq(s, 1, n)
           g == SubSeq(s, n + 1, Len(s))
<1>1. Len(s) \in Nat /\ n \in Nat /\ n <= Len(s)
  BY LenProperties
<1>2. \A i \in 1..Len(s) : s[i] \in S
  BY ElementOfSeq
<1>3. f \in Seq(S) /\ Len(f) = n /\ \A i \in 1..n : f[i] = s[i]
  <2>1. \A i \in 1..n : s[i] \in S
    BY <1>1, <1>2
  <2> QED
    BY <1>1, <2>1, SubSeqProperties
<1>4. g \in Seq(S) /\ Len(g) = Len(s) - n /\ \A i \in 1..Len(s) - n : g[i] = s[n + i]
  <2>1. \A i \in n + 1 .. Len(s) : s[i] \in S
    BY <1>1, <1>2
  <2> QED
    BY <1>1, <2>1, SubSeqProperties
<1> HIDE DEF f, g
<1>5. f \o g = s
  <2>0. n + (Len(s) - n) = Len(s)
    BY <1>1
  <2>1. f \o g \in Seq(S) /\ Len(f \o g) = Len(s)
    BY <1>3, <1>4, <2>0, ConcatProperties
  <2>2. \A i \in 1..n + (Len(s) - n) : (f \o g)[i] = IF i <= n THEN f[i] ELSE g[i - n]
    BY <1>3, <1>4, ConcatProperties
  <2>3. ASSUME NEW i \in 1..Len(s) PROVE (f \o g)[i] = s[i]
    <3>1. i \in 1..n + (Len(s) - n) /\ n + (i - n) = i
      BY <1>1, <2>3
    <3>2. CASE i <= n
      BY <1>1, <1>3, <2>2, <3>1, <3>2
    <3>3. CASE ~(i <= n)
      <4>1. i - n \in 1..Len(s) - n
        BY <1>1, <2>3, <3>3
      <4> QED
        BY <1>4, <2>2, <3>1, <3>3, <4>1
    <3> QED
      BY <3>2, <3>3
  <2> QED
    BY <2>1, <2>3, SeqEqual
<1> QED
  BY <1>3, <1>4, <1>5 DEF f, g

(* Moving the head of the middle part to the end of the first part leaves   *)
(* the concatenation as it was.                                             *)
LEMMA MoveHead ==
  ASSUME NEW S, NEW a \in Seq(S), NEW b \in Seq(S), b # << >>
  PROVE  Append(a, Head(b)) \o Tail(b) = a \o b
<1> DEFINE l == Append(a, Head(b)) \o Tail(b)
           r == a \o b
<1>1. /\ Head(b) \in S
      /\ Tail(b) \in Seq(S)
      /\ Len(Tail(b)) = Len(b) - 1
      /\ \A i \in 1..Len(Tail(b)) : Tail(b)[i] = b[i + 1]
      /\ Head(b) = b[1]
  BY HeadTailProperties
<1>2. /\ Append(a, Head(b)) \in Seq(S)
      /\ Len(Append(a, Head(b))) = Len(a) + 1
      /\ \A i \in 1..Len(a) : Append(a, Head(b))[i] = a[i]
      /\ Append(a, Head(b))[Len(a) + 1] = Head(b)
  BY <1>1, AppendProperties
<1>3. /\ l \in Seq(S)
      /\ Len(l) = Len(a) + 1 + (Len(b) - 1)
      /\ \A i \in 1..Len(l) :
           l[i] = IF i <= Len(a) + 1 THEN Append(a, Head(b))[i]
                                     ELSE Tail(b)[i - (Len(a) + 1)]
  BY <1>1, <1>2, ConcatProperties
<1>4. /\ r \in Seq(S)
      /\ Len(r) = Len(a) + Len(b)
      /\ \A i \in 1..Len(r) : r[i] = IF i <= Len(a) THEN a[i] ELSE b[i - Len(a)]
  BY ConcatProperties
<1>5. Len(a) \in Nat /\ Len(b) \in Nat
  BY LenProperties
<1>6. Len(l) = Len(r)
  BY <1>3, <1>4, <1>5
<1>7. ASSUME NEW i \in 1..Len(l) PROVE l[i] = r[i]
  <2> i \in Nat /\ 1 <= i /\ i <= Len(a) + Len(b)
    BY <1>3, <1>5
  <2>1. CASE i <= Len(a)
    BY <2>1, <1>2, <1>3, <1>4, <1>5, <1>6
  <2>2. CASE i = Len(a) + 1
    BY <2>2, <1>1, <1>2, <1>3, <1>4, <1>5, <1>6
  <2>3. CASE i > Len(a) + 1
    <3>1. i - (Len(a) + 1) \in 1..Len(Tail(b))
      BY <2>3, <1>1, <1>5
    <3>2. l[i] = Tail(b)[i - (Len(a) + 1)]
      BY <2>3, <1>3, <1>5
    <3>3. Tail(b)[i - (Len(a) + 1)] = b[i - (Len(a) + 1) + 1]
      BY <3>1, <1>1
    <3>4. i - (Len(a) + 1) + 1 = i - Len(a)
      BY <1>5
    <3>5. r[i] = b[i - Len(a)]
      BY <2>3, <1>4, <1>5, <1>6
    <3> QED BY <3>2, <3>3, <3>4, <3>5
  <2> QED BY <2>1, <2>2, <2>3, <1>5
<1> QED BY <1>3, <1>4, <1>6, <1>7, SeqEqual

(* The first part of a concatenation is its prefix of that length. *)
LEMMA PrefixOfConcat ==
  ASSUME NEW S, NEW s \in Seq(S), NEW t \in Seq(S)
  PROVE  Len(s) \in 0..Len(s \o t) /\ SubSeq(s \o t, 1, Len(s)) = s
<1>1. Len(s) \in Nat /\ Len(t) \in Nat
  BY LenProperties
<1>2. /\ s \o t \in Seq(S) /\ Len(s \o t) = Len(s) + Len(t)
      /\ \A i \in 1..Len(s) + Len(t) : (s \o t)[i] = IF i <= Len(s) THEN s[i] ELSE t[i - Len(s)]
  BY ConcatProperties
<1>3. Len(s) \in 0..Len(s \o t)
  BY <1>1, <1>2
<1>4. /\ SubSeq(s \o t, 1, Len(s)) \in Seq(S) /\ Len(SubSeq(s \o t, 1, Len(s))) = Len(s)
      /\ \A i \in 1..Len(s) : SubSeq(s \o t, 1, Len(s))[i] = (s \o t)[i]
  BY <1>2, <1>3, CutAt
<1>5. ASSUME NEW i \in 1..Len(s) PROVE (s \o t)[i] = s[i]
  BY <1>1, <1>2, <1>5
<1>6. \A i \in 1..Len(s) : SubSeq(s \o t, 1, Len(s))[i] = s[i]
  BY <1>4, <1>5
<1> QED BY <1>3, <1>4, <1>6, SeqEqual

(* A stretch from behind p to q. *)
LEMMA Stretch ==
  ASSUME NEW S, NEW s \in Seq(S), NEW p \in 0..Len(s), NEW q \in p..Len(s)
  PROVE  /\ SubSeq(s, p + 1, q) \in Seq(S) /\ Len(SubSeq(s, p + 1, q)) = q - p
         /\ \A i \in 1..q - p : SubSeq(s, p + 1, q)[i] = s[p + i]
<1>1. /\ Len(s) \in Nat /\ p \in Nat /\ q \in Nat /\ p <= q /\ q <= Len(s)
      /\ q - (p + 1) + 1 = q - p /\ p + 1 \in Int
  BY LenProperties
<1>2. \A i \in p + 1..q : s[i] \in S
  BY <1>1, ElementOfSeq
<1>3. /\ SubSeq(s, p + 1, q) \in Seq(S)
      /\ Len(SubSeq(s, p + 1, q)) = IF p + 1 <= q THEN q - (p + 1) + 1 ELSE 0
      /\ \A i \in 1..q - (p + 1) + 1 : SubSeq(s, p + 1, q)[i] = s[(p + 1) + i - 1]
  BY <1>1, <1>2, SubSeqProperties
<1>4. ASSUME NEW i \in 1..q - p
      PROVE  SubSeq(s, p + 1, q)[i] = s[p + i]
  <2>1. i \in 1..q - (p + 1) + 1 /\ (p + 1) + i - 1 = p + i
    BY <1>1
  <2> QED BY <1>3, <2>1
<1>5. Len(SubSeq(s, p + 1, q)) = q - p
  BY <1>1, <1>3
<1> QED BY <1>3, <1>4, <1>5

(* A stretch does not change when something is appended behind it. *)
LEMMA StretchBefore ==
  ASSUME NEW S, NEW s \in Seq(S), NEW e \in S, NEW p \in 0..Len(s), NEW q \in p..Len(s)
  PROVE  SubSeq(Append(s, e), p + 1, q) = SubSeq(s, p + 1, q)
<1> DEFINE longer == Append(s, e)
<1>1. /\ longer \in Seq(S) /\ Len(longer) = Len(s) + 1 /\ Len(s) \in Nat
      /\ \A i \in 1..Len(s) : longer[i] = s[i]
  BY AppendProperties, LenProperties
<1> HIDE DEF longer
<1>2. p \in 0..Len(longer) /\ q \in p..Len(longer) /\ p \in Nat /\ q \in Nat /\ p <= q /\ q <= Len(s)
  BY <1>1
<1>3. /\ SubSeq(s, p + 1, q) \in Seq(S) /\ Len(SubSeq(s, p + 1, q)) = q - p
      /\ \A i \in 1..q - p : SubSeq(s, p + 1, q)[i] = s[p + i]
  BY Stretch
<1>4. /\ SubSeq(longer, p + 1, q) \in Seq(S) /\ Len(SubSeq(longer, p + 1, q)) = q - p
      /\ \A i \in 1..q - p : SubSeq(longer, p + 1, q)[i] = longer[p + i]
  BY <1>1, <1>2, Stretch
<1>5. \A i \in 1..q - p : p + i \in 1..Len(s)
  BY <1>1, <1>2
<1>6. \A i \in 1..q - p : SubSeq(longer, p + 1, q)[i] = SubSeq(s, p + 1, q)[i]
  BY <1>1, <1>3, <1>4, <1>5
<1>7. SubSeq(longer, p + 1, q) = SubSeq(s, p + 1, q)
  BY <1>3, <1>4, <1>6, SeqEqual
<1> QED BY <1>7 DEF longer

(* The last stretch grows by what is appended. *)
LEMMA StretchGrows ==
  ASSUME NEW S, NEW s \in Seq(S), NEW e \in S, NEW p \in 0..Len(s)
  PROVE  SubSeq(Append(s, e), p + 1, Len(s) + 1) = Append(SubSeq(s, p + 1, Len(s)), e)
<1> DEFINE longer == Append(s, e)
           tail == SubSeq(s, p + 1, Len(s))
           grown == SubSeq(longer, p + 1, Len(s) + 1)
<1>1. /\ longer \in Seq(S) /\ Len(longer) = Len(s) + 1 /\ Len(s) \in Nat
      /\ \A i \in 1..Len(s) : longer[i] = s[i]
      /\ longer[Len(s) + 1] = e
  BY AppendProperties, LenProperties
<1> HIDE DEF longer
<1>2. /\ p \in Nat /\ p <= Len(s) /\ Len(s) \in p..Len(s)
      /\ p \in 0..Len(longer) /\ Len(s) + 1 \in p..Len(longer)
  BY <1>1
<1>3. tail \in Seq(S) /\ Len(tail) = Len(s) - p /\ \A i \in 1..Len(s) - p : tail[i] = s[p + i]
  BY <1>2, Stretch
<1>4. /\ grown \in Seq(S) /\ Len(grown) = (Len(s) + 1) - p
      /\ \A i \in 1..(Len(s) + 1) - p : grown[i] = longer[p + i]
  BY <1>1, <1>2, Stretch
<1> HIDE DEF tail, grown
<1>5. /\ Append(tail, e) \in Seq(S) /\ Len(Append(tail, e)) = (Len(s) - p) + 1
      /\ \A i \in 1..Len(s) - p : Append(tail, e)[i] = tail[i]
      /\ Append(tail, e)[(Len(s) - p) + 1] = e
  BY <1>3, AppendProperties
<1>6. ASSUME NEW i \in 1..(Len(s) + 1) - p
      PROVE  grown[i] = Append(tail, e)[i]
  <2>1. CASE i = (Len(s) - p) + 1
    <3>1. p + i = Len(s) + 1
      BY <1>2, <1>1, <2>1
    <3> QED BY <1>1, <1>4, <1>5, <2>1, <3>1
  <2>2. CASE i # (Len(s) - p) + 1
    <3>1. i \in 1..Len(s) - p /\ p + i \in 1..Len(s)
      BY <1>1, <1>2, <2>2
    <3> QED BY <1>1, <1>3, <1>4, <1>5, <3>1
  <2> QED BY <2>1, <2>2
<1>7. (Len(s) + 1) - p = (Len(s) - p) + 1
  BY <1>1, <1>2
<1>8. grown = Append(tail, e)
  BY <1>4, <1>5, <1>6, <1>7, SeqEqual
<1> QED BY <1>8 DEF longer, tail, grown
=============================================================================
