---------------------------- MODULE IdleKickProofs ----------------------------
(***************************************************************************)
(* Machine-checked proofs about TimerQueue and IdleKick, for any timers,   *)
(* delays and idle time: one record for each timer that is set, a timerfd  *)
(* that covers the earliest, callbacks in the order of their times, and a  *)
(* connected client always followed by its chain.                          *)
(***************************************************************************)
EXTENDS IdleKick, SequenceTheorems, FiniteSetTheorems, WellFoundedInduction, NaturalsInduction,
        TLAPS

Stages == {"poll", "events", "read", "expired", "functors"}

(* The types, and what is said of the records. *)
Typed ==
  /\ now \in Nat /\ expiry \in Nat
  /\ timers_ \subseteq TimerRecord /\ IsFiniteSet(timers_)
  /\ stage \in Stages /\ reported \in BOOLEAN
  /\ expired \in Seq(TimerRecord) /\ queue \in Seq(TimerRecord)
  /\ callback \subseteq Timers /\ (callback # {} => stage = "expired")
  /\ batch \in 0..Len(queue)
  /\ status \in [Timers -> {"unset", "set", "fired"}]
  /\ due \in [Timers -> Nat]

Records ==
  /\ RecordsTell /\ RecordsDiffer
  /\ \A t \in Timers : status[t] = "set" => HasRecord(t)

LEMMA TypeParts == TimerTypeOK <=> Typed /\ Records
BY DEF TimerTypeOK, Typed, Records, Stages

-----------------------------------------------------------------------------
(* The heap's top is there and is no later than any timer. *)
LEMMA TopIsEarliest ==
  ASSUME timers_ \subseteq TimerRecord, timers_ # {}
  PROVE  Top \in timers_ /\ \A u \in timers_ : Top.when <= u.when
<1> DEFINE T == {t.when : t \in timers_}
           R == OpToRel(<, Nat)
<1>1. T \subseteq Nat /\ T # {}
  BY DEF TimerRecord
<1>2. IsWellFoundedOn(R, Nat)
  BY NatLessThanWellFounded
<1>3. \A x, y \in Nat : y < x => <<y, x>> \in R
  BY DEF OpToRel
<1> HIDE DEF R
<1>4. \E x \in T : \A y \in T : x <= y
  <2> HIDE DEF T
  <2>1. PICK x \in T : \A y \in T : ~(<<y, x>> \in R)
    BY <1>1, <1>2, WFMin
  <2>2. \A y \in T : ~(y < x) /\ y \in Nat /\ x \in Nat
    BY <1>1, <1>3, <2>1
  <2> QED BY <2>1, <2>2
<1>5. \E t \in timers_ : \A u \in timers_ : t.when <= u.when
  BY <1>4
<1> QED BY <1>5 DEF Top

-----------------------------------------------------------------------------
(* The records, when one is added, moved or taken *)

(* What holds of the records wherever they are. *)
LEMMA RecordParts ==
  ASSUME Typed, Records
  PROVE  /\ DOMAIN expired = 1..Len(expired) /\ Len(expired) \in Nat
         /\ DOMAIN queue = 1..Len(queue) /\ Len(queue) \in Nat
         /\ \A u \in timers_ : u \in TimerRecord /\ u.id \in Timers /\ Tells(u)
         /\ \A i \in 1..Len(expired) : /\ expired[i] \in TimerRecord /\ expired[i].id \in Timers
                                       /\ Tells(expired[i])
         /\ \A i \in 1..Len(queue) : /\ queue[i] \in TimerRecord /\ queue[i].id \in Timers
                                     /\ Tells(queue[i])
<1>1. DOMAIN expired = 1..Len(expired) /\ Len(expired) \in Nat
  BY LenProperties DEF Typed
<1>2. DOMAIN queue = 1..Len(queue) /\ Len(queue) \in Nat
  BY LenProperties DEF Typed
<1>3. /\ \A i \in 1..Len(expired) : expired[i] \in TimerRecord
      /\ \A i \in 1..Len(queue) : queue[i] \in TimerRecord
  BY ElementOfSeq DEF Typed
<1>4. \A u \in TimerRecord : u.id \in Timers /\ u.when \in Nat
  BY DEF TimerRecord
<1>5. \A u \in timers_ : u \in TimerRecord
  BY DEF Typed
<1> QED BY <1>1, <1>2, <1>3, <1>4, <1>5 DEF Records, RecordsTell

LEMMA RecordsSame ==
  ASSUME Records, UNCHANGED <<timers_, expired, queue, status, due>>
  PROVE  Records'
BY DEF Records, RecordsTell, RecordsDiffer, HasRecord, Tells

(* A record set by the owner goes to the heap. *)
LEMMA RecordSet ==
  ASSUME Typed, Records, NEW t \in Timers, NEW w \in Nat, status[t] # "set",
         status' = [status EXCEPT ![t] = "set"], due' = [due EXCEPT ![t] = w],
         timers_' = timers_ \cup {[when |-> w, id |-> t]},
         expired' = expired, queue' = queue
  PROVE  Records'
<1> DEFINE new == [when |-> w, id |-> t]
<1>1. /\ status'[t] = "set" /\ due'[t] = w
      /\ \A u \in Timers \ {t} : status'[u] = status[u] /\ due'[u] = due[u]
  BY DEF Typed
<1>2. new.id = t /\ new.when = w
  OBVIOUS
<1>3. /\ \A u \in timers_ : u.id # t /\ u.id \in Timers
      /\ \A i \in DOMAIN expired : expired[i].id # t /\ expired[i].id \in Timers
      /\ \A i \in DOMAIN queue : queue[i].id # t /\ queue[i].id \in Timers
  BY RecordParts DEF Tells
<1> HIDE DEF new
<1>4. \A u \in timers_' : u = new \/ u \in timers_
  BY DEF new
<1>5. new \in timers_' /\ timers_ \subseteq timers_'
  BY DEF new
<1>6. RecordsTell'
  BY <1>1, <1>2, <1>3, <1>4 DEF Records, RecordsTell, Tells
<1>7. RecordsDiffer'
  BY <1>2, <1>3, <1>4 DEF Records, RecordsDiffer
<1>8. \A u \in Timers : status'[u] = "set" => HasRecord(u)'
  <2> SUFFICES ASSUME NEW u \in Timers, status'[u] = "set" PROVE HasRecord(u)'
    OBVIOUS
  <2>1. CASE u = t
    BY <1>2, <1>5, <2>1 DEF HasRecord
  <2>2. CASE u # t
    <3>1. HasRecord(u)
      BY <1>1, <2>2 DEF Records
    <3> QED BY <1>5, <3>1 DEF HasRecord
  <2> QED BY <2>1, <2>2
<1> QED BY <1>6, <1>7, <1>8 DEF Records

(* One set by another thread waits in the queue. *)
LEMMA RecordQueued ==
  ASSUME Typed, Records, NEW t \in Timers, NEW w \in Nat, status[t] # "set",
         status' = [status EXCEPT ![t] = "set"], due' = [due EXCEPT ![t] = w],
         queue' = Append(queue, [when |-> w, id |-> t]),
         expired' = expired, timers_' = timers_
  PROVE  Records' /\ queue' \in Seq(TimerRecord) /\ Len(queue') = Len(queue) + 1
<1> DEFINE new == [when |-> w, id |-> t]
           n == Len(queue) + 1
<1>1. /\ status'[t] = "set" /\ due'[t] = w
      /\ \A u \in Timers \ {t} : status'[u] = status[u] /\ due'[u] = due[u]
  BY DEF Typed
<1>2. new.id = t /\ new.when = w /\ new \in TimerRecord
  BY DEF TimerRecord
<1>3. /\ \A u \in timers_ : u.id # t /\ u.id \in Timers
      /\ \A i \in DOMAIN expired : expired[i].id # t /\ expired[i].id \in Timers
      /\ \A i \in DOMAIN queue : queue[i].id # t /\ queue[i].id \in Timers
  BY RecordParts DEF Tells
<1> HIDE DEF new
<1>4. /\ queue' \in Seq(TimerRecord) /\ Len(queue') = n
      /\ \A i \in 1..Len(queue) : queue'[i] = queue[i]
      /\ queue'[n] = new
  BY <1>2, AppendProperties DEF Typed, new
<1>5. DOMAIN queue = 1..Len(queue) /\ Len(queue) \in Nat /\ DOMAIN queue' = 1..n
  BY <1>4, RecordParts, LenProperties
<1>6. /\ \A i \in DOMAIN queue' : i \in DOMAIN queue \/ i = n
      /\ \A i \in DOMAIN queue : i \in DOMAIN queue' /\ queue'[i] = queue[i]
      /\ n \in DOMAIN queue'
  BY <1>4, <1>5
<1> HIDE DEF n
<1>7. RecordsTell'
  BY <1>1, <1>2, <1>3, <1>4, <1>6 DEF Records, RecordsTell, Tells
<1>8. RecordsDiffer'
  BY <1>2, <1>3, <1>4, <1>6 DEF Records, RecordsDiffer
<1>9. \A u \in Timers : status'[u] = "set" => HasRecord(u)'
  <2> SUFFICES ASSUME NEW u \in Timers, status'[u] = "set" PROVE HasRecord(u)'
    OBVIOUS
  <2>1. CASE u = t
    BY <1>2, <1>4, <1>6, <2>1 DEF HasRecord
  <2>2. CASE u # t
    <3>1. HasRecord(u)
      BY <1>1, <2>2 DEF Records
    <3> QED BY <1>6, <3>1 DEF HasRecord
  <2> QED BY <2>1, <2>2
<1> QED BY <1>4, <1>7, <1>8, <1>9 DEF Records, n

(* The first functor takes its record from the queue to the heap. *)
LEMMA RecordMoved ==
  ASSUME Typed, Records, queue # << >>, queue' = Tail(queue),
         timers_' = timers_ \cup {Head(queue)}, UNCHANGED <<expired, status, due>>
  PROVE  /\ Records' /\ queue' \in Seq(TimerRecord) /\ Len(queue') = Len(queue) - 1
         /\ Head(queue) \in TimerRecord
<1> DEFINE new == Head(queue)
<1>1. /\ queue' \in Seq(TimerRecord) /\ Len(queue') = Len(queue) - 1 /\ Len(queue) \in Nat
      /\ \A i \in 1..Len(queue') : queue'[i] = queue[i + 1]
      /\ new = queue[1] /\ new \in TimerRecord /\ Len(queue) > 0
  BY HeadTailProperties, LenProperties, EmptySeq DEF Typed
<1>2. DOMAIN queue = 1..Len(queue) /\ DOMAIN queue' = 1..Len(queue')
  BY <1>1, LenProperties, RecordParts
<1>3. /\ \A i \in DOMAIN queue' : i + 1 \in DOMAIN queue /\ queue'[i] = queue[i + 1] /\ i + 1 # 1
      /\ \A i, j \in DOMAIN queue' : i + 1 = j + 1 => i = j
      /\ \A i \in DOMAIN queue : i = 1 \/ (i - 1 \in DOMAIN queue' /\ queue'[i - 1] = queue[i])
      /\ 1 \in DOMAIN queue
  BY <1>1, <1>2
<1> HIDE DEF new
<1>4. (\A u \in timers_' : u = new \/ u \in timers_) /\ new \in timers_' /\ timers_ \subseteq timers_'
  BY DEF new
<1>5. RecordsTell'
  BY <1>1, <1>3, <1>4 DEF Records, RecordsTell, Tells
<1>6. RecordsDiffer'
  BY <1>1, <1>3, <1>4 DEF Records, RecordsDiffer
<1>7. \A u \in Timers : status'[u] = "set" => HasRecord(u)'
  <2> SUFFICES ASSUME NEW u \in Timers, status'[u] = "set" PROVE HasRecord(u)'
    OBVIOUS
  <2>1. HasRecord(u)
    BY DEF Records
  <2>2. CASE \E v \in timers_ : v.id = u
    BY <1>4, <2>2 DEF HasRecord
  <2>3. CASE \E i \in DOMAIN expired : expired[i].id = u
    BY <2>3 DEF HasRecord
  <2>4. CASE \E i \in DOMAIN queue : queue[i].id = u
    <3>1. PICK i \in DOMAIN queue : queue[i].id = u
      BY <2>4
    <3>2. CASE i = 1
      BY <1>1, <1>4, <3>1, <3>2 DEF HasRecord
    <3>3. CASE i - 1 \in DOMAIN queue' /\ queue'[i - 1] = queue[i]
      BY <3>1, <3>3 DEF HasRecord
    <3> QED BY <1>3, <3>2, <3>3
  <2> QED BY <2>1, <2>2, <2>3, <2>4 DEF HasRecord
<1> QED BY <1>1, <1>5, <1>6, <1>7 DEF Records, new

(* takeExpired's order is a sequence of all the late ones, each once. *)
LEMMA LateOnes ==
  ASSUME NEW S, IsFiniteSet(S), NEW order \in SetToSeqs(S)
  PROVE  /\ order \in Seq(S) /\ DOMAIN order = 1..Len(order)
         /\ \A i \in DOMAIN order : order[i] \in S
         /\ \A i, j \in DOMAIN order : order[i] = order[j] => i = j
         /\ \A s \in S : \E i \in DOMAIN order : order[i] = s
<1> DEFINE n == Cardinality(S)
<1>1. n \in Nat
  BY FS_CardinalityType
<1>2. order \in [1..n -> S] /\ \A i, j \in 1..n : i # j => order[i] # order[j]
  BY DEF SetToSeqs
<1>3. order \in Injection(1..n, S)
  BY <1>2 DEF Injection, IsInjective
<1>4. Cardinality(1..n) = n
  <2>1. 1 \in Int /\ n \in Int /\ (1 > n => n = 0) /\ n - 1 + 1 = n
    BY <1>1
  <2> QED BY <2>1, FS_Interval
<1>5. order \in Surjection(1..n, S)
  BY <1>3, <1>4, FS_Injection
<1>6. \A s \in S : \E i \in 1..n : order[i] = s
  BY <1>5 DEF Surjection
<1>7. order \in Seq(S) /\ DOMAIN order = 1..n
  BY <1>1, <1>2, SeqDef
<1>8. DOMAIN order = 1..Len(order)
  BY <1>7, LenProperties
<1> QED BY <1>2, <1>6, <1>7, <1>8

LEMMA RecordsTaken ==
  ASSUME Typed, Records, expired = << >>, NEW late \in SUBSET timers_,
         expired' \in SetToSeqs(late), timers_' = timers_ \ late,
         UNCHANGED <<queue, status, due>>
  PROVE  /\ Records' /\ expired' \in Seq(TimerRecord) /\ IsFiniteSet(timers_')
         /\ \A i \in DOMAIN expired' : expired'[i] \in late
<1>1. IsFiniteSet(late) /\ IsFiniteSet(timers_')
  BY FS_Subset DEF Typed
<1>2. /\ expired' \in Seq(late) /\ DOMAIN expired' = 1..Len(expired')
      /\ \A i \in DOMAIN expired' : expired'[i] \in late
      /\ \A i, j \in DOMAIN expired' : expired'[i] = expired'[j] => i = j
      /\ \A s \in late : \E i \in DOMAIN expired' : expired'[i] = s
  BY <1>1, LateOnes
<1>3. late \subseteq TimerRecord
  BY DEF Typed
<1>4. expired' \in Seq(TimerRecord)
  <2>1. \A i \in 1..Len(expired') : expired'[i] \in TimerRecord
    BY <1>2, <1>3
  <2>2. Len(expired') \in Nat /\ expired' \in [1..Len(expired') -> TimerRecord]
    BY <1>2, <2>1, LenProperties
  <2> QED BY <2>2, SeqDef
<1>5. \A u, v \in timers_ : u.id = v.id => u = v
  <2>1. \A u, v \in timers_ : u.id = v.id => u.when = v.when
    BY RecordParts DEF Tells
  <2>2. \A u, v \in TimerRecord : u.id = v.id /\ u.when = v.when => u = v
    BY DEF TimerRecord
  <2> QED BY <2>1, <2>2 DEF Typed
<1>6. RecordsTell'
  BY <1>2 DEF Records, RecordsTell, Tells
<1>7. RecordsDiffer'
  <2>1. \A i, j \in DOMAIN expired' : expired'[i].id = expired'[j].id => i = j
    BY <1>2, <1>5
  <2>2. \A i \in DOMAIN expired', j \in DOMAIN queue : expired'[i].id # queue[j].id
    BY <1>2 DEF Records, RecordsDiffer
  <2>3. \A u \in timers_', i \in DOMAIN expired' : expired'[i].id # u.id
    BY <1>2, <1>5
  <2> QED BY <2>1, <2>2, <2>3 DEF Records, RecordsDiffer
<1>8. \A u \in Timers : status'[u] = "set" => HasRecord(u)'
  <2> SUFFICES ASSUME NEW u \in Timers, status'[u] = "set" PROVE HasRecord(u)'
    OBVIOUS
  <2>1. HasRecord(u) /\ DOMAIN expired = {}
    <3>1. DOMAIN << >> = {}
      OBVIOUS
    <3> QED BY <3>1 DEF Records
  <2>2. CASE \E v \in timers_ : v.id = u
    <3>1. PICK v \in timers_ : v.id = u
      BY <2>2
    <3>2. CASE v \in late
      BY <1>2, <3>1, <3>2 DEF HasRecord
    <3>3. CASE v \notin late
      BY <3>1, <3>3 DEF HasRecord
    <3> QED BY <3>2, <3>3
  <2>3. CASE \E i \in DOMAIN queue : queue[i].id = u
    BY <2>3 DEF HasRecord
  <2> QED BY <2>1, <2>2, <2>3 DEF HasRecord
<1> QED BY <1>1, <1>2, <1>4, <1>6, <1>7, <1>8 DEF Records

(* A callback is entered: its timer is no longer set, and was due. *)
LEMMA RecordCalled ==
  ASSUME Typed, Records, expired # << >>, expired' = Tail(expired),
         status' = [status EXCEPT ![Head(expired).id] = "fired"],
         UNCHANGED <<timers_, queue, due>>
  PROVE  /\ Records' /\ expired' \in Seq(TimerRecord)
         /\ Head(expired).id \in Timers /\ Tells(Head(expired))
         /\ \A i \in DOMAIN expired' : i + 1 \in DOMAIN expired /\ expired'[i] = expired[i + 1]
         /\ 1 \in DOMAIN expired /\ Head(expired) = expired[1]
         /\ DOMAIN expired' \subseteq Nat \ {0}
<1> DEFINE t == Head(expired).id
<1>1. /\ expired' \in Seq(TimerRecord) /\ Len(expired') = Len(expired) - 1
      /\ \A i \in 1..Len(expired') : expired'[i] = expired[i + 1]
      /\ Head(expired) = expired[1] /\ Len(expired) \in Nat /\ Len(expired) > 0
  BY HeadTailProperties, LenProperties, EmptySeq DEF Typed
<1>2. DOMAIN expired = 1..Len(expired) /\ DOMAIN expired' = 1..Len(expired')
  BY <1>1, LenProperties, RecordParts
<1>3. /\ \A i \in DOMAIN expired' : i + 1 \in DOMAIN expired /\ expired'[i] = expired[i + 1] /\ i + 1 # 1
      /\ \A i, j \in DOMAIN expired' : i + 1 = j + 1 => i = j
      /\ \A i \in DOMAIN expired : i = 1 \/ (i - 1 \in DOMAIN expired' /\ expired'[i - 1] = expired[i])
      /\ 1 \in DOMAIN expired /\ DOMAIN expired' \subseteq Nat \ {0}
  BY <1>1, <1>2
<1>4. t \in Timers /\ Tells(expired[1])
  BY <1>1, <1>2, <1>3, RecordParts
<1>5. expired[1].id = t
  BY <1>1
<1> HIDE DEF t
<1>6. /\ status'[t] = "fired" /\ \A u \in Timers \ {t} : status'[u] = status[u]
  BY <1>4 DEF Typed, t
<1>7. /\ \A u \in timers_ : u.id # t /\ u.id \in Timers
      /\ \A i \in DOMAIN expired' : expired'[i].id # t /\ expired'[i].id \in Timers
      /\ \A i \in DOMAIN queue : queue[i].id # t /\ queue[i].id \in Timers
  <2>1. /\ \A u \in timers_ : u.id # t
        /\ \A i \in DOMAIN expired' : expired'[i].id # t
        /\ \A i \in DOMAIN queue : queue[i].id # t
    BY <1>3, <1>5 DEF Records, RecordsDiffer
  <2> QED BY <1>2, <1>3, <2>1, RecordParts
<1>8. RecordsTell'
  BY <1>3, <1>6, <1>7 DEF Records, RecordsTell, Tells
<1>9. RecordsDiffer'
  BY <1>3 DEF Records, RecordsDiffer
<1>10. \A u \in Timers : status'[u] = "set" => HasRecord(u)'
  <2> SUFFICES ASSUME NEW u \in Timers, status'[u] = "set" PROVE HasRecord(u)'
    OBVIOUS
  <2>1. HasRecord(u) /\ u # t
    BY <1>6 DEF Records
  <2>2. CASE \E i \in DOMAIN expired : expired[i].id = u
    <3>1. PICK i \in DOMAIN expired : expired[i].id = u
      BY <2>2
    <3>2. i - 1 \in DOMAIN expired' /\ expired'[i - 1] = expired[i]
      BY <1>3, <1>5, <2>1, <3>1
    <3> QED BY <3>1, <3>2 DEF HasRecord
  <2>3. CASE (\E v \in timers_ : v.id = u) \/ \E i \in DOMAIN queue : queue[i].id = u
    BY <2>3 DEF HasRecord
  <2> QED BY <2>1, <2>2, <2>3 DEF HasRecord
<1>11. Tells(Head(expired))
  BY <1>1, <1>4
<1> QED BY <1>1, <1>3, <1>4, <1>8, <1>9, <1>10, <1>11 DEF Records, t

-----------------------------------------------------------------------------
(* The timers' part of the invariant, step by step *)

TimerInv == TimerTypeOK /\ TimerfdCoversTop /\ RunInDueOrder /\ OnlyExpiredInHand

LEMMA InvParts ==
  ASSUME TimerInv
  PROVE  /\ Typed /\ Records /\ now \in Nat /\ expiry \in Nat
         /\ stage \in Stages /\ queue \in Seq(TimerRecord) /\ Len(queue) \in Nat
         /\ batch \in Nat /\ batch <= Len(queue)
         /\ DOMAIN expired = 1..Len(expired) /\ Len(expired) \in Nat
         /\ \A u \in timers_ : u \in TimerRecord /\ u.when \in Nat
         /\ \A i \in DOMAIN expired : expired[i].when \in Nat /\ expired[i].when <= now
         /\ (stage # "expired" => expired = << >> /\ callback = {})
<1>1. Typed /\ Records
  BY TypeParts DEF TimerInv
<1>2. \A u \in TimerRecord : u.when \in Nat
  BY DEF TimerRecord
<1>3. /\ DOMAIN expired = 1..Len(expired) /\ Len(expired) \in Nat /\ Len(queue) \in Nat
      /\ \A u \in timers_ : u \in TimerRecord /\ u.when \in Nat
      /\ \A i \in DOMAIN expired : expired[i].when \in Nat
  BY <1>1, <1>2, RecordParts
<1> QED BY <1>1, <1>3 DEF Typed, TimerInv, OnlyExpiredInHand

(* addTimer keeps the timerfd at or before every timer. *)
LEMMA AddCovers ==
  ASSUME TimerInv, NEW r \in TimerRecord, addTimer(r), now' = now
  PROVE  /\ timers_' = timers_ \cup {r} /\ timers_' \subseteq TimerRecord /\ IsFiniteSet(timers_')
         /\ expiry' \in Nat
         /\ (Covered => Covered')
<1>1. timers_' = timers_ \cup {r} /\ r.when \in Nat
  BY DEF addTimer, TimerRecord
<1>2. timers_' \subseteq TimerRecord /\ IsFiniteSet(timers_')
  BY <1>1, InvParts, FS_AddElement DEF Typed
<1>3. CASE earliest(r.when)
  <2>1. expiry' = IF r.when > now THEN r.when ELSE now + 1
    BY <1>3 DEF addTimer, resetTimerfd
  <2>2. \A t \in timers_' : t.when \in Nat /\ r.when <= t.when
    <3>1. \A t \in timers_ : t.when \in Nat /\ r.when < t.when
      BY <1>3, InvParts DEF earliest
    <3> QED BY <1>1, <3>1
  <2>3. expiry' \in Nat /\ expiry' # 0 /\ (expiry' = r.when \/ expiry' = now + 1)
    BY <1>1, <2>1, InvParts
  <2>4. Covered'
    BY <1>1, <2>2, <2>3, InvParts DEF Covered
  <2> QED BY <1>1, <1>2, <2>3, <2>4
<1>4. CASE ~earliest(r.when)
  <2>1. expiry' = expiry
    BY <1>4 DEF addTimer
  <2>2. PICK u \in timers_ : ~(r.when < u.when)
    BY <1>4 DEF earliest
  <2>3. u.when \in Nat /\ u.when <= r.when
    BY <1>1, <2>2, InvParts
  <2>4. ASSUME Covered PROVE Covered'
    <3>1. expiry # 0 /\ (expiry <= r.when \/ expiry <= now + 1)
      BY <1>1, <2>3, <2>4, InvParts DEF Covered
    <3> QED BY <1>1, <2>1, <2>4, <3>1 DEF Covered
  <2> QED BY <1>1, <1>2, <2>1, <2>4, InvParts
<1> QED BY <1>3, <1>4

(* runAfter on the owner's thread, from wherever the owner runs code. *)
LEMMA OwnerSets ==
  ASSUME TimerInv, NEW t \in Timers, NEW delay \in Nat, Sets(t, delay),
         addTimer([when |-> now + delay, id |-> t]),
         UNCHANGED <<now, stage, reported, expired, functors>>, callback' \in {callback, {}},
         OwnerRuns
  PROVE  TimerInv'
<1> DEFINE r == [when |-> now + delay, id |-> t]
<1>1. /\ status[t] # "set" /\ status' = [status EXCEPT ![t] = "set"]
      /\ due' = [due EXCEPT ![t] = now + delay]
      /\ now' = now /\ stage' = stage /\ reported' = reported /\ expired' = expired
      /\ queue' = queue /\ batch' = batch
  BY DEF Sets, functors
<1>2. now + delay \in Nat /\ r \in TimerRecord /\ r.when = now + delay
  BY InvParts DEF TimerRecord
<1> HIDE DEF r
<1>3. /\ timers_' = timers_ \cup {r} /\ timers_' \subseteq TimerRecord /\ IsFiniteSet(timers_')
      /\ expiry' \in Nat /\ (Covered => Covered')
  <2>1. addTimer(r)
    BY DEF r
  <2> QED BY <1>1, <1>2, <2>1, AddCovers
<1>4. Records'
  BY <1>1, <1>2, <1>3, InvParts, RecordSet DEF r
<1>5. Typed'
  BY <1>1, <1>2, <1>3, InvParts DEF Typed
<1>6. TimerTypeOK'
  BY <1>4, <1>5, TypeParts, PTL
<1>7. TimerfdCoversTop'
  BY <1>1, <1>3 DEF TimerInv, TimerfdCoversTop
<1>8. RunInDueOrder'
  <2>1. \A i \in DOMAIN expired : expired[i].when <= r.when
    BY <1>2, InvParts
  <2> QED BY <1>1, <1>3, <2>1 DEF TimerInv, RunInDueOrder
<1>9. OnlyExpiredInHand'
  BY <1>1 DEF TimerInv, OnlyExpiredInHand
<1> QED BY <1>6, <1>7, <1>8, <1>9 DEF TimerInv

(* runAfter on another thread only queues. *)
LEMMA ForeignSets ==
  ASSUME TimerInv, NEW t \in Timers, NEW delay \in Nat, runAfterForeign(t, delay)
  PROVE  TimerInv'
<1>1. /\ status[t] # "set" /\ status' = [status EXCEPT ![t] = "set"]
      /\ due' = [due EXCEPT ![t] = now + delay]
      /\ queue' = Append(queue, [when |-> now + delay, id |-> t])
      /\ now' = now /\ timers_' = timers_ /\ expiry' = expiry /\ stage' = stage
      /\ reported' = reported /\ expired' = expired /\ callback' = callback /\ batch' = batch
  BY DEF runAfterForeign, Sets, timerfd, reading
<1>2. now + delay \in Nat
  BY InvParts
<1>3. Records' /\ queue' \in Seq(TimerRecord) /\ Len(queue') = Len(queue) + 1
  BY <1>1, <1>2, InvParts, RecordQueued
<1>4. batch' \in 0..Len(queue')
  BY <1>1, <1>3, InvParts
<1>5. Typed'
  BY <1>1, <1>2, <1>3, <1>4, InvParts DEF Typed
<1>6. TimerTypeOK'
  BY <1>3, <1>5, TypeParts, PTL
<1>7. TimerfdCoversTop' /\ RunInDueOrder' /\ OnlyExpiredInHand'
  BY <1>1 DEF TimerInv, TimerfdCoversTop, Covered, RunInDueOrder, OnlyExpiredInHand
<1> QED BY <1>6, <1>7 DEF TimerInv

LEMMA tickKeeps ==
  ASSUME TimerInv, tick
  PROVE  TimerInv'
<1>1. /\ now' = now + 1
      /\ UNCHANGED <<timers_, expiry, stage, reported, expired, callback, queue, batch, status, due>>
  BY DEF tick, timerfd, reading, functors, alarm
<1>2. Records'
  BY <1>1, InvParts, RecordsSame
<1>3. Typed'
  BY <1>1, InvParts DEF Typed
<1>4. TimerTypeOK'
  BY <1>2, <1>3, TypeParts, PTL
<1>5. TimerfdCoversTop'
  <2>1. Covered => Covered'
    BY <1>1, InvParts DEF Covered
  <2> QED BY <1>1, <2>1 DEF TimerInv, TimerfdCoversTop
<1>6. RunInDueOrder'
  BY <1>1 DEF TimerInv, RunInDueOrder
<1>7. OnlyExpiredInHand'
  <2>1. \A i \in DOMAIN expired : expired[i].when <= now + 1
    BY InvParts
  <2> QED BY <1>1, <2>1 DEF TimerInv, OnlyExpiredInHand
<1> QED BY <1>4, <1>5, <1>6, <1>7 DEF TimerInv

(* A step that leaves clock, records and timerfd alone. *)
LEMMA QuietStep ==
  ASSUME TimerInv,
         UNCHANGED <<now, timers_, expiry, expired, queue, status, due>>,
         stage' \in Stages, reported' \in BOOLEAN, batch' \in 0..Len(queue),
         callback' \subseteq Timers, callback' # {} => stage' = "expired",
         stage' # "expired" => expired = << >>,
         stage' \in {"read", "expired"} \/ stage \notin {"read", "expired"}
  PROVE  TimerInv'
<1>1. Records'
  BY InvParts, RecordsSame
<1>2. Typed'
  BY InvParts DEF Typed
<1>3. TimerTypeOK'
  BY <1>1, <1>2, TypeParts, PTL
<1>4. TimerfdCoversTop' /\ RunInDueOrder' /\ OnlyExpiredInHand'
  BY DEF TimerInv, TimerfdCoversTop, Covered, RunInDueOrder, OnlyExpiredInHand
<1> QED BY <1>3, <1>4 DEF TimerInv

LEMMA pollKeeps ==
  ASSUME TimerInv, poll
  PROVE  TimerInv'
<1>1. /\ stage = "poll" /\ stage' = "events" /\ reported' \in BOOLEAN
      /\ UNCHANGED <<now, timers_, expiry, expired, callback, queue, batch, status, due>>
  BY DEF poll, Readable, timerfd, functors, alarm
<1>2. expired = << >> /\ callback = {} /\ batch \in 0..Len(queue)
  BY <1>1, InvParts
<1>3. stage' \in Stages
  BY <1>1 DEF Stages
<1> QED BY <1>1, <1>2, <1>3, QuietStep

LEMMA handleReadKeeps ==
  ASSUME TimerInv, handleRead
  PROVE  TimerInv'
<1>1. /\ stage = "events" /\ stage' = "read" /\ reported' = FALSE /\ expiry' \in {0, expiry}
      /\ UNCHANGED <<now, timers_, expired, callback, queue, batch, status, due>>
  BY DEF handleRead, functors, alarm
<1>2. expired = << >> /\ callback = {}
  BY <1>1, InvParts
<1>3. Records'
  BY <1>1, InvParts, RecordsSame
<1>4. Typed'
  BY <1>1, <1>2, InvParts DEF Typed, Stages
<1>5. TimerTypeOK'
  BY <1>3, <1>4, TypeParts, PTL
<1>6. TimerfdCoversTop' /\ RunInDueOrder' /\ OnlyExpiredInHand'
  BY <1>1, <1>2 DEF TimerInv, TimerfdCoversTop, RunInDueOrder, OnlyExpiredInHand
<1> QED BY <1>5, <1>6 DEF TimerInv

LEMMA takeExpiredKeeps ==
  ASSUME TimerInv, takeExpired
  PROVE  TimerInv'
<1> DEFINE late == {t \in timers_ : t.when <= now}
<1>1. /\ stage = "read" /\ stage' = "expired"
      /\ expired' \in SetToSeqs(late) /\ byTime(expired') /\ timers_' = timers_ \ late
      /\ UNCHANGED <<now, expiry, reported, callback, queue, batch, status, due>>
  BY DEF takeExpired, pop, functors, alarm
<1>2. expired = << >> /\ callback = {}
  BY <1>1, InvParts
<1>3. late \in SUBSET timers_ /\ \A t \in late : t.when <= now
  OBVIOUS
<1>4. \A t \in timers_ : t \in late \/ now <= t.when
  BY InvParts
<1> HIDE DEF late
<1>5. /\ Records' /\ expired' \in Seq(TimerRecord) /\ IsFiniteSet(timers_')
      /\ \A i \in DOMAIN expired' : expired'[i] \in late
  BY <1>1, <1>2, <1>3, InvParts, RecordsTaken
<1>6. Typed'
  BY <1>1, <1>2, <1>5, InvParts DEF Typed, Stages
<1>7. TimerTypeOK'
  BY <1>5, <1>6, TypeParts, PTL
<1>8. TimerfdCoversTop'
  BY <1>1 DEF TimerfdCoversTop
<1>9. RunInDueOrder'
  <2>1. \A i \in DOMAIN expired', t \in timers_' : expired'[i].when <= t.when
    <3> SUFFICES ASSUME NEW i \in DOMAIN expired', NEW t \in timers_'
                 PROVE  expired'[i].when <= t.when
      OBVIOUS
    <3>1. expired'[i].when <= now /\ expired'[i].when \in Nat
      BY <1>3, <1>5, InvParts
    <3>2. now <= t.when /\ t.when \in Nat
      BY <1>1, <1>4, InvParts
    <3> QED BY <3>1, <3>2, InvParts
  <2> QED BY <1>1, <2>1 DEF byTime, RunInDueOrder
<1>10. OnlyExpiredInHand'
  BY <1>1, <1>3, <1>5 DEF OnlyExpiredInHand
<1> QED BY <1>7, <1>8, <1>9, <1>10 DEF TimerInv

LEMMA callExpiredKeeps ==
  ASSUME TimerInv, NEW t \in Timers, callExpired(t)
  PROVE  TimerInv' /\ Tells(Head(expired)) /\ Head(expired).when <= now
<1>1. /\ stage = "expired" /\ expired # << >> /\ Head(expired).id = t
      /\ expired' = Tail(expired) /\ callback' = {t} /\ status' = [status EXCEPT ![t] = "fired"]
      /\ UNCHANGED <<now, timers_, expiry, stage, reported, queue, batch, due>>
  BY DEF callExpired, timerfd, functors
<1>2. /\ Records' /\ expired' \in Seq(TimerRecord) /\ Tells(Head(expired))
      /\ \A i \in DOMAIN expired' : i + 1 \in DOMAIN expired /\ expired'[i] = expired[i + 1]
      /\ 1 \in DOMAIN expired /\ Head(expired) = expired[1] /\ DOMAIN expired' \subseteq Nat \ {0}
  BY <1>1, InvParts, RecordCalled
<1>3. Typed'
  BY <1>1, <1>2, InvParts DEF Typed
<1>4. TimerTypeOK'
  BY <1>2, <1>3, TypeParts, PTL
<1>5. TimerfdCoversTop'
  BY <1>1 DEF TimerfdCoversTop
<1>6. RunInDueOrder'
  <2>1. \A i, j \in DOMAIN expired' : i < j => i + 1 < j + 1
    BY <1>2
  <2>2. \A i, j \in DOMAIN expired' : i < j => expired'[i].when <= expired'[j].when
    BY <1>2, <2>1 DEF TimerInv, RunInDueOrder
  <2>3. \A i \in DOMAIN expired', u \in timers_ : expired'[i].when <= u.when
    BY <1>2 DEF TimerInv, RunInDueOrder
  <2> QED BY <1>1, <2>2, <2>3 DEF RunInDueOrder
<1>7. OnlyExpiredInHand'
  BY <1>1, <1>2 DEF TimerInv, OnlyExpiredInHand
<1>8. Head(expired).when <= now
  BY <1>2, InvParts
<1> QED BY <1>2, <1>4, <1>5, <1>6, <1>7, <1>8 DEF TimerInv

LEMMA handleReadDoneKeeps ==
  ASSUME TimerInv, handleReadDone
  PROVE  TimerInv'
<1>1. /\ stage = "expired" /\ stage' = "events" /\ expired = << >> /\ callback = {} /\ rearm
      /\ UNCHANGED <<now, timers_, reported, expired, callback, queue, batch, status, due>>
  BY DEF handleReadDone, reading, functors, alarm
<1>2. expiry' \in Nat /\ Covered'
  <2>1. CASE timers_ = {}
    BY <1>1, <2>1, InvParts DEF rearm, Covered
  <2>2. CASE timers_ # {}
    <3>1. Top \in timers_ /\ \A u \in timers_ : Top.when <= u.when
      BY <2>2, InvParts, TopIsEarliest DEF Typed
    <3>2. expiry' = IF Top.when > now THEN Top.when ELSE now + 1
      BY <1>1, <2>2 DEF rearm, resetTimerfd
    <3>3. Top.when \in Nat /\ now \in Nat /\ \A u \in timers_ : u.when \in Nat
      BY <3>1, InvParts
    <3>4. expiry' \in Nat /\ expiry' # 0 /\ (expiry' = Top.when \/ expiry' = now + 1)
      BY <3>2, <3>3
    <3> QED BY <1>1, <3>1, <3>3, <3>4 DEF Covered
  <2> QED BY <2>1, <2>2
<1>3. Records'
  BY <1>1, InvParts, RecordsSame
<1>4. Typed'
  BY <1>1, <1>2, InvParts DEF Typed, Stages
<1>5. TimerTypeOK'
  BY <1>3, <1>4, TypeParts, PTL
<1>6. TimerfdCoversTop' /\ RunInDueOrder' /\ OnlyExpiredInHand'
  BY <1>1, <1>2 DEF TimerInv, TimerfdCoversTop, RunInDueOrder, OnlyExpiredInHand
<1> QED BY <1>5, <1>6 DEF TimerInv

LEMMA functorStepsKeep ==
  ASSUME TimerInv, doPendingFunctors \/ functorsDone
  PROVE  TimerInv'
<1>1. /\ stage \in {"events", "functors"} /\ stage' \in {"functors", "poll"}
      /\ batch' \in {batch, Len(queue)} /\ reported' = reported /\ callback' = callback
      /\ UNCHANGED <<now, timers_, expiry, expired, queue, status, due>>
  BY DEF doPendingFunctors, functorsDone, timerfd, reading, functors, alarm
<1>2. expired = << >> /\ callback = {} /\ batch' \in 0..Len(queue)
  BY <1>1, InvParts
<1>3. stage' \in Stages /\ reported' \in BOOLEAN
  BY <1>1, InvParts DEF Stages, Typed
<1> QED BY <1>1, <1>2, <1>3, QuietStep

LEMMA runFunctorKeeps ==
  ASSUME TimerInv, runFunctor
  PROVE  TimerInv'
<1>1. /\ stage = "functors" /\ batch > 0 /\ addTimer(Head(queue))
      /\ queue' = Tail(queue) /\ batch' = batch - 1
      /\ UNCHANGED <<now, stage, reported, expired, callback, status, due>>
  BY DEF runFunctor, reading, alarm
<1>2. queue # << >>
  BY <1>1, InvParts, EmptySeq
<1>3. Head(queue) \in TimerRecord
  BY <1>2, InvParts, HeadTailProperties
<1>4. /\ timers_' = timers_ \cup {Head(queue)} /\ timers_' \subseteq TimerRecord
      /\ IsFiniteSet(timers_') /\ expiry' \in Nat /\ (Covered => Covered')
  BY <1>1, <1>3, AddCovers
<1>5. Records' /\ queue' \in Seq(TimerRecord) /\ Len(queue') = Len(queue) - 1
  BY <1>1, <1>2, <1>4, InvParts, RecordMoved
<1>6. batch' \in 0..Len(queue')
  BY <1>1, <1>5, InvParts
<1>7. Typed'
  BY <1>1, <1>4, <1>5, <1>6, InvParts DEF Typed
<1>8. TimerTypeOK'
  BY <1>5, <1>7, TypeParts, PTL
<1>9. expired = << >> /\ DOMAIN expired = {}
  <2>1. DOMAIN << >> = {}
    OBVIOUS
  <2> QED BY <1>1, <2>1, InvParts
<1>10. TimerfdCoversTop' /\ RunInDueOrder' /\ OnlyExpiredInHand'
  BY <1>1, <1>4, <1>9 DEF TimerInv, TimerfdCoversTop, RunInDueOrder, OnlyExpiredInHand
<1> QED BY <1>8, <1>10 DEF TimerInv

-----------------------------------------------------------------------------
(* The chain that follows the connection *)

IdleInv == lastActive \in 0..now /\ IdleCovered

LEMMA InvSplit == IdleIInv <=> TimerInv /\ IdleInv
BY DEF IdleIInv, TimerInv, IdleInv

(* A step that does not touch the chain's timer keeps it covered. *)
LEMMA ChainUntouched ==
  ASSUME IdleInv, now \in Nat, now' \in {now, now + 1}, UNCHANGED session,
         status'[Idle] = status[Idle], due'[Idle] = due[Idle],
         callback = {Idle} => callback' = {Idle}
  PROVE  IdleInv'
<1>1. state_' = state_ /\ lastActive' = lastActive
  BY DEF session
<1>2. lastActive' \in 0..now'
  BY <1>1 DEF IdleInv
<1>3. IdleCovered'
  BY <1>1 DEF IdleInv, IdleCovered, Deadline
<1> QED BY <1>2, <1>3 DEF IdleInv

(* armIdleTimer within its idle time covers the client again. *)
LEMMA ArmCovers ==
  ASSUME TimerInv, NEW delay \in Nat, Sets(Idle, delay), lastActive' \in 0..now', now' = now,
         now + delay <= lastActive' + idleTimeout_
  PROVE  IdleInv'
<1>1. status'[Idle] = "set" /\ due'[Idle] = now + delay
  BY IdleAssumption, InvParts DEF Sets, Typed
<1>2. due'[Idle] <= lastActive' + idleTimeout_
  BY <1>1
<1> QED BY <1>1, <1>2 DEF IdleInv, IdleCovered, Deadline

LEMMA OwnerRoundKeeps ==
  ASSUME TimerInv, IdleInv, OwnerRound \/ tick, UNCHANGED session
  PROVE  TimerInv' /\ IdleInv'
<1>1. now \in Nat
  BY InvParts
<1>2. CASE tick
  <2>1. now' = now + 1 /\ UNCHANGED <<status, due, callback>>
    BY <1>2 DEF tick, alarm, reading
  <2> QED BY <1>1, <1>2, <2>1, tickKeeps, ChainUntouched
<1>3. CASE poll \/ handleRead \/ takeExpired \/ handleReadDone
  <2>1. UNCHANGED <<now, status, due, callback>>
    BY <1>3 DEF poll, handleRead, takeExpired, handleReadDone, alarm, reading
  <2> QED BY <1>1, <1>3, <2>1, pollKeeps, handleReadKeeps, takeExpiredKeeps, handleReadDoneKeeps,
             ChainUntouched
<1>4. CASE doPendingFunctors \/ runFunctor \/ functorsDone
  <2>1. UNCHANGED <<now, status, due, callback>>
    BY <1>4 DEF doPendingFunctors, runFunctor, functorsDone, alarm, reading
  <2> QED BY <1>1, <1>4, <2>1, functorStepsKeep, runFunctorKeeps, ChainUntouched
<1>5. ASSUME NEW t \in Timers, callExpired(t) PROVE TimerInv' /\ IdleInv'
  <2>1. /\ callback = {} /\ callback' = {t} /\ status' = [status EXCEPT ![t] = "fired"]
        /\ now' = now /\ due' = due
    BY <1>5 DEF callExpired
  <2>2. CASE t = Idle
    <3>1. lastActive' \in 0..now' /\ IdleCovered'
      BY <2>1, <2>2 DEF IdleInv, IdleCovered, session
    <3> QED BY <1>5, <3>1, callExpiredKeeps DEF IdleInv
  <2>3. CASE t # Idle
    <3>1. status'[Idle] = status[Idle]
      BY <2>1, <2>3, IdleAssumption, InvParts DEF Typed
    <3>2. callback # {Idle}
      BY <2>1
    <3> QED BY <1>1, <1>5, <2>1, <3>1, <3>2, callExpiredKeeps, ChainUntouched
  <2> QED BY <2>2, <2>3
<1> QED BY <1>2, <1>3, <1>4, <1>5 DEF OwnerRound

LEMMA OthersKeep ==
  ASSUME TimerInv, IdleInv, Others, UNCHANGED session
  PROVE  TimerInv' /\ IdleInv'
<1>1. PICK t \in Timers \ {Idle}, delay \in Delays :
        runAfterOwner(t, delay) \/ runAfterForeign(t, delay)
  BY DEF Others
<1>2. delay \in Nat
  BY DelayAssumption
<1>3. TimerInv'
  <2>1. CASE runAfterOwner(t, delay)
    <3>1. /\ OwnerRuns /\ Sets(t, delay) /\ addTimer([when |-> now + delay, id |-> t])
          /\ UNCHANGED <<now, stage, reported, expired, functors>> /\ callback' = callback
      BY <2>1 DEF runAfterOwner, reading
    <3> QED BY <1>2, <3>1, OwnerSets
  <2>2. CASE runAfterForeign(t, delay)
    BY <1>2, <2>2, ForeignSets
  <2> QED BY <1>1, <2>1, <2>2
<1>4. /\ Sets(t, delay) /\ now' = now /\ callback' = callback
  BY <1>1 DEF runAfterOwner, runAfterForeign, reading
<1>5. status'[Idle] = status[Idle] /\ due'[Idle] = due[Idle]
  BY <1>4, IdleAssumption, InvParts DEF Sets, Typed
<1> QED BY <1>3, <1>4, <1>5, InvParts, ChainUntouched

LEMMA callbackReturnsKeeps ==
  ASSUME TimerInv, callbackReturns
  PROVE  TimerInv'
<1>1. /\ callback # {} /\ callback' = {}
      /\ UNCHANGED <<now, timers_, expiry, stage, reported, expired, queue, batch, status, due>>
  BY DEF callbackReturns, timerfd, functors, alarm
<1>2. /\ stage = "expired" /\ stage \in Stages /\ reported \in BOOLEAN /\ batch \in 0..Len(queue)
  BY <1>1, InvParts DEF Typed
<1> QED BY <1>1, <1>2, QuietStep

LEMMA IdleCallbackKeeps ==
  ASSUME TimerInv, IdleInv, IdleCallback
  PROVE  TimerInv' /\ IdleInv'
<1>1. CASE idleStops \/ kick
  <2>1. callbackReturns /\ state_' # "kConnected" /\ lastActive' = lastActive /\ now' = now
    BY <1>1 DEF idleStops, kick, callbackReturns, session
  <2>2. IdleInv'
    BY <2>1 DEF IdleInv, IdleCovered
  <2> QED BY <2>1, <2>2, callbackReturnsKeeps
<1>2. CASE otherReturns
  <2>1. callbackReturns /\ callback # {Idle} /\ UNCHANGED <<now, status, due, session>>
    BY <1>2 DEF otherReturns, callbackReturns, alarm
  <2> QED BY <2>1, callbackReturnsKeeps, ChainUntouched, InvParts
<1>3. CASE idleRenews
  <2>1. /\ callback = {Idle} /\ now - lastActive < idleTimeout_
        /\ Sets(Idle, rest) /\ addTimer([when |-> now + rest, id |-> Idle])
        /\ callback' = {} /\ UNCHANGED <<now, stage, reported, expired, functors, session>>
    BY <1>3 DEF idleRenews, renew, armIdleTimer
  <2>2. /\ rest \in Nat /\ now + rest = lastActive + idleTimeout_ /\ lastActive' \in 0..now'
        /\ lastActive' = lastActive /\ now' = now
    BY <2>1, IdleAssumption, InvParts DEF IdleInv, rest, session
  <2> HIDE DEF rest
  <2>3. OwnerRuns
    BY <2>1 DEF OwnerRuns
  <2>4. TimerInv'
    BY <2>1, <2>2, <2>3, IdleAssumption, OwnerSets
  <2>5. now + rest <= lastActive' + idleTimeout_
    BY <2>2, IdleAssumption, InvParts
  <2> QED BY <2>1, <2>2, <2>4, <2>5, ArmCovers
<1> QED BY <1>1, <1>2, <1>3 DEF IdleCallback

LEMMA ConnectionKeeps ==
  ASSUME TimerInv, IdleInv, Connection
  PROVE  TimerInv' /\ IdleInv'
<1>1. CASE onConnection
  <2>1. /\ stage = "functors" /\ lastActive' = now
        /\ Sets(Idle, idleTimeout_) /\ addTimer([when |-> now + idleTimeout_, id |-> Idle])
        /\ UNCHANGED <<now, stage, reading, functors>>
    BY <1>1 DEF onConnection, armIdleTimer
  <2>2. /\ reported' = reported /\ expired' = expired /\ callback' = callback /\ OwnerRuns
        /\ now' = now /\ lastActive' \in 0..now'
    BY <2>1, InvParts DEF reading, OwnerRuns
  <2>3. idleTimeout_ \in Nat /\ now + idleTimeout_ <= lastActive' + idleTimeout_
    BY <2>1, IdleAssumption, InvParts
  <2>4. TimerInv'
    BY <2>1, <2>2, <2>3, IdleAssumption, OwnerSets
  <2> QED BY <2>1, <2>2, <2>3, <2>4, ArmCovers
<1>2. CASE onMessage
  <2>1. lastActive' = now /\ state_' \in {state_, "kDisconnecting"} /\ UNCHANGED timerVars
    BY <1>2 DEF onMessage
  <2>2. UNCHANGED <<now, timers_, expiry, stage, reported, expired, callback, queue, batch, status,
                    due>>
    BY <2>1 DEF timerVars, timerfd, reading, functors, alarm
  <2>3. TimerInv'
    BY <2>2, InvParts, QuietStep DEF Typed
  <2>4. lastActive' \in 0..now'
    BY <2>1, <2>2, InvParts
  <2>5. ASSUME state_ = "kConnected", ~(callback = {Idle})
        PROVE  status[Idle] = "set" /\ due[Idle] <= now + idleTimeout_
    <3>1. due[Idle] \in Nat /\ now \in Nat /\ idleTimeout_ \in Nat
      BY IdleAssumption, InvParts DEF Typed
    <3> QED BY <2>5, <3>1 DEF IdleInv, IdleCovered, Deadline
  <2>6. IdleCovered'
    BY <2>1, <2>2, <2>5 DEF IdleCovered, Deadline
  <2> QED BY <2>3, <2>4, <2>6 DEF IdleInv
<1>3. CASE handleClose
  <2>1. state_' = "kDisconnected" /\ UNCHANGED timerVars /\ lastActive' = lastActive
    BY <1>3 DEF handleClose
  <2>2. UNCHANGED <<now, timers_, expiry, stage, reported, expired, callback, queue, batch, status,
                    due>>
    BY <2>1 DEF timerVars, timerfd, reading, functors, alarm
  <2>3. TimerInv'
    BY <2>2, InvParts, QuietStep DEF Typed
  <2> QED BY <2>1, <2>2, <2>3 DEF IdleInv, IdleCovered
<1> QED BY <1>1, <1>2, <1>3 DEF Connection

-----------------------------------------------------------------------------
(* The theorems *)

LEMMA InitHolds ==
  ASSUME InitIdle
  PROVE  TimerInv /\ IdleInv
<1>1. << >> \in Seq(TimerRecord) /\ Len(<< >>) = 0 /\ DOMAIN << >> = {}
  BY EmptySeq
<1>2. Typed
  <2>1. timers_ \subseteq TimerRecord /\ IsFiniteSet(timers_)
    BY FS_EmptySet DEF InitIdle, Init
  <2>2. expired \in Seq(TimerRecord) /\ queue \in Seq(TimerRecord) /\ batch \in 0..Len(queue)
    BY <1>1 DEF InitIdle, Init
  <2>3. /\ status \in [Timers -> {"unset", "set", "fired"}]
        /\ due \in [Timers -> Nat]
    BY DEF InitIdle, Init
  <2>4. /\ now \in Nat /\ expiry \in Nat /\ stage \in Stages /\ reported \in BOOLEAN
        /\ callback \subseteq Timers /\ (callback # {} => stage = "expired")
    BY DEF InitIdle, Init, Stages
  <2> QED BY <2>1, <2>2, <2>3, <2>4 DEF Typed
<1>3. Records
  BY <1>1 DEF InitIdle, Init, Records, RecordsTell, RecordsDiffer, HasRecord
<1>4. TimerTypeOK
  BY <1>2, <1>3, TypeParts
<1>5. TimerfdCoversTop /\ RunInDueOrder /\ OnlyExpiredInHand
  BY <1>1 DEF InitIdle, Init, TimerfdCoversTop, Covered, RunInDueOrder, OnlyExpiredInHand
<1>6. IdleInv
  BY DEF InitIdle, Init, IdleInv, IdleCovered
<1> QED BY <1>4, <1>5, <1>6 DEF TimerInv

LEMMA StepKeeps ==
  ASSUME TimerInv, IdleInv, [Next]_vars
  PROVE  TimerInv' /\ IdleInv'
<1>1. CASE UNCHANGED vars
  <2>1. UNCHANGED <<now, timers_, expiry, stage, reported, expired, callback, queue, batch, status,
                    due, session>>
    BY <1>1 DEF vars, timerVars, timerfd, reading, functors, alarm
  <2>2. TimerInv'
    BY <2>1, InvParts, QuietStep DEF Typed
  <2> QED BY <2>1, <2>2, InvParts, ChainUntouched
<1> QED BY <1>1, OwnerRoundKeeps, OthersKeep, IdleCallbackKeeps, ConnectionKeeps DEF Next

(* One record for each timer that is set, a timerfd that covers the heap,   *)
(* callbacks in order and a client that is followed, in every state.        *)
THEOREM IdleInductive == SafeSpec => []IdleIInv
<1>1. InitIdle => IdleIInv
  BY InitHolds, InvSplit
<1>2. IdleIInv /\ [Next]_vars => IdleIInv'
  <2>1. TimerInv /\ IdleInv /\ [Next]_vars => TimerInv' /\ IdleInv'
    BY StepKeeps
  <2> QED BY <2>1, InvSplit, PTL
<1> QED BY <1>1, <1>2, PTL DEF SafeSpec

(* runAfter, the timerfd and handleRead never leave the earliest timer      *)
(* without an alarm, however adding, expiring and time interleave.          *)
THEOREM TopCovered == SafeSpec => []TimerfdCoversTop
<1>1. IdleIInv => TimerfdCoversTop
  BY DEF IdleIInv
<1> QED BY <1>1, IdleInductive, PTL

(* Every timer that is set has its one record, in timers_ or in the batch   *)
(* handleRead has taken out, and every variable keeps its type.             *)
THEOREM TimersTypeCorrect == SafeSpec => []TimerTypeOK
<1>1. IdleIInv => TimerTypeOK
  BY DEF IdleIInv
<1> QED BY <1>1, IdleInductive, PTL

(* Timers run in the order of their times, from the moment addTimer has put *)
(* them into the heap.  One still in a posted functor takes no part in it.  *)
THEOREM DueOrder == SafeSpec => []RunInDueOrder
<1>1. IdleIInv => RunInDueOrder
  BY DEF IdleIInv
<1> QED BY <1>1, IdleInductive, PTL

(* A connected client is always followed by its idle chain, in time. *)
THEOREM ClientFollowed == SafeSpec => []IdleCovered
<1>1. IdleIInv => IdleCovered
  BY DEF IdleIInv
<1> QED BY <1>1, IdleInductive, PTL

-----------------------------------------------------------------------------
(* The timers implement Alarm *)

LEMMA SetIsAlarmSet ==
  ASSUME TimerInv, NEW t \in Timers, NEW delay \in Nat, Sets(t, delay), now' = now
  PROVE  AL!Next
<1>1. now \in Nat /\ due \in [Timers -> Nat]
  BY InvParts DEF Typed
<1>2. /\ status[t] # "set" /\ status' = [status EXCEPT ![t] = "set"]
      /\ due' = [due EXCEPT ![t] = now + delay]
  BY DEF Sets
<1>3. due'[t] = now + delay /\ now + delay >= now
  BY <1>1, <1>2
<1>4. due' = [due EXCEPT ![t] = due'[t]]
  BY <1>2, <1>3
<1>5. AL!Set(t)
  BY <1>2, <1>3, <1>4 DEF AL!Set
<1> QED BY <1>5 DEF AL!Next

LEMMA AlarmOwnerRound ==
  ASSUME TimerInv, OwnerRound
  PROVE  AL!Next \/ UNCHANGED AL!vars
<1>1. CASE poll \/ handleRead \/ takeExpired \/ handleReadDone \/ doPendingFunctors
           \/ runFunctor \/ functorsDone
  BY <1>1 DEF poll, handleRead, takeExpired, handleReadDone, doPendingFunctors, runFunctor,
     functorsDone, alarm, AL!vars
<1>2. ASSUME NEW t \in Timers, callExpired(t)
      PROVE  AL!Next
  <2>1. /\ Head(expired).id = t /\ status' = [status EXCEPT ![t] = "fired"]
        /\ UNCHANGED <<now, due>>
    BY <1>2 DEF callExpired
  <2>2. Tells(Head(expired)) /\ Head(expired).when <= now
    BY <1>2, callExpiredKeeps
  <2>3. status[t] = "set" /\ due[t] <= now
    BY <2>1, <2>2 DEF Tells
  <2>4. AL!Fire(t)
    BY <2>1, <2>3 DEF AL!Fire
  <2> QED BY <2>4 DEF AL!Next
<1> QED BY <1>1, <1>2 DEF OwnerRound

LEMMA AlarmStep ==
  ASSUME TimerInv, IdleInv, [Next]_vars
  PROVE  [AL!Next]_(AL!vars)
<1>1. CASE UNCHANGED vars
  BY <1>1 DEF vars, timerVars, alarm, AL!vars
<1>2. CASE OwnerRound
  BY <1>2, AlarmOwnerRound
<1>3. CASE tick
  <2>1. now' > now /\ UNCHANGED <<status, due>>
    BY <1>3, InvParts DEF tick, alarm, Typed
  <2> QED BY <2>1 DEF AL!Next, AL!Tick
<1>4. CASE Others
  <2>1. PICK t \in Timers \ {Idle}, delay \in Delays :
          runAfterOwner(t, delay) \/ runAfterForeign(t, delay)
    BY <1>4 DEF Others
  <2>2. delay \in Nat /\ Sets(t, delay) /\ now' = now
    BY <2>1, DelayAssumption DEF runAfterOwner, runAfterForeign
  <2> QED BY <2>2, SetIsAlarmSet
<1>5. CASE IdleCallback
  <2>1. CASE idleStops \/ kick \/ otherReturns
    BY <2>1 DEF idleStops, kick, otherReturns, callbackReturns, alarm, AL!vars
  <2>2. CASE idleRenews
    <3>1. rest \in Nat /\ Sets(Idle, rest) /\ now' = now
      <4>1. now \in Nat /\ lastActive \in 0..now /\ idleTimeout_ \in Nat
        BY IdleAssumption, InvParts DEF Typed, IdleInv
      <4> QED BY <2>2, <4>1 DEF idleRenews, renew, armIdleTimer, rest
    <3> QED BY <3>1, IdleAssumption, SetIsAlarmSet
  <2> QED BY <1>5, <2>1, <2>2 DEF IdleCallback
<1>6. CASE Connection
  <2>1. CASE onConnection
    <3>1. idleTimeout_ \in Nat /\ Sets(Idle, idleTimeout_) /\ now' = now
      BY <2>1, IdleAssumption DEF onConnection, armIdleTimer
    <3> QED BY <3>1, IdleAssumption, SetIsAlarmSet
  <2>2. CASE onMessage \/ handleClose
    BY <2>2 DEF onMessage, handleClose, timerVars, alarm, AL!vars
  <2> QED BY <1>6, <2>1, <2>2 DEF Connection
<1> QED BY <1>1, <1>2, <1>3, <1>4, <1>5, <1>6 DEF Next

(* A timer is called once for each time it is set, and never early: the     *)
(* safety part of what runAfter promises, for any mix of timers.            *)
THEOREM AlarmOnceNotEarly == SafeSpec => AL!SafeSpec
<1>1. InitIdle => AL!Init
  BY DEF InitIdle, Init, AL!Init
<1>2. IdleIInv /\ [Next]_vars => [AL!Next]_(AL!vars)
  <2>1. TimerInv /\ IdleInv /\ [Next]_vars => [AL!Next]_(AL!vars)
    BY AlarmStep
  <2> QED BY <2>1, InvSplit
<1> QED BY <1>1, <1>2, IdleInductive, PTL DEF SafeSpec, AL!SafeSpec
=============================================================================
