------------------------------ MODULE TimerQueue ------------------------------
(***************************************************************************)
(* src/net/TimerQueue and EventLoop::runAfter: all timers of a loop behind *)
(* one timerfd, in the loop's rounds.  A clock tick is a microsecond, the  *)
(* least time resetTimerfd asks for.  Time may pass between any two steps, *)
(* and a step itself takes none: the clock that runAfter and resetTimerfd  *)
(* read within a step is one.                                              *)
(*                                                                         *)
(* In "events" the owner handles whatever channels were reported, the      *)
(* timerfd's among them and in any order; in "events", in a timer callback *)
(* and in "functors" its code may call runAfter, and other threads may at  *)
(* any time.  Rounds come of themselves, by other events or by a timeout.  *)
(* What a callback does is left to the module that extends this one.       *)
(***************************************************************************)
EXTENDS Naturals, Sequences, FiniteSets, SequencesExt

CONSTANTS Timers,      \* names for callbacks; one that has run may be set again
          Delays,      \* delays runAfter is called with
          MaxTime      \* time after which no timer is set

ASSUME DelayAssumption == Delays \subseteq Nat
ASSUME TimeAssumption == MaxTime \in Nat

VARIABLES
  now,         \* steady_clock, the timerfd's clock
  timers_,     \* the heap: set of [when, id]
  expiry,      \* when the timerfd becomes readable; 0 when disarmed or read
  stage,       \* owner: "poll", "events", "read", "expired" or "functors"
  reported,    \* the timerfd's channel is in activeChannels_
  expired,     \* handleRead's vector of the timers to run
  callback,    \* the set of the callback that is running
  queue,       \* addTimer functors pending in the loop
  batch,       \* how many of them doPendingFunctors swapped out
  status,      \* history: timer -> "unset", "set" or "fired"
  due          \* history: timer -> the time it was last set for

timerfd == <<timers_, expiry>>
reading == <<reported, expired, callback>>
functors == <<queue, batch>>
alarm == <<status, due>>
timerVars == <<now, timerfd, stage, reading, functors, alarm>>

TimerRecord == [when : Nat, id : Timers]

Init ==
  /\ now = 1
  /\ timers_ = {} /\ expiry = 0
  /\ stage = "poll"
  /\ reported = FALSE /\ expired = << >> /\ callback = {}
  /\ queue = << >> /\ batch = 0
  /\ status = [t \in Timers |-> "unset"] /\ due = [t \in Timers |-> 0]

-----------------------------------------------------------------------------
(* Time goes on until the last timer set has expired. *)
tick ==
  /\ now < MaxTime \/ expiry > now
  /\ now' = now + 1
  /\ UNCHANGED <<timerfd, stage, reading, functors, alarm>>

Readable == expiry # 0 /\ expiry <= now

resetTimerfdDisarms(when) == expiry' = IF when > now THEN when ELSE 0

(* A time already past is asked for as soon as possible: zero would disarm. *)
(* Setting the timerfd also clears an expiration not read yet.              *)
resetTimerfd(when) == expiry' = IF when > now THEN when ELSE now + 1

earliestOnlyFirst(when) == timers_ = {}

earliest(when) == \A t \in timers_ : when < t.when

addTimer(timer) ==
  /\ timers_' = timers_ \cup {timer}
  /\ IF earliest(timer.when) THEN resetTimerfd(timer.when) ELSE UNCHANGED expiry

-----------------------------------------------------------------------------
(* EventLoop::runAfter.  The time is fixed when it is called; the heap is   *)
(* left to the owner.                                                       *)

OwnerRuns == stage \in {"events", "functors"} \/ callback # {}

Sets(t, delay) ==
  /\ status[t] # "set"
  /\ status' = [status EXCEPT ![t] = "set"]
  /\ due' = [due EXCEPT ![t] = now + delay]

runAfterOwner(t, delay) ==
  /\ OwnerRuns
  /\ Sets(t, delay)
  /\ addTimer([when |-> now + delay, id |-> t])
  /\ UNCHANGED <<now, stage, reading, functors>>

runAfterForeign(t, delay) ==
  /\ Sets(t, delay)
  /\ queue' = Append(queue, [when |-> now + delay, id |-> t])
  /\ UNCHANGED <<now, timerfd, stage, reading, batch>>

-----------------------------------------------------------------------------
(* The owner's round *)

poll ==
  /\ stage = "poll"
  /\ stage' = "events"
  /\ reported' = Readable
  /\ UNCHANGED <<now, timerfd, expired, callback, functors, alarm>>

(* handleRead's ::read.  An addTimer since the poll may have re-armed the   *)
(* timerfd: the read then fails, and handleRead goes on all the same.       *)
handleRead ==
  /\ stage = "events"
  /\ reported
  /\ reported' = FALSE
  /\ expiry' = IF Readable THEN 0 ELSE expiry
  /\ stage' = "read"
  /\ UNCHANGED <<now, timers_, expired, callback, functors, alarm>>

byTimeAnyOrder(order) == TRUE

(* The heap yields the earliest first, and equals in any order. *)
byTime(order) == \A i, j \in DOMAIN order : i < j => order[i].when <= order[j].when

popNone(late) == timers_

pop(late) == timers_ \ late

takeExpired ==
  /\ stage = "read"
  /\ LET late == {t \in timers_ : t.when <= now}
     IN /\ expired' \in {order \in SetToSeqs(late) : byTime(order)}
        /\ timers_' = pop(late)
  /\ stage' = "expired"
  /\ UNCHANGED <<now, expiry, reported, callback, functors, alarm>>

callExpired(t) ==
  /\ stage = "expired" /\ callback = {}
  /\ expired # << >>
  /\ Head(expired).id = t
  /\ expired' = Tail(expired)
  /\ callback' = {t}
  /\ status' = [status EXCEPT ![t] = "fired"]
  /\ UNCHANGED <<now, timerfd, stage, reported, functors, due>>

callbackReturns ==
  /\ callback # {}
  /\ callback' = {}
  /\ UNCHANGED <<now, timerfd, stage, reported, expired, functors, alarm>>

Top == CHOOSE t \in timers_ : \A u \in timers_ : t.when <= u.when

rearmLost == UNCHANGED expiry

rearm == IF timers_ = {} THEN UNCHANGED expiry ELSE resetTimerfd(Top.when)

handleReadDone ==
  /\ stage = "expired" /\ callback = {}
  /\ expired = << >>
  /\ rearm
  /\ stage' = "events"
  /\ UNCHANGED <<now, timers_, reading, functors, alarm>>

doPendingFunctors ==
  /\ stage = "events"
  /\ ~reported
  /\ stage' = "functors"
  /\ batch' = Len(queue)
  /\ UNCHANGED <<now, timerfd, reading, queue, alarm>>

runFunctor ==
  /\ stage = "functors"
  /\ batch > 0
  /\ addTimer(Head(queue))
  /\ queue' = Tail(queue) /\ batch' = batch - 1
  /\ UNCHANGED <<now, stage, reading, alarm>>

functorsDone ==
  /\ stage = "functors"
  /\ batch = 0
  /\ stage' = "poll"
  /\ UNCHANGED <<now, timerfd, reading, functors, alarm>>

OwnerRound ==
  \/ poll \/ handleRead \/ takeExpired \/ (\E t \in Timers : callExpired(t)) \/ handleReadDone
  \/ doPendingFunctors \/ runFunctor \/ functorsDone

-----------------------------------------------------------------------------
(* Properties *)

(* A record, wherever it is, is of a timer that is set, for that time. *)
Tells(record) == status[record.id] = "set" /\ due[record.id] = record.when

RecordsTell ==
  /\ \A t \in timers_ : Tells(t)
  /\ \A i \in DOMAIN expired : Tells(expired[i])
  /\ \A i \in DOMAIN queue : Tells(queue[i])

(* No two records are of the same timer. *)
RecordsDiffer ==
  /\ \A i, j \in DOMAIN expired : expired[i].id = expired[j].id => i = j
  /\ \A i, j \in DOMAIN queue : queue[i].id = queue[j].id => i = j
  /\ \A i \in DOMAIN expired, j \in DOMAIN queue : expired[i].id # queue[j].id
  /\ \A t \in timers_, i \in DOMAIN expired : expired[i].id # t.id
  /\ \A t \in timers_, i \in DOMAIN queue : queue[i].id # t.id

HasRecord(t) == \/ \E u \in timers_ : u.id = t
                \/ \E i \in DOMAIN expired : expired[i].id = t
                \/ \E i \in DOMAIN queue : queue[i].id = t

(* A timer that is set has one record, in the heap or on its way. *)
TimerTypeOK ==
  /\ now \in Nat /\ expiry \in Nat
  /\ timers_ \subseteq TimerRecord /\ IsFiniteSet(timers_)
  /\ stage \in {"poll", "events", "read", "expired", "functors"}
  /\ reported \in BOOLEAN
  /\ expired \in Seq(TimerRecord) /\ queue \in Seq(TimerRecord)
  /\ callback \subseteq Timers /\ (callback # {} => stage = "expired")
  /\ batch \in 0..Len(queue)
  /\ status \in [Timers -> {"unset", "set", "fired"}]
  /\ due \in [Timers -> Nat]
  /\ RecordsTell /\ RecordsDiffer
  /\ \A t \in Timers : status[t] = "set" => HasRecord(t)

(* Outside handleRead the timerfd always points at the earliest timer, or   *)
(* sooner, whoever added or ran what in the meantime; at one past due it    *)
(* points at once.                                                          *)
Covered == \A t \in timers_ : expiry # 0 /\ (expiry <= t.when \/ expiry <= now + 1)

TimerfdCoversTop == stage \notin {"read", "expired"} => Covered

(* Callbacks run in the order of their times: none still in the heap is     *)
(* earlier than one that is about to run, not even one a callback has added *)
(* meanwhile.  One that another thread has posted is not in the heap yet.   *)
RunInDueOrder ==
  /\ \A i, j \in DOMAIN expired : i < j => expired[i].when <= expired[j].when
  /\ \A i \in DOMAIN expired, t \in timers_ : expired[i].when <= t.when

(* The inductive strengthening of these: only handleRead has expired timers *)
(* in hand, and they are expired.                                           *)
OnlyExpiredInHand ==
  /\ stage # "expired" => expired = << >>
  /\ \A i \in DOMAIN expired : expired[i].when <= now

(* runAfter keeps Alarm's promises: once, not early, not never. *)
AL == INSTANCE Alarm WITH clock <- now
ImplementsAlarm == AL!Spec
=============================================================================
