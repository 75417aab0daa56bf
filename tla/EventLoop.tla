------------------------------ MODULE EventLoop ------------------------------
(***************************************************************************)
(* src/net/EventLoop: one thread's poll / dispatch / run-pending cycle and *)
(* the only door other threads may use, queueInLoop + eventfd wakeup.      *)
(*                                                                         *)
(* The owner thread's cycle is cut where other threads can interleave:     *)
(* around the `while (!quit_)' test, epoll_wait, each event callback, the  *)
(* locked swap, and each functor.  queueInLoop is cut between the locked   *)
(* push_back and the write to the eventfd; quit between the store to quit_ *)
(* and that write.                                                         *)
(***************************************************************************)
EXTENDS Naturals, Sequences, FiniteSets

CONSTANTS Owner,         \* the thread that created the loop and calls loop()
          Foreign,       \* the other threads that use it
          Tasks,         \* functors; each is handed to the loop at most once
          Channels,      \* io channels of the loop other than wakeupChannel_
          InitialEvents, \* events_.size() of a new EPollPoller
          PollTimeouts   \* TRUE iff epoll_wait may return with no event: the
                         \* 10 s timeout or EINTR.  FALSE isolates what the
                         \* wakeups achieve without the timeout's help.

WakeupChannel == "wakeupChannel_"

ASSUME ThreadAssumption == Owner \notin Foreign
ASSUME ChannelAssumption == WakeupChannel \notin Channels
ASSUME EventsAssumption == InitialEvents \in Nat \ {0}
ASSUME TimeoutAssumption == PollTimeouts \in BOOLEAN

Threads == Foreign \cup {Owner}

VARIABLES
  phase,                   \* where the owner is in EventLoop::loop()
  quit_,                   \* atomic<bool>
  events_,                 \* size of EPollPoller::events_
  activeChannels_,         \* ready channels of this round not yet handled
  inCallback,              \* owner is inside an io callback or a functor
  pendingFunctors_,        \* guarded by mutex_
  functors,                \* the batch swapped out by doPendingFunctors
  callingPendingFunctors_, \* atomic<bool>
  wakeups,                 \* counter of the eventfd wakeupFd_
  pc,                      \* thread -> "wake": its wakeup() is still to come
  posted,                  \* history: functors in queueInLoop order
  ran,                     \* history: queued functors in the order they ran
  inlined                  \* history: functors runInLoop called directly

vars == <<phase, quit_, events_, activeChannels_, inCallback, pendingFunctors_, functors,
          callingPendingFunctors_, wakeups, pc, posted, ran, inlined>>

cycle == <<phase, events_, activeChannels_, inCallback>>
history == <<posted, ran, inlined>>

Phases == {"before", "test", "poll", "events", "functors", "exited"}

TypeOK ==
  /\ phase \in Phases
  /\ quit_ \in BOOLEAN
  /\ events_ \in Nat \ {0}
  /\ activeChannels_ \in SUBSET (Channels \cup {WakeupChannel})
  /\ inCallback \in BOOLEAN
  /\ pendingFunctors_ \in Seq(Tasks)
  /\ functors \in Seq(Tasks)
  /\ callingPendingFunctors_ \in BOOLEAN
  /\ callingPendingFunctors_ <=> phase = "functors"
  /\ wakeups \in Nat
  /\ pc \in [Threads -> {"idle", "wake"}]
  /\ posted \in Seq(Tasks)
  /\ ran \in Seq(Tasks)
  /\ inlined \in SUBSET Tasks

Init ==
  /\ phase = "before"
  /\ quit_ = FALSE
  /\ events_ = InitialEvents
  /\ activeChannels_ = {}
  /\ inCallback = FALSE
  /\ pendingFunctors_ = << >>
  /\ functors = << >>
  /\ callingPendingFunctors_ = FALSE
  /\ wakeups = 0
  /\ pc = [th \in Threads |-> "idle"]
  /\ posted = << >>
  /\ ran = << >>
  /\ inlined = {}

-----------------------------------------------------------------------------
(* Calls any thread may make.  The owner makes them from a callback (and    *)
(* TcpServer::start() calls runInLoop before loop()); a foreign thread      *)
(* whenever it is not inside an earlier call.                               *)

CanCall(th) == pc[th] = "idle" /\ (th = Owner => inCallback)

Fresh(t) == /\ t \notin inlined
            /\ \A i \in 1..Len(posted) : posted[i] # t

isInLoopThread(th) == th = Owner

NeedsWakeupForeignOnly(th) == ~isInLoopThread(th)

NeedsWakeup(th) == ~isInLoopThread(th) \/ callingPendingFunctors_

(* push_back under mutex_; the wakeup() that may follow is Wakeup(th). *)
queueInLoop(th, t) ==
  /\ CanCall(th)
  /\ Fresh(t)
  /\ pendingFunctors_' = Append(pendingFunctors_, t)
  /\ posted' = Append(posted, t)
  /\ pc' = [pc EXCEPT ![th] = IF NeedsWakeup(th) THEN "wake" ELSE "idle"]
  /\ UNCHANGED <<cycle, quit_, functors, callingPendingFunctors_, wakeups, ran, inlined>>

(* runInLoop on the owner thread calls cb() at once, ahead of everything    *)
(* queued; on another thread it is queueInLoop.                             *)
runInLoop(th, t) ==
  \/ /\ isInLoopThread(th)
     /\ CanCall(th) \/ phase = "before"
     /\ Fresh(t)
     /\ inlined' = inlined \cup {t}
     /\ UNCHANGED <<cycle, quit_, pendingFunctors_, functors, callingPendingFunctors_,
                    wakeups, pc, posted, ran>>
  \/ /\ ~isInLoopThread(th)
     /\ queueInLoop(th, t)

quitNoWakeup(th) ==
  /\ CanCall(th)
  /\ ~quit_
  /\ quit_' = TRUE
  /\ UNCHANGED <<cycle, pendingFunctors_, functors, callingPendingFunctors_, wakeups, pc, history>>

(* quit_ = true; a foreign caller's wakeup() is still to come. *)
SetQuit(th) ==
  /\ quit_' = TRUE
  /\ pc' = [pc EXCEPT ![th] = IF isInLoopThread(th) THEN "idle" ELSE "wake"]
  /\ UNCHANGED <<cycle, pendingFunctors_, functors, callingPendingFunctors_, wakeups, history>>

(* A second quit() before the first is seen changes nothing but the eventfd *)
(* counter; the guard ~quit_ bounds that counter.                           *)
quit(th) ==
  /\ CanCall(th)
  /\ ~quit_
  /\ SetQuit(th)

wakeup(th) ==
  /\ pc[th] = "wake"
  /\ wakeups' = wakeups + 1
  /\ pc' = [pc EXCEPT ![th] = "idle"]
  /\ UNCHANGED <<cycle, quit_, pendingFunctors_, functors, callingPendingFunctors_, history>>

-----------------------------------------------------------------------------
(* The owner's cycle, EventLoop::loop() *)

(* quit_ = false on entry. *)
loop ==
  /\ phase = "before"
  /\ phase' = "test"
  /\ quit_' = FALSE
  /\ UNCHANGED <<events_, activeChannels_, inCallback, pendingFunctors_, functors,
                 callingPendingFunctors_, wakeups, pc, history>>

(* while (!quit_) { activeChannels_.clear(); *)
TestQuit ==
  /\ phase = "test"
  /\ phase' = IF quit_ THEN "exited" ELSE "poll"
  /\ activeChannels_' = {}
  /\ UNCHANGED <<events_, quit_, inCallback, pendingFunctors_, functors,
                 callingPendingFunctors_, wakeups, pc, history>>

(* epoll_wait fills events_ with ready channels: any of the io channels, and *)
(* as long as the eventfd counter is not zero wakeupChannel_ too, unless    *)
(* others leave no room.  An array that was full is doubled.                *)
poll ==
  /\ phase = "poll"
  /\ \E ready \in SUBSET (Channels \cup {WakeupChannel}) :
       /\ ready = {} => PollTimeouts
       /\ Cardinality(ready) <= events_
       /\ WakeupChannel \in ready => wakeups > 0
       /\ WakeupChannel \notin ready => wakeups = 0 \/ Cardinality(ready) = events_
       /\ events_' = IF Cardinality(ready) = events_ THEN 2 * events_ ELSE events_
       /\ activeChannels_' = ready
  /\ phase' = "events"
  /\ UNCHANGED <<quit_, inCallback, pendingFunctors_, functors, callingPendingFunctors_,
                 wakeups, pc, history>>

Dispatchable(ch) == phase = "events" /\ ~inCallback /\ ch \in activeChannels_

handleWakeupNoRead ==
  /\ Dispatchable(WakeupChannel)
  /\ activeChannels_' = activeChannels_ \ {WakeupChannel}
  /\ UNCHANGED <<events_, phase, quit_, inCallback, pendingFunctors_, functors,
                 callingPendingFunctors_, wakeups, pc, history>>

(* One read of an eventfd returns the whole counter and resets it. *)
handleWakeup ==
  /\ Dispatchable(WakeupChannel)
  /\ activeChannels_' = activeChannels_ \ {WakeupChannel}
  /\ wakeups' = 0
  /\ UNCHANGED <<events_, phase, quit_, inCallback, pendingFunctors_, functors,
                 callingPendingFunctors_, pc, history>>

(* ch->handleEvent() for an io channel: enters user code. *)
handleEvent(ch) ==
  /\ Dispatchable(ch)
  /\ activeChannels_' = activeChannels_ \ {ch}
  /\ inCallback' = TRUE
  /\ UNCHANGED <<events_, phase, quit_, pendingFunctors_, functors, callingPendingFunctors_,
                 wakeups, pc, history>>

(* The io callback or functor returns. *)
CallbackReturns ==
  /\ inCallback
  /\ pc[Owner] = "idle"
  /\ inCallback' = FALSE
  /\ UNCHANGED <<events_, phase, activeChannels_, quit_, pendingFunctors_, functors,
                 callingPendingFunctors_, wakeups, pc, history>>

DoPendingPhase == /\ phase = "events"
                  /\ activeChannels_ = {}
                  /\ ~inCallback

doPendingFunctorsNoSwap ==
  /\ DoPendingPhase
  /\ phase' = "functors"
  /\ callingPendingFunctors_' = TRUE
  /\ functors' = pendingFunctors_
  /\ UNCHANGED <<events_, activeChannels_, inCallback, quit_, pendingFunctors_, wakeups,
                 pc, history>>

(* callingPendingFunctors_ = true; functors.swap(pendingFunctors_) under    *)
(* the lock.  Nobody but the owner reads the flag, so the two are one step. *)
doPendingFunctors ==
  /\ DoPendingPhase
  /\ phase' = "functors"
  /\ callingPendingFunctors_' = TRUE
  /\ functors' = pendingFunctors_
  /\ pendingFunctors_' = << >>
  /\ UNCHANGED <<events_, activeChannels_, inCallback, quit_, wakeups, pc, history>>

(* for (auto& f : functors) f(); *)
RunFunctor ==
  /\ phase = "functors"
  /\ ~inCallback
  /\ functors # << >>
  /\ functors' = Tail(functors)
  /\ ran' = Append(ran, Head(functors))
  /\ inCallback' = TRUE
  /\ UNCHANGED <<events_, phase, activeChannels_, quit_, pendingFunctors_,
                 callingPendingFunctors_, wakeups, pc, posted, inlined>>

(* callingPendingFunctors_ = false; back to the loop test. *)
FunctorsDone ==
  /\ phase = "functors"
  /\ ~inCallback
  /\ functors = << >>
  /\ phase' = "test"
  /\ callingPendingFunctors_' = FALSE
  /\ UNCHANGED <<events_, activeChannels_, inCallback, quit_, pendingFunctors_, functors,
                 wakeups, pc, history>>

-----------------------------------------------------------------------------
(* After the loop has exited and every call has returned, nothing is left   *)
(* to do: the program may stop.                                             *)
OwnerCycle ==
  \/ loop \/ TestQuit \/ poll
  \/ handleWakeup \/ (\E ch \in Channels : handleEvent(ch)) \/ CallbackReturns
  \/ doPendingFunctors \/ RunFunctor \/ FunctorsDone

Calls == \E th \in Threads :
           \/ \E t \in Tasks : queueInLoop(th, t) \/ runInLoop(th, t)
           \/ quit(th)
           \/ wakeup(th)

Next == OwnerCycle \/ Calls

(* The owner keeps running its own code, and a thread that has pushed a     *)
(* functor goes on to its wakeup().  epoll_wait is only sure to return when *)
(* the eventfd is readable, or by its timeout; io readiness, posting and    *)
(* quitting are the environment's choice and get no fairness.               *)
Fairness ==
  /\ WF_vars(loop) /\ WF_vars(TestQuit)
  /\ WF_vars((wakeups > 0 \/ PollTimeouts) /\ poll)
  /\ WF_vars(handleWakeup) /\ (\A ch \in Channels : WF_vars(handleEvent(ch)))
  /\ WF_vars(CallbackReturns)
  /\ WF_vars(doPendingFunctors) /\ WF_vars(RunFunctor) /\ WF_vars(FunctorsDone)
  /\ \A th \in Threads : WF_vars(wakeup(th))

SafeSpec == Init /\ [][Next]_vars
Spec == SafeSpec /\ Fairness

-----------------------------------------------------------------------------
(* Properties *)

(* A wakeup has been written to the eventfd, or a thread is about to write  *)
(* one.                                                                     *)
WakeupComing == wakeups > 0 \/ \E th \in Threads : pc[th] = "wake"

(* The owner never blocks in epoll_wait on work it has not been told of:    *)
(* when it is about to poll with functors queued or quit_ set, the poll is  *)
(* going to be interrupted.  This is what the two wakeup cases named in     *)
(* queueInLoop, the wakeup in quit(), and handling events BEFORE pending    *)
(* functors achieve together.                                               *)
NoLostWakeup ==
  phase = "poll" /\ (pendingFunctors_ # << >> \/ quit_) => WakeupComing

(* Functors run exactly once and in queueing order: what has run, what is   *)
(* in the swapped-out batch and what is still pending make up, in this      *)
(* order, everything ever queued.                                           *)
RunsInOrder == ran \o functors \o pendingFunctors_ = posted

-----------------------------------------------------------------------------
(* The inductive strengthening of the two invariants above.                 *)

BatchOnlyInPhase == phase # "functors" => functors = << >>

CallbackPhases == inCallback => phase \in {"events", "functors"}

PendingWakes ==
  phase \in {"before", "functors", "test", "poll"} /\ pendingFunctors_ # << >>
    => WakeupComing

QuitWakes == phase = "poll" /\ quit_ => WakeupComing

(* User code runs only while events or functors are being processed, and    *)
(* the obligation to wake the loop for a queued functor already holds in    *)
(* every phase from which the owner reaches epoll_wait without swapping the *)
(* list first, not only at epoll_wait itself.                               *)
IInv ==
  /\ TypeOK
  /\ BatchOnlyInPhase
  /\ CallbackPhases
  /\ PendingWakes
  /\ QuitWakes
  /\ RunsInOrder

-----------------------------------------------------------------------------
(* Everything queueInLoop promises its callers, including that no functor   *)
(* is stranded behind a blocked epoll_wait.                                 *)
TQ == INSTANCE TaskQueue WITH stopped <- (phase = "exited")
ImplementsTaskQueue == TQ!Spec

(* quit() from any thread stops a loop that has entered loop(). *)
QuitStops == (quit_ /\ phase # "before") ~> (phase = "exited")

(* The eventfd is level-triggered, so an unread counter would make the loop *)
(* spin; once callers fall silent the counter returns to zero and stays.    *)
WakeupsDrain == <>[](wakeups = 0 \/ phase = "exited")
=============================================================================
