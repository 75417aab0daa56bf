--------------------------- MODULE EventLoopProofs ---------------------------
(***************************************************************************)
(* Machine-checked proofs about EventLoop, for any set of foreign threads, *)
(* any functors and any number of io channels.                             *)
(*                                                                         *)
(* Neither NoLostWakeup nor RunsInOrder is inductive by itself.  IInv adds *)
(* what the argument needs to know of the owner's cycle.                   *)
(*                                                                         *)
(* The last part is about EventLoopThread, whose steps are steps of the    *)
(* loop; its assumption about the controller is used nowhere else.         *)
(***************************************************************************)
EXTENDS EventLoopThread, SequenceLemmas

-----------------------------------------------------------------------------
(* Facts about sequences the steps rest on. *)

(* Appending to the last part of a concatenation appends to the whole. *)
LEMMA AppendToConcat ==
  ASSUME NEW S, NEW a \in Seq(S), NEW b \in Seq(S), NEW c \in Seq(S), NEW e \in S
  PROVE  a \o b \o Append(c, e) = Append(a \o b \o c, e)
<1>1. a \o b \in Seq(S) /\ a \o b \o c \in Seq(S)
  BY ConcatProperties
<1>2. << e >> \in Seq(S)
  OBVIOUS
<1>3. Append(c, e) = c \o << e >>
  BY AppendIsConcat
<1>4. Append(a \o b \o c, e) = (a \o b \o c) \o << e >>
  BY <1>1, AppendIsConcat
<1>5. (a \o b \o c) \o << e >> = (a \o b) \o (c \o << e >>)
  BY <1>1, <1>2, ConcatAssociative
<1> QED BY <1>3, <1>4, <1>5

-----------------------------------------------------------------------------
LEMMA InitIInv == Init => IInv
<1> SUFFICES ASSUME Init PROVE IInv
  OBVIOUS
<1>1. TypeOK
  <2>1. << >> \in Seq(Tasks)
    BY EmptySeq
  <2>2. [th \in Threads |-> "idle"] \in [Threads -> {"idle", "wake"}]
    OBVIOUS
  <2> QED BY <2>1, <2>2, EventsAssumption DEF Init, TypeOK, Phases
<1>2. RunsInOrder
  BY DEF Init, RunsInOrder
<1> QED
  BY <1>1, <1>2 DEF Init, IInv, BatchOnlyInPhase, CallbackPhases,
                    PendingWakes, QuitWakes

LEMMA TypeStep == TypeOK /\ [Next]_vars => TypeOK'
<1> SUFFICES ASSUME TypeOK, [Next]_vars PROVE TypeOK'
  OBVIOUS
<1> USE DEF TypeOK, Phases, cycle, history
<1>1. ASSUME NEW th \in Threads, NEW t \in Tasks, queueInLoop(th, t) PROVE TypeOK'
  <2>1. /\ pendingFunctors_' \in Seq(Tasks)
        /\ posted' \in Seq(Tasks)
    BY <1>1, AppendProperties DEF queueInLoop
  <2>2. pc' \in [Threads -> {"idle", "wake"}]
    BY <1>1 DEF queueInLoop
  <2> QED BY <1>1, <2>1, <2>2 DEF queueInLoop
<1>2. ASSUME NEW th \in Threads, NEW t \in Tasks, runInLoop(th, t) PROVE TypeOK'
  <2>1. CASE queueInLoop(th, t) BY <2>1, <1>1
  <2>2. CASE ~queueInLoop(th, t) BY <2>2, <1>2 DEF runInLoop
  <2> QED BY <2>1, <2>2
<1>3. ASSUME NEW th \in Threads, quit(th) PROVE TypeOK'
  BY <1>3 DEF quit, SetQuit
<1>4. ASSUME NEW th \in Threads, wakeup(th) PROVE TypeOK'
  BY <1>4 DEF wakeup
<1>5. CASE loop BY <1>5 DEF loop
<1>6. CASE TestQuit BY <1>6 DEF TestQuit
<1>7. CASE poll BY <1>7 DEF poll
<1>8. CASE handleWakeup BY <1>8 DEF handleWakeup
<1>9. ASSUME NEW ch \in Channels, handleEvent(ch) PROVE TypeOK'
  BY <1>9 DEF handleEvent
<1>10. CASE CallbackReturns BY <1>10 DEF CallbackReturns
<1>11. CASE doPendingFunctors BY <1>11 DEF doPendingFunctors
<1>12. CASE RunFunctor
  <2>1. functors # << >> BY <1>12 DEF RunFunctor
  <2>2. Head(functors) \in Tasks /\ Tail(functors) \in Seq(Tasks)
    BY <2>1, HeadTailProperties
  <2>3. Append(ran, Head(functors)) \in Seq(Tasks)
    BY <2>2, AppendProperties
  <2> QED BY <1>12, <2>2, <2>3 DEF RunFunctor
<1>13. CASE FunctorsDone BY <1>13 DEF FunctorsDone
<1>14. CASE UNCHANGED vars BY <1>14 DEF vars
<1> QED
  BY <1>1, <1>2, <1>3, <1>4, <1>5, <1>6, <1>7, <1>8, <1>9, <1>10, <1>11, <1>12,
     <1>13, <1>14 DEF Next, OwnerCycle, Calls

(* What a thread about to wake the loop, or an eventfd count, is worth      *)
(* after a step that only adds to either.                                   *)
LEMMA WakeStays ==
  ASSUME TypeOK, WakeupComing, wakeups' = wakeups, pc' = pc
  PROVE  WakeupComing'
BY DEF WakeupComing

LEMMA OrderStep == IInv /\ [Next]_vars => RunsInOrder'
<1> SUFFICES ASSUME IInv, [Next]_vars PROVE RunsInOrder'
  OBVIOUS
<1>0. /\ RunsInOrder
      /\ ran \in Seq(Tasks) /\ functors \in Seq(Tasks)
      /\ pendingFunctors_ \in Seq(Tasks) /\ posted \in Seq(Tasks)
  BY DEF IInv, TypeOK
<1> DEFINE seqs == <<ran, functors, pendingFunctors_, posted>>
<1>1. CASE UNCHANGED seqs
  BY <1>0, <1>1 DEF RunsInOrder
<1>2. ASSUME NEW th \in Threads, NEW t \in Tasks, queueInLoop(th, t) PROVE RunsInOrder'
  <2>1. /\ ran' = ran /\ functors' = functors
        /\ pendingFunctors_' = Append(pendingFunctors_, t)
        /\ posted' = Append(posted, t)
    BY <1>2 DEF queueInLoop
  <2>2. ran \o functors \o Append(pendingFunctors_, t)
          = Append(ran \o functors \o pendingFunctors_, t)
    BY <1>0, AppendToConcat
  <2> QED BY <1>0, <2>1, <2>2 DEF RunsInOrder
<1>3. CASE doPendingFunctors
  <2>1. functors = << >>
    BY <1>3 DEF doPendingFunctors, DoPendingPhase, IInv, BatchOnlyInPhase
  <2>2. /\ ran' = ran /\ posted' = posted
        /\ functors' = pendingFunctors_ /\ pendingFunctors_' = << >>
    BY <1>3 DEF doPendingFunctors, history
  <2>3. ran \o << >> = ran
    BY <1>0, ConcatEmptySeq
  <2>4. ran \o pendingFunctors_ \in Seq(Tasks)
    BY <1>0, ConcatProperties
  <2>5. (ran \o pendingFunctors_) \o << >> = ran \o pendingFunctors_
    BY <2>4, ConcatEmptySeq
  <2> QED BY <1>0, <2>1, <2>2, <2>3, <2>5 DEF RunsInOrder
<1>4. CASE RunFunctor
  <2>1. /\ functors # << >>
        /\ functors' = Tail(functors)
        /\ ran' = Append(ran, Head(functors))
        /\ pendingFunctors_' = pendingFunctors_ /\ posted' = posted
    BY <1>4 DEF RunFunctor
  <2>2. Append(ran, Head(functors)) \o Tail(functors) = ran \o functors
    BY <1>0, <2>1, MoveHead
  <2> QED BY <1>0, <2>1, <2>2 DEF RunsInOrder
<1> QED
  <2>1. ASSUME NEW th \in Threads, NEW t \in Tasks, runInLoop(th, t) PROVE RunsInOrder'
    BY <2>1, <1>1, <1>2 DEF runInLoop
  <2>2. ASSUME NEW th \in Threads, quit(th) PROVE UNCHANGED seqs
    BY <2>2 DEF quit, SetQuit, history
  <2>3. ASSUME NEW th \in Threads, wakeup(th) PROVE UNCHANGED seqs
    BY <2>3 DEF wakeup, history
  <2>4. CASE loop BY <2>4, <1>1 DEF loop, history
  <2>5. CASE TestQuit BY <2>5, <1>1 DEF TestQuit, history
  <2>6. CASE poll BY <2>6, <1>1 DEF poll, history
  <2>7. CASE handleWakeup BY <2>7, <1>1 DEF handleWakeup, history
  <2>8. ASSUME NEW ch \in Channels, handleEvent(ch) PROVE UNCHANGED seqs
    BY <2>8 DEF handleEvent, history
  <2>9. CASE CallbackReturns BY <2>9, <1>1 DEF CallbackReturns, history
  <2>10. CASE FunctorsDone BY <2>10, <1>1 DEF FunctorsDone, history
  <2>11. CASE UNCHANGED vars BY <2>11, <1>1 DEF vars
  <2> QED
    BY <1>1, <1>2, <1>3, <1>4, <2>1, <2>2, <2>3, <2>4, <2>5, <2>6, <2>7, <2>8, <2>9,
       <2>10, <2>11 DEF Next, OwnerCycle, Calls

(* The conjuncts of IInv about the owner's cycle and the wakeups. *)
CycleInv == BatchOnlyInPhase /\ CallbackPhases /\ PendingWakes /\ QuitWakes

LEMMA CycleStep == IInv /\ [Next]_vars => CycleInv'
<1> SUFFICES ASSUME IInv, [Next]_vars PROVE CycleInv'
  OBVIOUS
<1> USE DEF IInv, CycleInv, BatchOnlyInPhase, CallbackPhases,
            PendingWakes, QuitWakes, TypeOK, cycle, history
<1>1. ASSUME NEW th \in Threads, NEW t \in Tasks, queueInLoop(th, t) PROVE CycleInv'
  <2>1. ASSUME phase \in {"before", "functors", "test", "poll"} PROVE pc'[th] = "wake"
    BY <1>1, <2>1 DEF queueInLoop, CanCall, NeedsWakeup, isInLoopThread
  <2>2. phase \in {"before", "functors", "test", "poll"} => WakeupComing'
    BY <2>1 DEF WakeupComing
  <2> QED BY <1>1, <2>2 DEF queueInLoop
<1>2. ASSUME NEW th \in Threads, NEW t \in Tasks, runInLoop(th, t) PROVE CycleInv'
  <2>1. CASE queueInLoop(th, t) BY <2>1, <1>1
  <2>2. CASE ~queueInLoop(th, t) BY <2>2, <1>2, WakeStays DEF runInLoop
  <2> QED BY <2>1, <2>2
<1>3. ASSUME NEW th \in Threads, quit(th) PROVE CycleInv'
  <2>1. ASSUME phase = "poll" PROVE pc'[th] = "wake"
    BY <1>3, <2>1 DEF quit, SetQuit, CanCall, isInLoopThread
  <2>2. phase = "poll" => WakeupComing'
    BY <2>1 DEF WakeupComing
  <2>3. WakeupComing => WakeupComing'
    BY <1>3 DEF quit, SetQuit, CanCall, WakeupComing
  <2> QED BY <1>3, <2>2, <2>3 DEF quit, SetQuit
<1>4. ASSUME NEW th \in Threads, wakeup(th) PROVE CycleInv'
  <2>1. WakeupComing'
    BY <1>4 DEF wakeup, WakeupComing
  <2> QED BY <1>4, <2>1 DEF wakeup
<1>5. CASE loop BY <1>5, WakeStays DEF loop
<1>6. CASE TestQuit BY <1>6, WakeStays DEF TestQuit
<1>7. CASE poll BY <1>7 DEF poll
<1>8. CASE handleWakeup BY <1>8 DEF handleWakeup, Dispatchable
<1>9. ASSUME NEW ch \in Channels, handleEvent(ch) PROVE CycleInv'
  BY <1>9 DEF handleEvent, Dispatchable
<1>10. CASE CallbackReturns BY <1>10, WakeStays DEF CallbackReturns
<1>11. CASE doPendingFunctors BY <1>11 DEF doPendingFunctors, DoPendingPhase
<1>12. CASE RunFunctor BY <1>12, WakeStays DEF RunFunctor
<1>13. CASE FunctorsDone BY <1>13, WakeStays DEF FunctorsDone
<1>14. CASE UNCHANGED vars BY <1>14, WakeStays DEF vars
<1> QED
  BY <1>1, <1>2, <1>3, <1>4, <1>5, <1>6, <1>7, <1>8, <1>9, <1>10, <1>11, <1>12,
     <1>13, <1>14 DEF Next, OwnerCycle, Calls

-----------------------------------------------------------------------------
LEMMA IInvStep == IInv /\ [Next]_vars => IInv'
<1> SUFFICES ASSUME IInv, [Next]_vars PROVE IInv'
  OBVIOUS
<1>1. TypeOK' BY TypeStep DEF IInv
<1>2. RunsInOrder' BY OrderStep
<1>3. CycleInv' BY CycleStep
<1> QED BY <1>1, <1>2, <1>3 DEF IInv, CycleInv

(* IInv holds in every reachable state: EventLoop's variables keep their    *)
(* types, and the strengthening above is inductive.                         *)
THEOREM Inductive == SafeSpec => []IInv
BY InitIInv, IInvStep, PTL DEF SafeSpec

(* Every variable of EventLoop keeps its type. *)
THEOREM TypeCorrect == SafeSpec => []TypeOK
<1>1. IInv => TypeOK BY DEF IInv
<1> QED BY <1>1, Inductive, PTL

(* The owner never enters epoll_wait with work it has not been, or is not   *)
(* about to be, woken for: EventLoop::queueInLoop and EventLoop::quit.      *)
THEOREM NoWakeupIsLost == SafeSpec => []NoLostWakeup
<1>1. IInv => NoLostWakeup
  BY DEF IInv, NoLostWakeup, PendingWakes, QuitWakes
<1> QED BY <1>1, Inductive, PTL

(* Functors run exactly once, in the order queueInLoop took them:           *)
(* EventLoop::doPendingFunctors.                                            *)
THEOREM FunctorsRunInOrder == SafeSpec => []RunsInOrder
<1>1. IInv => RunsInOrder BY DEF IInv
<1> QED BY <1>1, Inductive, PTL

(* Every step of the loop is a step of the task queue it promises, or       *)
(* leaves that queue alone.                                                 *)
LEMMA StepRefines == IInv /\ [Next]_vars => [TQ!Next]_(TQ!vars)
<1> SUFFICES ASSUME IInv, [Next]_vars PROVE [TQ!Next]_(TQ!vars)
  OBVIOUS
<1> USE DEF cycle, history, TQ!vars
<1>1. ASSUME NEW th \in Threads, NEW t \in Tasks, queueInLoop(th, t)
      PROVE [TQ!Next]_(TQ!vars)
  <2>1. TQ!Post(t) BY <1>1 DEF queueInLoop, TQ!Post
  <2> QED BY <2>1 DEF TQ!Next
<1>2. ASSUME NEW th \in Threads, NEW t \in Tasks, runInLoop(th, t)
      PROVE [TQ!Next]_(TQ!vars)
  BY <1>1, <1>2 DEF runInLoop
<1>3. CASE TestQuit
  <2>1. CASE quit_
    <3>1. TQ!Stop BY <1>3, <2>1 DEF TestQuit, TQ!Stop
    <3> QED BY <3>1 DEF TQ!Next
  <2>2. CASE ~quit_ BY <1>3, <2>2 DEF TestQuit
  <2> QED BY <2>1, <2>2
<1>4. CASE RunFunctor
  <2>0. /\ ran \in Seq(Tasks) /\ functors \in Seq(Tasks)
        /\ pendingFunctors_ \in Seq(Tasks) /\ posted \in Seq(Tasks)
        /\ functors # << >>
        /\ posted = ran \o functors \o pendingFunctors_
    BY <1>4 DEF IInv, TypeOK, RunsInOrder, RunFunctor
  <2>1. Len(ran) \in Nat /\ Len(functors) \in Nat \ {0} /\ Len(pendingFunctors_) \in Nat
    BY <2>0, LenProperties, EmptySeq
  <2>2. /\ ran \o functors \in Seq(Tasks)
        /\ Len(ran \o functors) = Len(ran) + Len(functors)
        /\ \A i \in 1..Len(ran) + Len(functors) :
             (ran \o functors)[i] = IF i <= Len(ran) THEN ran[i] ELSE functors[i - Len(ran)]
    BY <2>0, ConcatProperties
  <2>3. /\ Len(posted) = Len(ran) + Len(functors) + Len(pendingFunctors_)
        /\ \A i \in 1..Len(posted) :
             posted[i] = IF i <= Len(ran) + Len(functors)
                           THEN (ran \o functors)[i]
                           ELSE pendingFunctors_[i - (Len(ran) + Len(functors))]
    BY <2>0, <2>2, ConcatProperties
  <2>4. Len(ran) < Len(posted)
    BY <2>1, <2>3
  <2>5. posted[Len(ran) + 1] = functors[1]
    BY <2>1, <2>2, <2>3
  <2>6. Head(functors) = functors[1]
    BY <2>0
  <2>7. ran' = Append(ran, posted[Len(ran) + 1])
    BY <1>4, <2>5, <2>6 DEF RunFunctor
  <2>8. phase = "functors" /\ phase' = "functors" /\ posted' = posted
    BY <1>4 DEF RunFunctor
  <2>9. TQ!Run BY <2>4, <2>7, <2>8 DEF TQ!Run
  <2> QED BY <2>9 DEF TQ!Next
<1>5. ASSUME NEW th \in Threads, quit(th) \/ wakeup(th) PROVE UNCHANGED TQ!vars
  BY <1>5 DEF quit, SetQuit, wakeup
<1>6. CASE loop BY <1>6 DEF loop
<1>7. CASE poll BY <1>7 DEF poll
<1>8. CASE handleWakeup BY <1>8 DEF handleWakeup
<1>9. ASSUME NEW ch \in Channels, handleEvent(ch) PROVE UNCHANGED TQ!vars
  BY <1>9 DEF handleEvent
<1>10. CASE CallbackReturns BY <1>10 DEF CallbackReturns
<1>11. CASE doPendingFunctors
  BY <1>11 DEF doPendingFunctors, DoPendingPhase
<1>12. CASE FunctorsDone BY <1>12 DEF FunctorsDone
<1>13. CASE UNCHANGED vars BY <1>13 DEF vars
<1> QED
  BY <1>1, <1>2, <1>3, <1>4, <1>5, <1>6, <1>7, <1>8, <1>9, <1>10, <1>11, <1>12, <1>13
     DEF Next, OwnerCycle, Calls

(* The loop implements the safety half of TaskQueue. *)
THEOREM Refinement == SafeSpec => TQ!SafeSpec
<1>1. Init => TQ!Init
  BY DEF Init, TQ!Init
<1> QED BY <1>1, StepRefines, Inductive, PTL DEF SafeSpec, TQ!SafeSpec

-----------------------------------------------------------------------------
(* EventLoopThread *)

(* Everything the two threads do to the loop is a step of EventLoop. *)
LEMMA ThreadStepIsLoopStep == ThreadIInv /\ [NextT]_allVars => [Next]_vars
<1> SUFFICES ASSUME ThreadIInv, [NextT]_allVars PROVE [Next]_vars
  OBVIOUS
<1>1. CASE RunLoop
  BY <1>1 DEF RunLoop, Next
<1>2. CASE UseLoop
  <2>1. Controller \in Threads /\ Owner \in Threads
    BY ControllerAssumption DEF Threads
  <2> QED BY <1>2, <2>1 DEF UseLoop, Next, Calls
<1>3. CASE DestructorQuits
  <2>1. Controller \in Threads /\ Controller # Owner
    BY ControllerAssumption, ThreadAssumption DEF Threads
  <2>2. ~quit_
    BY <1>3 DEF ThreadIInv, OnlyDestructorQuits, DestructorQuits
  <2>3. quit(Controller)
    BY <1>3, <2>1, <2>2 DEF DestructorQuits, quit, CanCall
  <2> QED BY <2>1, <2>3 DEF Next, Calls
<1>4. CASE \/ ConstructLoop \/ Publish \/ Unpublish \/ DestroyLoop \/ startLoop \/ WaitForLoop
           \/ DestructorUnlocks \/ DestructorUnstarted \/ JoinReturns
  BY <1>4 DEF ConstructLoop, Publish, Unpublish, DestroyLoop, startLoop, WaitForLoop,
              DestructorUnlocks, DestructorUnstarted, JoinReturns
<1>5. CASE UNCHANGED allVars
  BY <1>5 DEF allVars
<1> QED BY <1>1, <1>2, <1>3, <1>4, <1>5 DEF NextT, IoThread

(* What ThreadIInv adds to IInv *)
ThreadInv ==
  /\ ThreadTypeOK /\ NoThreadBeforeStart
  /\ OnlyDestructorQuits /\ ExitsByQuit /\ PublishedWhileUsed /\ CallsEndUnderLock

LEMMA RunLoopKeeps ==
  ASSUME ThreadIInv, RunLoop
  PROVE  ThreadInv'
<1>1. UNCHANGED <<ctl, io, loop_, mutex_>> /\ OwnerCycle
  BY DEF RunLoop, thread
<1>2. pc' = pc /\ (quit_' => quit_) /\ ExitsByQuit'
  <2> USE DEF ThreadIInv, ExitsByQuit, history
  <2>1. CASE loop BY <2>1 DEF loop
  <2>2. CASE TestQuit BY <2>2 DEF TestQuit
  <2>3. CASE poll BY <2>3 DEF poll
  <2>4. CASE handleWakeup BY <2>4 DEF handleWakeup
  <2>5. ASSUME NEW ch \in Channels, handleEvent(ch)
        PROVE  pc' = pc /\ (quit_' => quit_) /\ ExitsByQuit'
    BY <2>5 DEF handleEvent
  <2>6. CASE CallbackReturns BY <2>6 DEF CallbackReturns
  <2>7. CASE doPendingFunctors BY <2>7 DEF doPendingFunctors
  <2>8. CASE RunFunctor BY <2>8 DEF RunFunctor
  <2>9. CASE FunctorsDone BY <2>9 DEF FunctorsDone
  <2> QED BY <1>1, <2>1, <2>2, <2>3, <2>4, <2>5, <2>6, <2>7, <2>8, <2>9 DEF OwnerCycle
<1> QED BY <1>1, <1>2 DEF ThreadIInv, ThreadInv, ThreadTypeOK, NoThreadBeforeStart, OnlyDestructorQuits,
                          PublishedWhileUsed, CallsEndUnderLock

LEMMA UseLoopKeeps ==
  ASSUME ThreadIInv, UseLoop
  PROVE  ThreadInv'
<1>1. UNCHANGED <<ctl, io, loop_, mutex_>>
  BY DEF UseLoop, thread
<1>2. /\ pc \in [Threads -> {"idle", "wake"}] /\ Controller \in Threads
      /\ Controller # Owner
  BY ControllerAssumption, ThreadAssumption DEF ThreadIInv, IInv, TypeOK, Threads
<1>3. UNCHANGED <<phase, quit_>> /\ (pc'[Controller] = "wake" => pc[Controller] = "wake" \/ ctl = "started")
  <2>1. ASSUME NEW t \in Tasks, ctl = "started", runInLoop(Controller, t)
        PROVE  UNCHANGED <<phase, quit_>>
    BY <1>2, <2>1 DEF runInLoop, isInLoopThread, queueInLoop, cycle
  <2>2. ASSUME NEW t \in Tasks, queueInLoop(Owner, t)
        PROVE  UNCHANGED <<phase, quit_>> /\ pc'[Controller] = pc[Controller]
    BY <1>2, <2>2 DEF queueInLoop, cycle
  <2>3. ASSUME NEW th \in Threads, wakeup(th)
        PROVE  UNCHANGED <<phase, quit_>> /\ (pc'[Controller] = "wake" => pc[Controller] = "wake")
    BY <1>2, <2>3 DEF wakeup, cycle
  <2> QED BY <2>1, <2>2, <2>3 DEF UseLoop
<1> QED BY <1>1, <1>3 DEF ThreadIInv, ThreadInv, ThreadTypeOK, NoThreadBeforeStart, OnlyDestructorQuits, ExitsByQuit,
                          PublishedWhileUsed, CallsEndUnderLock

LEMMA ThreadInvStep == ThreadIInv /\ [NextT]_allVars => ThreadInv'
<1> SUFFICES ASSUME ThreadIInv, [NextT]_allVars PROVE ThreadInv'
  OBVIOUS
<1> USE DEF ThreadIInv, ThreadInv, ThreadTypeOK, NoThreadBeforeStart, OnlyDestructorQuits, ExitsByQuit,
            PublishedWhileUsed, CallsEndUnderLock
<1>0. /\ Controller # "free" /\ Controller # Owner
      /\ pc \in [Threads -> {"idle", "wake"}] /\ Controller \in Threads
  BY ControllerAssumption, ThreadAssumption DEF IInv, TypeOK, Threads
<1>1. CASE RunLoop
  BY <1>1, RunLoopKeeps
<1>2. CASE UseLoop
  BY <1>2, UseLoopKeeps
<1>3. CASE DestructorQuits
  <2>1. phase' = phase /\ quit_' /\ ctl = "started" /\ ctl' = "quitting" /\ mutex_' = Controller
    BY <1>3 DEF DestructorQuits, SetQuit, cycle
  <2> QED BY <1>3, <2>1 DEF DestructorQuits
<1>4. CASE DestructorUnlocks
  BY <1>0, <1>4 DEF DestructorUnlocks, vars
<1>5. CASE startLoop
  BY <1>5 DEF startLoop, vars
<1>6. CASE WaitForLoop
  BY <1>6 DEF WaitForLoop, vars
<1>7. CASE ConstructLoop
  BY <1>7 DEF ConstructLoop, vars
<1>8. CASE Publish
  BY <1>8 DEF Publish, vars
<1>9. CASE Unpublish
  BY <1>0, <1>9 DEF Unpublish, vars
<1>10. CASE DestroyLoop
  BY <1>10 DEF DestroyLoop, vars
<1>11. CASE DestructorUnstarted
  BY <1>11 DEF DestructorUnstarted, vars
<1>12. CASE JoinReturns
  BY <1>12 DEF JoinReturns, vars
<1>13. CASE UNCHANGED allVars
  BY <1>13 DEF allVars, vars, thread
<1> QED
  BY <1>1, <1>2, <1>3, <1>4, <1>5, <1>6, <1>7, <1>8, <1>9, <1>10, <1>11, <1>12, <1>13
     DEF NextT, IoThread

(* The inductive invariant of a loop on its thread: the loop's own, and the *)
(* hand-over of its pointer under mutex_.                                   *)
THEOREM ThreadInductive == SafeSpecT => []ThreadIInv
<1>1. InitT => ThreadIInv
  <2> SUFFICES ASSUME InitT PROVE ThreadIInv
    OBVIOUS
  <2>1. IInv
    BY InitIInv DEF InitT
  <2>2. Controller \in Threads /\ Controller # "free"
    BY ControllerAssumption DEF Threads
  <2>3. ~quit_ /\ phase = "before" /\ pc[Controller] = "idle"
    BY <2>2 DEF InitT, Init
  <2> QED BY <2>1, <2>2, <2>3 DEF InitT, ThreadIInv, ThreadTypeOK, NoThreadBeforeStart, OnlyDestructorQuits,
                                  ExitsByQuit, PublishedWhileUsed, CallsEndUnderLock
<1>2. ThreadIInv /\ [NextT]_allVars => ThreadIInv'
  BY ThreadStepIsLoopStep, IInvStep, ThreadInvStep DEF ThreadIInv, ThreadInv
<1> QED BY <1>1, <1>2, PTL DEF SafeSpecT

(* loop_ is published exactly while the io thread is inside loop(), and     *)
(* mutex_ is held across steps by nobody but the destructor.                *)
THEOREM ThreadTypeCorrect == SafeSpecT => []ThreadTypeOK
<1>1. ThreadIInv => ThreadTypeOK
  BY DEF ThreadIInv
<1> QED BY <1>1, ThreadInductive, PTL

(* No call, and no write to the eventfd a call still has to make, reaches a *)
(* loop that ~EventLoop has destroyed.                                      *)
THEOREM CallsReachALiveLoop == SafeSpecT => []LoopOutlivesItsCalls
<1>1. ThreadIInv => LoopOutlivesItsCalls
  BY DEF ThreadIInv, PublishedWhileUsed, CallsEndUnderLock, LoopOutlivesItsCalls, LoopAlive
<1> QED BY <1>1, ThreadInductive, PTL

(* A loop on an EventLoopThread behaves as EventLoop says, so that what is  *)
(* proved of every EventLoop, NoLostWakeup and RunsInOrder with it, holds   *)
(* of the loops of the pool.                                                *)
THEOREM ThreadRunsAnEventLoop == SafeSpecT => SafeSpec
<1>1. InitT => Init
  BY DEF InitT
<1> QED BY <1>1, ThreadStepIsLoopStep, ThreadInductive, PTL DEF SafeSpecT, SafeSpec
=============================================================================
