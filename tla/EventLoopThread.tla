--------------------------- MODULE EventLoopThread ---------------------------
(***************************************************************************)
(* src/net/EventLoopThread: a thread and the EventLoop on its stack.       *)
(* startLoop() spawns the thread and waits on cond_ until the loop is      *)
(* published in loop_; the destructor quits the loop and joins the thread. *)
(*                                                                         *)
(* The loop is the full EventLoop model.  Its owner is the io thread; the  *)
(* one foreign thread that calls it is the controller, which runs          *)
(* startLoop(), uses the pointer it returns, and runs the destructor.  No  *)
(* functor quits a pool loop: only the destructor does.                    *)
(***************************************************************************)
EXTENDS EventLoop

CONSTANT Controller
ASSUME ControllerAssumption == Controller \in Foreign /\ Controller # "free"

VARIABLES
  ctl,     \* where the controller is in startLoop() / ~EventLoopThread()
  io,      \* where the io thread is in its lambda
  loop_,   \* TRUE iff the pointer loop_ is not null; guarded by mutex_
  mutex_   \* its holder, when a step of another thread can come between
           \* lock and unlock; "free" otherwise

thread == <<ctl, io, loop_, mutex_>>
allVars == <<vars, thread>>

LoopAlive == io \in {"constructed", "looping", "unpublished"}

(* loop_ points to the loop exactly while the io thread is between its two  *)
(* locked sections, and only the destructor holds mutex_ across steps.      *)
ThreadTypeOK ==
  /\ ctl \in {"new", "starting", "sleeping", "started", "quitting", "join", "joined"}
  /\ io \in {"none", "spawned", "constructed", "looping", "unpublished", "dead"}
  /\ loop_ <=> io = "looping"
  /\ mutex_ \in {"free", Controller}
  /\ mutex_ = Controller <=> ctl = "quitting"

InitT ==
  /\ Init
  /\ ctl = "new"
  /\ io = "none"
  /\ loop_ = FALSE
  /\ mutex_ = "free"

-----------------------------------------------------------------------------
(* EventLoopThread::startLoop(), on the controller *)

(* thread_ = std::thread(...) *)
startLoop ==
  /\ ctl = "new"
  /\ ctl' = "starting"
  /\ io' = "spawned"
  /\ UNCHANGED <<vars, loop_, mutex_>>

(* cond_.wait(lk, loop_ != nullptr): return, or sleep until notified. *)
WaitForLoop ==
  /\ ctl = "starting"
  /\ mutex_ = "free"
  /\ ctl' = IF loop_ THEN "started" ELSE "sleeping"
  /\ UNCHANGED <<vars, io, loop_, mutex_>>

-----------------------------------------------------------------------------
(* The lambda startLoop() runs on the io thread *)

(* EventLoop loop; *)
ConstructLoop ==
  /\ io = "spawned"
  /\ io' = "constructed"
  /\ UNCHANGED <<vars, ctl, loop_, mutex_>>

PublishNoNotify ==
  /\ io = "constructed"
  /\ mutex_ = "free"
  /\ io' = "looping"
  /\ loop_' = TRUE
  /\ UNCHANGED <<vars, ctl, mutex_>>

(* loop_ = &loop; cond_.notify_one(); under the lock *)
Publish ==
  /\ io = "constructed"
  /\ mutex_ = "free"
  /\ io' = "looping"
  /\ loop_' = TRUE
  /\ ctl' = IF ctl = "sleeping" THEN "starting" ELSE ctl
  /\ UNCHANGED <<vars, mutex_>>

(* loop.loop(), as EventLoop models it *)
RunLoop == io = "looping" /\ OwnerCycle /\ UNCHANGED thread

UnpublishKeepsPointer ==
  /\ io = "looping"
  /\ phase = "exited"
  /\ mutex_ = "free"
  /\ io' = "unpublished"
  /\ UNCHANGED <<vars, ctl, loop_, mutex_>>

(* loop_ = nullptr under the lock, once loop() has returned *)
Unpublish ==
  /\ io = "looping"
  /\ phase = "exited"
  /\ mutex_ = "free"
  /\ io' = "unpublished"
  /\ loop_' = FALSE
  /\ UNCHANGED <<vars, ctl, mutex_>>

(* lk is released, then ~EventLoop closes the eventfd, and the thread ends. *)
DestroyLoop ==
  /\ io = "unpublished"
  /\ io' = "dead"
  /\ UNCHANGED <<vars, ctl, loop_, mutex_>>

-----------------------------------------------------------------------------
(* Calls the controller makes with the pointer, and functors make *)

UseLoop ==
  /\ \/ \E t \in Tasks :
          \/ ctl = "started" /\ runInLoop(Controller, t)
          \/ inCallback /\ queueInLoop(Owner, t)
     \/ \E th \in Threads : wakeup(th)
  /\ UNCHANGED thread

-----------------------------------------------------------------------------
(* EventLoopThread::~EventLoopThread(), on the controller *)

DestructorQuitsUnlocked ==
  /\ ctl = "started"
  /\ pc[Controller] = "idle"
  /\ mutex_ = "free"
  /\ loop_
  /\ SetQuit(Controller)
  /\ ctl' = "join"
  /\ UNCHANGED <<io, loop_, mutex_>>

(* lock; if (loop_) loop_->quit(); the lock is held until quit() returns. *)
DestructorQuits ==
  /\ ctl = "started"
  /\ pc[Controller] = "idle"
  /\ mutex_ = "free"
  /\ loop_
  /\ SetQuit(Controller)
  /\ mutex_' = Controller
  /\ ctl' = "quitting"
  /\ UNCHANGED <<io, loop_>>

DestructorJoinsLocked ==
  /\ ctl = "quitting"
  /\ pc[Controller] = "idle"
  /\ ctl' = "join"
  /\ UNCHANGED <<vars, io, loop_, mutex_>>

DestructorUnlocks ==
  /\ ctl = "quitting"
  /\ pc[Controller] = "idle"
  /\ mutex_' = "free"
  /\ ctl' = "join"
  /\ UNCHANGED <<vars, io, loop_>>

(* Destroyed without startLoop(): no loop_ to quit, nothing to join. *)
DestructorUnstarted ==
  /\ ctl = "new"
  /\ ctl' = "joined"
  /\ UNCHANGED <<vars, io, loop_, mutex_>>

JoinReturns ==
  /\ ctl = "join"
  /\ io = "dead"
  /\ ctl' = "joined"
  /\ UNCHANGED <<vars, io, loop_, mutex_>>

-----------------------------------------------------------------------------
IoThread == ConstructLoop \/ Publish \/ RunLoop \/ Unpublish \/ DestroyLoop

NextT ==
  \/ IoThread \/ UseLoop
  \/ startLoop \/ WaitForLoop
  \/ DestructorQuits \/ DestructorUnlocks \/ DestructorUnstarted \/ JoinReturns

(* Both threads keep running; using or destroying the loop is the choice of *)
(* the program.  RunLoop alone gets EventLoop's finer fairness: epoll_wait  *)
(* is only sure to return for the eventfd or the timeout.                   *)
FairnessT ==
  /\ WF_allVars(ConstructLoop) /\ WF_allVars(Publish)
  /\ WF_allVars(Unpublish) /\ WF_allVars(DestroyLoop)
  /\ WF_allVars(RunLoop /\ (phase = "poll" => wakeups > 0 \/ PollTimeouts))
  /\ \A th \in Threads : WF_allVars(wakeup(th) /\ UNCHANGED thread)
  /\ WF_allVars(WaitForLoop) /\ WF_allVars(DestructorUnlocks) /\ WF_allVars(JoinReturns)

SafeSpecT == InitT /\ [][NextT]_allVars

SpecT == SafeSpecT /\ FairnessT

-----------------------------------------------------------------------------
(* Properties *)

(* startLoop() hands out the pointer of a loop that exists, and the loop    *)
(* exists until the destructor has let go of it: while the controller may   *)
(* call the loop, or is inside a call (its write to the eventfd included),  *)
(* ~EventLoop has not run.                                                  *)
LoopOutlivesItsCalls ==
  ctl \in {"started", "quitting"} \/ pc[Controller] = "wake" => LoopAlive

(* The inductive strengthening of LoopOutlivesItsCalls.  Only the           *)
(* destructor quits the loop, and only quit() lets it exit, so its pointer  *)
(* is published as long as the controller may use it; the last wakeup() is  *)
(* over when the destructor lets go of mutex_, for which the io thread's    *)
(* last locked section waits.                                               *)
NoThreadBeforeStart == ctl = "new" => io = "none"

OnlyDestructorQuits == quit_ => ctl \in {"quitting", "join", "joined"}

ExitsByQuit == phase = "exited" => quit_

PublishedWhileUsed == ctl \in {"started", "quitting"} => io = "looping"

CallsEndUnderLock == pc[Controller] = "wake" => ctl \in {"started", "quitting"}

ThreadIInv ==
  /\ IInv /\ ThreadTypeOK /\ NoThreadBeforeStart
  /\ OnlyDestructorQuits /\ ExitsByQuit /\ PublishedWhileUsed /\ CallsEndUnderLock

(* startLoop() returns. *)
StartReturns == ctl = "starting" ~> ctl = "started"

(* Once the destructor's quit() has reached a loop that was already inside  *)
(* loop(), the thread ends and join() returns.                              *)
JoinAfterQuitReturns ==
  (ctl = "join" /\ quit_ /\ phase # "before") ~> ctl = "joined"

(* What EventLoopThread.h says of the destructor: it tells the loop to exit *)
(* and joins, so that the thread does not leak.                             *)
DestructorJoins == ctl = "join" ~> ctl = "joined"
=============================================================================
