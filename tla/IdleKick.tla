------------------------------- MODULE IdleKick -------------------------------
(***************************************************************************)
(* ChatServer's idle kick: the chain of one-shot timers that follows one   *)
(* connection, on top of TimerQueue, with other timers on the same loop.   *)
(* Everything here runs on the connection's own loop.                      *)
(***************************************************************************)
EXTENDS TimerQueue

CONSTANTS Idle,          \* the timer of the chain
          idleTimeout_

ASSUME IdleAssumption == Idle \in Timers /\ idleTimeout_ \in Nat \ {0}

VARIABLES
  state_,        \* of the connection; "kConnecting" before onConnection
  lastActive     \* Session::lastActive

session == <<state_, lastActive>>
vars == <<timerVars, session>>

InitIdle == Init /\ state_ = "kConnecting" /\ lastActive = 0

Deadline == lastActive + idleTimeout_

-----------------------------------------------------------------------------
armIdleTimer(delay) ==
  /\ Sets(Idle, delay)
  /\ addTimer([when |-> now + delay, id |-> Idle])

onConnection ==
  /\ stage = "functors"
  /\ state_ = "kConnecting"
  /\ now < MaxTime
  /\ state_' = "kConnected"
  /\ lastActive' = now
  /\ armIdleTimer(idleTimeout_)
  /\ UNCHANGED <<now, stage, reading, functors>>

(* Input counts as activity, after a half close too.  "/quit" is input.     *)
onMessage ==
  /\ stage = "events"
  /\ state_ \in {"kConnected", "kDisconnecting"}
  /\ now < MaxTime
  /\ lastActive' = now
  /\ state_' \in {state_, "kDisconnecting"}
  /\ UNCHANGED timerVars

handleClose ==
  /\ stage = "events"
  /\ state_ \in {"kConnected", "kDisconnecting"}
  /\ state_' = "kDisconnected"
  /\ UNCHANGED <<timerVars, lastActive>>

-----------------------------------------------------------------------------
(* The timer's callback *)

idleStops ==
  /\ callback = {Idle}
  /\ state_ # "kConnected"
  /\ callbackReturns
  /\ UNCHANGED session

kick ==
  /\ callback = {Idle}
  /\ state_ = "kConnected"
  /\ now - lastActive >= idleTimeout_
  /\ state_' = "kDisconnecting"
  /\ callbackReturns
  /\ UNCHANGED lastActive

restFullTimeout == idleTimeout_

rest == idleTimeout_ - (now - lastActive)

renewForgotten == UNCHANGED <<timerfd, alarm>>

renew == armIdleTimer(rest)

idleRenews ==
  /\ callback = {Idle}
  /\ state_ = "kConnected"
  /\ now - lastActive < idleTimeout_
  /\ renew
  /\ callback' = {}
  /\ UNCHANGED <<now, stage, reported, expired, functors, session>>

otherReturns == callback # {Idle} /\ callbackReturns /\ UNCHANGED session

IdleCallback == idleStops \/ kick \/ idleRenews \/ otherReturns

Connection == onConnection \/ onMessage \/ handleClose

Others == \E t \in Timers \ {Idle}, delay \in Delays :
            /\ now + delay < MaxTime
            /\ runAfterOwner(t, delay) \/ runAfterForeign(t, delay)

Next ==
  \/ (OwnerRound \/ tick \/ Others) /\ UNCHANGED session
  \/ IdleCallback \/ Connection

SafeSpec == InitIdle /\ [][Next]_vars

(* The loop goes round, callbacks return and time passes; clients owe       *)
(* nothing.                                                                 *)
Spec == /\ SafeSpec
        /\ WF_vars(OwnerRound /\ UNCHANGED session)
        /\ WF_vars(IdleCallback)
        /\ WF_vars(tick /\ UNCHANGED session)

-----------------------------------------------------------------------------
(* Properties *)

(* A connected client is always followed by the chain: its timer is set for *)
(* no later than the end of the idle time, or the callback is running.      *)
IdleCovered ==
  state_ = "kConnected" =>
    \/ status[Idle] = "set" /\ due[Idle] <= Deadline
    \/ callback = {Idle}

(* The inductive strengthening of all safety properties. *)
IdleIInv ==
  /\ TimerTypeOK /\ TimerfdCoversTop /\ RunInDueOrder /\ OnlyExpiredInHand
  /\ lastActive \in 0..now
  /\ IdleCovered

(* A client that falls silent (no input comes after MaxTime) is kicked,     *)
(* unless it leaves by itself.                                              *)
SilentIsKicked == state_ = "kConnected" ~> state_ \in {"kDisconnecting", "kDisconnected"}
=============================================================================
