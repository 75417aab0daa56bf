-------------------------------- MODULE Alarm --------------------------------
(***************************************************************************)
(* What runAfter promises: a callback set for a time is called once, not   *)
(* before that time, and not never.                                        *)
(***************************************************************************)
EXTENDS Naturals

CONSTANT Timers

VARIABLES clock,
          status,   \* timer -> "unset", "set" or "fired"; a fired one may be set again
          due       \* timer -> the time it was last set for

vars == <<clock, status, due>>

Init == /\ clock \in Nat
        /\ status = [t \in Timers |-> "unset"]
        /\ due = [t \in Timers |-> 0]

Tick == clock' > clock /\ UNCHANGED <<status, due>>

Set(t) == /\ status[t] # "set"
          /\ status' = [status EXCEPT ![t] = "set"]
          /\ due'[t] >= clock
          /\ due' = [due EXCEPT ![t] = due'[t]]
          /\ UNCHANGED clock

Fire(t) == /\ status[t] = "set"
           /\ due[t] <= clock
           /\ status' = [status EXCEPT ![t] = "fired"]
           /\ UNCHANGED <<clock, due>>

Next == Tick \/ \E t \in Timers : Set(t) \/ Fire(t)

SafeSpec == Init /\ [][Next]_vars

Spec == SafeSpec /\ \A t \in Timers : WF_vars(Fire(t))
=============================================================================
