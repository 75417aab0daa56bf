------------------------------ MODULE TaskQueue ------------------------------
(***************************************************************************)
(* What an EventLoop promises about the functors handed to queueInLoop,    *)
(* whatever its threads, eventfd and batches do: they run on the owner     *)
(* thread one after the other, in the order in which they were queued,     *)
(* each exactly once, and none is left waiting while the loop runs.        *)
(***************************************************************************)
EXTENDS Naturals, Sequences

CONSTANT Tasks            \* the functors

VARIABLES posted,         \* every functor queued so far, in queueing order
          ran,            \* every functor run so far, in running order
          stopped         \* the loop has left loop() and runs nothing any more

vars == <<posted, ran, stopped>>

Init == /\ posted = << >>
        /\ ran = << >>
        /\ stopped = FALSE

(* queueInLoop is legal at any time, even after the loop has stopped. *)
Post(t) == /\ posted' = Append(posted, t)
           /\ UNCHANGED <<ran, stopped>>

(* The oldest functor that has not run yet runs. *)
Run == /\ ~stopped
       /\ Len(ran) < Len(posted)
       /\ ran' = Append(ran, posted[Len(ran) + 1])
       /\ UNCHANGED <<posted, stopped>>

Stop == /\ ~stopped
        /\ stopped' = TRUE
        /\ UNCHANGED <<posted, ran>>

Next == (\E t \in Tasks : Post(t)) \/ Run \/ Stop

(* The safety half is what is proved; WF(Run) is the promise that a functor *)
(* is never stranded.                                                       *)
SafeSpec == Init /\ [][Next]_vars

Spec == SafeSpec /\ WF_vars(Run)
=============================================================================
