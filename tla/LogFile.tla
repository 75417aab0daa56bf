------------------------------- MODULE LogFile -------------------------------
(***************************************************************************)
(* What an asynchronous log promises: the file holds, at any time, a       *)
(* prefix of the lines handed over, in their order, each once; it catches  *)
(* up while the log runs, and stop() returns with nothing left out unless  *)
(* the file cannot be opened.                                              *)
(***************************************************************************)
EXTENDS Naturals, Sequences

CONSTANT Lines

VARIABLES logged,    \* lines handed over
          file,      \* lines in the file
          status     \* "idle", "running", or "broken" (the file cannot be opened)

vars == <<logged, file, status>>

Init == logged = << >> /\ file = << >> /\ status = "idle"

Accept(line) == /\ logged' = Append(logged, line)
                 /\ UNCHANGED <<file, status>>

Start == status = "idle" /\ status' = "running" /\ UNCHANGED <<logged, file>>

Write == /\ status = "running"
         /\ \E n \in Len(file) + 1 .. Len(logged) : file' = SubSeq(logged, 1, n)
         /\ UNCHANGED <<logged, status>>

Break == status = "running" /\ status' = "broken" /\ UNCHANGED <<logged, file>>

Stop == /\ \/ status = "running" /\ file = logged
           \/ status = "broken"
        /\ status' = "idle"
        /\ UNCHANGED <<logged, file>>

Next == (\E line \in Lines : Accept(line)) \/ Start \/ Write \/ Break \/ Stop

SafeSpec == Init /\ [][Next]_vars

Spec == SafeSpec /\ WF_vars(Write)
=============================================================================
