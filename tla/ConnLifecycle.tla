---------------------------- MODULE ConnLifecycle ----------------------------
(***************************************************************************)
(* What TcpServer promises the application and the process about each      *)
(* connection, whatever its loops and threads do: a client that connects   *)
(* is announced once (connectionCallback, connected), a client that goes   *)
(* away is announced once more (connectionCallback, not connected), and    *)
(* only then, and always then, is the connection's memory given back.      *)
(***************************************************************************)
CONSTANT Conns

VARIABLES stage,   \* how far the life of each connection has come
          gone     \* clients that have closed their end

vars == <<stage, gone>>

Stages == {"absent", "waiting", "up", "down", "freed"}

Init == /\ stage = [c \in Conns |-> "absent"]
        /\ gone = {}

Move(c, from, to) == /\ stage[c] = from
                     /\ stage' = [stage EXCEPT ![c] = to]
                     /\ UNCHANGED gone

Connect(c) == Move(c, "absent", "waiting")
Up(c) == Move(c, "waiting", "up")
Down(c) == c \in gone /\ Move(c, "up", "down")

(* A loop drops the references of a whole batch at once, so others may be   *)
(* freed in the same step.                                                  *)
Free(c) == \E others \in SUBSET {d \in Conns : stage[d] = "down"} :
             /\ stage[c] = "down"
             /\ stage' = [d \in Conns |-> IF d = c \/ d \in others THEN "freed" ELSE stage[d]]
             /\ UNCHANGED gone

Leave(c) == /\ stage[c] # "absent"
            /\ gone' = gone \cup {c}
            /\ UNCHANGED stage

Next == \E c \in Conns : Connect(c) \/ Up(c) \/ Down(c) \/ Free(c) \/ Leave(c)

SafeSpec == Init /\ [][Next]_vars

(* Connecting and leaving are the clients' choice; the rest must follow. *)
Spec == /\ SafeSpec
        /\ \A c \in Conns : WF_vars(Up(c)) /\ WF_vars(Down(c)) /\ WF_vars(Free(c))
=============================================================================
