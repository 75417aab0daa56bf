------------------------------ MODULE ChatRooms ------------------------------
(***************************************************************************)
(* What the chat promises its members: a line spoken in a room is heard    *)
(* once by everybody who is in the room at that moment and goes on         *)
(* listening, by nobody else, and the lines of one speaker in their order. *)
(* It promises no common order of the lines of several speakers.           *)
(***************************************************************************)
EXTENDS Naturals, Sequences

CONSTANTS Conns, Rooms

VARIABLES members,     \* room -> connections in it
          listening,   \* connections that can still be written to
          owed,        \* connection -> lines it has yet to hear
          heard        \* connection -> lines it has heard, in order

vars == <<members, listening, owed, heard>>

Init == /\ members = [r \in Rooms |-> {}]
        /\ listening = Conns
        /\ owed = [c \in Conns |-> {}]
        /\ heard = [c \in Conns |-> << >>]

Enter(c, r) == /\ members' = [q \in Rooms |-> (members[q] \ {c}) \cup IF q = r THEN {c} ELSE {}]
               /\ UNCHANGED <<listening, owed, heard>>

Leave(c) == /\ members' = [q \in Rooms |-> members[q] \ {c}]
            /\ UNCHANGED <<listening, owed, heard>>

(* A new line in room r: members that listen are owed it. *)
Say(r) == /\ \E m \in UNION {owed'[c] : c \in Conns} :
               /\ \A c \in Conns : m \notin owed[c] /\ \A i \in DOMAIN heard[c] : heard[c][i] # m
               /\ owed' = [c \in Conns |-> IF c \in members[r] \cap listening
                                           THEN owed[c] \cup {m} ELSE owed[c]]
          /\ UNCHANGED <<members, listening, heard>>

InTurn(c, m) == \A k \in owed[c] : k.from = m.from => m.n <= k.n

Hear(c) == \E m \in owed[c] :
             /\ InTurn(c, m)
             /\ heard' = [heard EXCEPT ![c] = Append(@, m)]
             /\ owed' = [owed EXCEPT ![c] = @ \ {m}]
             /\ UNCHANGED <<members, listening>>

StopListening(c) == /\ listening' = listening \ {c}
                    /\ owed' = [owed EXCEPT ![c] = {}]
                    /\ UNCHANGED <<members, heard>>

Next == \/ \E c \in Conns : \/ Leave(c) \/ Hear(c) \/ StopListening(c)
                            \/ \E r \in Rooms : Enter(c, r)
        \/ \E r \in Rooms : Say(r)

SafeSpec == Init /\ [][Next]_vars

Spec == SafeSpec /\ \A c \in Conns : WF_vars(Hear(c))
=============================================================================
