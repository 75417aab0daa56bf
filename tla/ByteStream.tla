------------------------------ MODULE ByteStream ------------------------------
(***************************************************************************)
(* What TcpConnection promises about the bytes of the messages it accepts: *)
(* the peer reads them in order, without gap or repetition, all of them    *)
(* unless it closes or resets its own side, and it reads end-of-file after *)
(* a shutdown() only behind the last of them.                              *)
(***************************************************************************)
EXTENDS Naturals, Sequences

CONSTANTS Msgs,      \* messages
          Bytes(_)   \* the bytes of a message

VARIABLES sent,      \* bytes of the accepted messages
          got,       \* bytes the peer has read
          status,    \* "open", "closing", "eof" (the peer has read it) or "aborted"
          gone       \* the peer has closed or reset its side

vars == <<sent, got, status, gone>>

Init == sent = << >> /\ got = << >> /\ status = "open" /\ gone = FALSE

(* A sender learns of an abort later, if at all. *)
Accept(m) == /\ status \in {"open", "aborted"}
             /\ sent' = sent \o Bytes(m)
             /\ UNCHANGED <<got, status, gone>>

ReadMore == /\ \E n \in Len(got) + 1 .. Len(sent) : got' = SubSeq(sent, 1, n)
            /\ UNCHANGED <<sent, status, gone>>

Deliver == status \in {"open", "closing"} /\ ReadMore

(* Bytes already on the way may still be read after the connection broke. *)
DeliverLate == status = "aborted" /\ ReadMore

Close == status = "open" /\ status' = "closing" /\ UNCHANGED <<sent, got, gone>>

Eof == /\ status = "closing" /\ got = sent
       /\ status' = "eof"
       /\ UNCHANGED <<sent, got, gone>>

PeerGoes == ~gone /\ gone' = TRUE /\ UNCHANGED <<sent, got, status>>

(* Nobody but the peer may break the connection, at once or later. *)
Abort == /\ status \in {"open", "closing"} /\ status' = "aborted"
         /\ gone' = TRUE
         /\ UNCHANGED <<sent, got>>

Next == \/ \E m \in Msgs : Accept(m)
        \/ Deliver \/ DeliverLate \/ Close \/ Eof \/ PeerGoes \/ Abort

SafeSpec == Init /\ [][Next]_vars

Spec == SafeSpec /\ WF_vars(Deliver) /\ WF_vars(Eof)
=============================================================================
