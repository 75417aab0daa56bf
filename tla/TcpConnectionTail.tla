-------------------------- MODULE TcpConnectionTail --------------------------
(***************************************************************************)
(* One thread other than the owner calls send() and then shutdown() on a   *)
(* connection, as the broadcast path may: the calls of TcpConnection made  *)
(* in one thread's order, with a record of the messages send() took.       *)
(***************************************************************************)
EXTENDS TcpConnection

VARIABLE handed    \* messages send() took on, kConnected as the connection was

InitTail == Init /\ handed = {}

sendThenReturn(m) ==
  /\ ~deciding
  /\ sendForeign(m)
  /\ handed' = IF state_ = "kConnected" THEN handed \cup {m} ELSE handed

NextTail == \/ \E m \in Msgs : sendThenReturn(m)
            \/ (OwnerRound \/ shutdownTests \/ shutdownForeign \/ Peer) /\ UNCHANGED handed

SpecTail == InitTail /\ [][NextTail]_<<vars, handed>>

(* send() may be called on any thread, and shutdown() half-closes only      *)
(* behind everything sent before it (TcpConnection.h:37-38): once the FIN   *)
(* is out on a live connection, every message handed over is in front of    *)
(* it, none was dropped.                                                    *)
FinBehindEverySend ==
  fin /\ reading /\ ~peerReset =>
    \A m \in handed : \E i \in 1..Len(accepted) : accepted[i] = <<m, 1>>
=============================================================================
