----------------------------- MODULE MCTcpServer -----------------------------
(***************************************************************************)
(* TcpServer for TLC: three connections and up to two pool threads (so     *)
(* that some share a loop and some do not); two and up to one for liveness.*)
(* With no thread, newConnection and removeConnection work in place.       *)
(***************************************************************************)
EXTENDS TcpServer

(* Connections are interchangeable; used in the safety run only. *)
Symmetry == Permutations(Conns)
=============================================================================
