--------------------------- MODULE MCTcpConnection ---------------------------
(***************************************************************************)
(* TcpConnection for TLC, in both trigger modes (Init chooses et_).        *)
(***************************************************************************)
EXTENDS TcpConnection
=============================================================================
