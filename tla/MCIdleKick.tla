------------------------------ MODULE MCIdleKick ------------------------------
(***************************************************************************)
(* IdleKick, and TimerQueue under it, for TLC.                             *)
(***************************************************************************)
EXTENDS IdleKick
=============================================================================
