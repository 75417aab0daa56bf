---------------------------- MODULE MCAsyncLogger ----------------------------
(***************************************************************************)
(* AsyncLogger for TLC.                                                    *)
(***************************************************************************)
EXTENDS AsyncLogger
=============================================================================
