----------------------------- MODULE MCEventLoop -----------------------------
(***************************************************************************)
(* EventLoop for TLC: two foreign threads and the owner race for three     *)
(* functors.  epoll_wait never times out, so that a wakeup that is missing *)
(* shows as a functor that never runs; EventLoopProofs covers both.        *)
(***************************************************************************)
EXTENDS EventLoop
=============================================================================
