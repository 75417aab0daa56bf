-------------------------- MODULE MCEventLoopThread --------------------------
(***************************************************************************)
(* EventLoopThread for TLC: one controller, two functors, no io channel    *)
(* besides the eventfd.  epoll_wait never times out when the passing runs  *)
(* are checked; it does in the run that shows the lost quit(), so that no  *)
(* lack of a timeout can be blamed for it.                                 *)
(***************************************************************************)
EXTENDS EventLoopThread
=============================================================================
