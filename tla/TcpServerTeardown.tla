-------------------------- MODULE TcpServerTeardown --------------------------
(***************************************************************************)
(* ~TcpServer = default, run on the base thread after its loop() has       *)
(* returned.  Members go in reverse order of declaration: connections_     *)
(* drops its pointers first; threadPool_, whose destructor quits and joins *)
(* the io threads, goes after it.                                          *)
(***************************************************************************)
EXTENDS TcpServer

VARIABLES server,   \* "serving" or "emptied" (connections_ is gone)
          joined    \* how many of the pool's threads have been joined

teardownVars == <<vars, server, joined>>

InitTeardown == Init /\ server = "serving" /\ joined = 0

(* Events of the base loop happen only while it runs.                       *)
Serving == server = "serving" /\ Next /\ UNCHANGED <<server, joined>>

destroyConnections ==
  /\ server = "serving"
  /\ phase[Base] = "poll"
  /\ server' = "emptied"
  /\ connections_' = {}
  /\ UNCHANGED <<client, pool, conn, app, loopVars, joined>>

(* The io threads that have not been told to stop yet. *)
StillRunning == {l \in Loops : joined < l /\ l <= loops_}

IoRuns ==
  /\ server = "emptied"
  /\ \E l \in StillRunning :
       \/ poll(l) \/ doPendingFunctors(l) \/ RunFunctor(l) \/ FunctorsDone(l)
       \/ \E c \in Conns : HandleEvent(l, c)
  /\ UNCHANGED <<server, joined>>

(* ~EventLoopThreadPool: one thread after the other leaves loop() between   *)
(* rounds, and what it had queued is destroyed with its loop.               *)
joinThread(l) ==
  /\ server = "emptied"
  /\ l = joined + 1 /\ l \in StillRunning
  /\ phase[l] = "poll"
  /\ joined' = l
  /\ pending' = [pending EXCEPT ![l] = << >>]
  /\ UNCHANGED <<client, connections_, pool, conn, app, phase, active, functors, held, server>>

NextTeardown == Serving \/ destroyConnections \/ IoRuns \/ \E l \in Loops : joinThread(l)

SpecTeardown == InitTeardown /\ [][NextTeardown]_teardownVars

(* TcpConnection.h's header promises that an object is pinned while its     *)
(* events are handled: no io thread that is still running is about to be    *)
(* handed, or has been handed, the Channel of a freed connection.           *)
TiePinsHandledConnections ==
  \A c \in Conns, l \in StillRunning : c \in active[l] => ~Freed(c)
=============================================================================
