----------------------------- MODULE ClientLife ------------------------------
(***************************************************************************)
(* The life of a Go client (ClientState) under variables that a module of  *)
(* another part does not have, so that it can run beside the invocations   *)
(* of the client (MCClient) and be reasoned about beside the hubs of a     *)
(* server (ConnectionProofs).                                              *)
(***************************************************************************)
CONSTANTS Waiters, Connector, MaxRuns

VARIABLES state, clientErr, conn, clientCloseMsg, observers, chan, notify, mx, blocked, main, run,
          runErr, setters, watcher, waiter, result, stop, clientDone, clientPanicked

stateVars == <<state, clientErr, conn, clientCloseMsg, observers, chan, notify, mx, blocked, main,
               run, runErr, setters, watcher, waiter, result, stop, clientDone, clientPanicked>>

S == INSTANCE ClientState WITH err <- clientErr, closeMsg <- clientCloseMsg,
                               ctxDone <- clientDone, panicked <- clientPanicked

ASSUME StateAssumption == S!Bounds

\* A client uses nothing that is over: no goroutine uses the closed channel of an
\* observer, and no handshake the connection of a loop that has ended.
NothingStaleUsed == S!NothingStaleUsed

\* A waiter of WaitForState whose state has been reached has a wake-up on its way.
NoMissedWakeup == S!NoMissedWakeup

\* Once a client is canceled Stop returns and every waiter is released.
CanceledClientEnds == S!CanceledClientEnds
=============================================================================
