----------------------------- MODULE ClientState -----------------------------
(***************************************************************************)
(* The life of a client (client.go): Start with its reconnecting           *)
(* goroutine, Stop, run, the state and its observers, and WaitForState.    *)
(*                                                                         *)
(* A section under c.mx in which nothing blocks is one step, enabled when  *)
(* the mutex is free.  Two sections block while they hold it: the          *)
(* connection set-up (setupConnectionAndProtocol) and the delivery of a    *)
(* state to an observer whose channel is full (setState).                  *)
(*                                                                         *)
(* The observers in this package ignore the state they are sent and read   *)
(* the current one, so a delivery is only a wake-up.                       *)
(***************************************************************************)
EXTENDS Naturals

CONSTANTS Waiters,    \* calls of WaitForState(ctx, ClientConnected)
          Connector,  \* TRUE with WithConnector, FALSE with WithConnection
          MaxRuns     \* bound on the iterations of Start's goroutine

\* What the constants are.
Bounds == MaxRuns \in Nat /\ Waiters \cap Nat = {} /\ Connector \in BOOLEAN

Runs      == 1..MaxRuns
Observers == Runs \cup Waiters   \* channels: one per iteration, one per waiter
States    == {"Created", "Connecting", "Connected", "Closed"}

VARIABLES
  state,      \* c.state
  err,        \* c.err is nil
  conn,       \* c.conn: "none", "fresh", "failed" in a handshake, "used" by a loop
  closeMsg,   \* c.loop.closeMessage
  observers,  \* c.stateChangeChans
  chan,       \* per observer: its channel, of capacity 1
  notify,     \* per observer: goroutines of setState that have not run yet
  mx,         \* c.mx: "free", or held for the "setup" or by a "notify"ing goroutine
  blocked,    \* the observer that goroutine is to wake up
  main,       \* control state of Start's goroutine
  run,        \* number of the current iteration
  runErr,     \* c.run returned an error
  setters,    \* iterations whose goroutine has still to set ClientConnected
  watcher,    \* per iteration: goroutine waiting for ClientConnected
  waiter,     \* per waiter: control state
  result,     \* per waiter: what its channel delivered
  stop,       \* control state of a call of Stop
  ctxDone,    \* c.ctx is canceled
  panicked    \* a goroutine has used a closed channel

connVars  == <<conn, closeMsg, runErr>>
obsVars   == <<observers, chan>>
waitVars  == <<waiter, result>>
lockVars  == <<mx, blocked>>
vars == <<state, err, connVars, obsVars, notify, lockVars, main, run, setters,
          watcher, waitVars, stop, ctxDone, panicked>>

Init ==
  /\ state = "Created"
  /\ err = "nil"
  /\ conn = IF Connector THEN "none" ELSE "fresh"
  /\ closeMsg = "none"
  /\ observers = {}
  /\ chan = [o \in Observers |-> [full |-> FALSE, closed |-> FALSE]]
  /\ notify = [o \in Observers |-> 0]
  /\ mx = "free"
  /\ blocked = {}
  /\ main = "idle"
  /\ run = 0
  /\ runErr = FALSE
  /\ setters = {}
  /\ watcher = [r \in Runs |-> "off"]
  /\ waiter = [w \in Waiters |-> "idle"]
  /\ result = [w \in Waiters |-> "none"]
  /\ stop = "no"
  /\ ctxDone = FALSE
  /\ panicked = FALSE

-----------------------------------------------------------------------------
(* The state and its observers.                                            *)

\* One goroutine per observer delivers the new state.
setState(s) ==
  /\ mx = "free"
  /\ state' = s
  /\ notify' = [o \in Observers |-> IF o \in observers THEN notify[o] + 1 ELSE notify[o]]

ObserveStateChanged(o) ==
  /\ mx = "free"
  /\ observers' = observers \cup {o}
  /\ UNCHANGED chan

cancelObserveStateChanged(o) ==
  /\ mx = "free"
  /\ IF o \in observers
     THEN /\ observers' = observers \ {o}
          /\ chan' = [chan EXCEPT ![o].closed = TRUE]
          /\ panicked' = (panicked \/ chan[o].closed)
     ELSE UNCHANGED <<obsVars, panicked>>

Deliver(o) ==
  /\ chan' = [chan EXCEPT ![o].full = TRUE]
  /\ panicked' = (panicked \/ chan[o].closed)

rest == <<state, err, connVars, observers, main, run, setters, watcher, waitVars,
          stop, ctxDone>>

\* A goroutine of setState gets the mutex and is done at once: the channel has
\* room, or the observer is gone, or ctx is canceled.
Notify(o) ==
  /\ mx = "free" /\ notify[o] > 0
  /\ \/ o \in observers /\ ~chan[o].full /\ Deliver(o)
     \/ (o \notin observers \/ ctxDone) /\ UNCHANGED <<chan, panicked>>
  /\ notify' = [notify EXCEPT ![o] = @ - 1]
  /\ UNCHANGED <<rest, lockVars>>

\* The channel is full: the goroutine waits for room, holding the mutex.
NotifyBlocks(o) ==
  /\ mx = "free" /\ notify[o] > 0
  /\ o \in observers /\ chan[o].full /\ ~ctxDone
  /\ mx' = "notify" /\ blocked' = {o}
  /\ notify' = [notify EXCEPT ![o] = @ - 1]
  /\ UNCHANGED <<rest, chan, panicked>>

\* Mutation: the cancelation of the client does not end the wait.
NotifyUnblocks_IgnoresCtx(o) ==
  /\ mx = "notify" /\ o \in blocked
  /\ ~chan[o].full /\ Deliver(o)
  /\ mx' = "free" /\ blocked' = {}
  /\ UNCHANGED <<rest, notify>>

NotifyUnblocks(o) ==
  /\ mx = "notify" /\ o \in blocked
  /\ \/ ~chan[o].full /\ Deliver(o)
     \/ ctxDone /\ UNCHANGED <<chan, panicked>>
  /\ mx' = "free" /\ blocked' = {}
  /\ UNCHANGED <<rest, notify>>

-----------------------------------------------------------------------------
(* Start's goroutine.                                                      *)

Start ==
  /\ main \in {"idle", "done"} /\ state \in {"Created", "Closed"} /\ stop = "no"
  /\ run < MaxRuns
  /\ setState("Connecting")
  /\ main' = "clearErr"
  /\ UNCHANGED <<err, connVars, obsVars, lockVars, run, setters, watcher, waitVars, stop,
                 ctxDone, panicked>>

setErr(e, next) ==
  /\ mx = "free"
  /\ err' = e
  /\ main' = next
  /\ UNCHANGED <<state, connVars, obsVars, notify, lockVars, run, setters, watcher,
                 waitVars, stop, ctxDone, panicked>>

ClearErr == main = "clearErr" /\ setErr("nil", "observe")

\* The iteration observes the state with a new channel.
ObserveRun ==
  /\ main = "observe"
  /\ ObserveStateChanged(run + 1)
  /\ run' = run + 1
  /\ watcher' = [watcher EXCEPT ![run + 1] = "recv"]
  /\ main' = "setup"
  /\ UNCHANGED <<state, err, connVars, notify, lockVars, setters, waitVars, stop, ctxDone,
                 panicked>>

\* The goroutine that waits for ClientConnected, to reset the back-off.
WatcherRecv(r) ==
  /\ watcher[r] = "recv"
  /\ IF chan[r].full
     THEN /\ chan' = [chan EXCEPT ![r].full = FALSE]
          /\ watcher' = [watcher EXCEPT ![r] = "check"]
     ELSE chan[r].closed /\ watcher' = [watcher EXCEPT ![r] = "done"] /\ UNCHANGED chan
  /\ UNCHANGED <<state, err, connVars, observers, notify, lockVars, main, run, setters,
                 waitVars, stop, ctxDone, panicked>>

WatcherCheck(r) ==
  /\ watcher[r] = "check" /\ mx = "free"
  /\ watcher' = [watcher EXCEPT ![r] = IF state = "Connected" THEN "done" ELSE "recv"]
  /\ UNCHANGED <<state, err, connVars, obsVars, notify, lockVars, main, run, setters,
                 waitVars, stop, ctxDone, panicked>>

\* What the steps between two settings of the state leave alone.
main0 == <<state, err, obsVars, notify, blocked, run, setters, watcher, waitVars,
           stop, ctxDone, panicked>>

\* setupConnectionAndProtocol takes the mutex.
SetupBegins ==
  /\ main = "setup" /\ mx = "free"
  /\ IF conn = "none" /\ ~Connector
     THEN main' = "runEnded" /\ runErr' = TRUE /\ UNCHANGED mx
     ELSE /\ mx' = "setup"
          /\ main' = IF conn = "none" THEN "connect" ELSE "handshake"
          /\ UNCHANGED runErr
  /\ UNCHANGED <<main0, conn, closeMsg>>

FactoryOk ==
  /\ main = "connect"
  /\ conn' = "fresh" /\ main' = "handshake"
  /\ UNCHANGED <<main0, closeMsg, runErr, mx>>

FactoryFails ==
  /\ main = "connect"
  /\ main' = "runEnded" /\ runErr' = TRUE /\ mx' = "free"
  /\ UNCHANGED <<main0, conn, closeMsg>>

HandshakeOk ==
  /\ main = "handshake"
  /\ main' = "loop" /\ mx' = "free"
  /\ UNCHANGED <<main0, connVars>>

\* A refused or malformed handshake, a broken connection or a time-out.
HandshakeFails ==
  /\ main = "handshake"
  /\ main' = "runEnded" /\ runErr' = TRUE /\ conn' = "failed" /\ mx' = "free"
  /\ UNCHANGED <<main0, closeMsg>>

\* run: the new loop is stored and started; loop.Run first wakes the goroutine
\* that sets ClientConnected.
RunLoop ==
  /\ main = "loop" /\ mx = "free"
  /\ main' = "running"
  /\ closeMsg' = "none"
  /\ setters' = setters \cup {run}
  /\ conn' = "used"
  /\ UNCHANGED <<state, err, obsVars, notify, lockVars, watcher, waitVars, stop, ctxDone,
                 panicked, run, runErr>>

\* That goroutine.
SetConnected(r) ==
  /\ r \in setters
  /\ setState("Connected")
  /\ setters' = setters \ {r}
  /\ UNCHANGED <<err, connVars, obsVars, lockVars, main, run, watcher, waitVars, stop,
                 ctxDone, panicked>>

\* loop.Run returns: an error, or a close message.
LoopEnds ==
  /\ main = "running"
  /\ \E e \in BOOLEAN, m \in {"none", "allow", "deny"} :
       /\ m = "none" => e
       /\ runErr' = e /\ closeMsg' = m
  /\ main' = "reset"
  /\ UNCHANGED <<main0, conn, mx>>

\* Mutation: the connection is kept for the next iteration.
ResetConn_Keeps ==
  /\ main = "reset" /\ mx = "free"
  /\ main' = "runEnded"
  /\ UNCHANGED <<main0, connVars, mx>>

ResetConn ==
  /\ main = "reset" /\ mx = "free"
  /\ conn' = "none" /\ main' = "runEnded"
  /\ UNCHANGED <<main0, closeMsg, runErr, mx>>

RunEnded ==
  /\ main = "runEnded"
  /\ IF runErr THEN setErr("error", "decide")
     ELSE main' = "decide" /\ UNCHANGED <<main0, connVars, mx>>

\* shouldClientEnd up to setState(ClientClosed).
shouldClientEnd ==
  /\ main = "decide"
  /\ IF ctxDone THEN setErr("error", "close")
     ELSE /\ main' = IF ~Connector \/ closeMsg = "deny" THEN "close" ELSE "unobserve"
          /\ UNCHANGED <<main0, connVars, mx>>

SetClosed ==
  /\ main \in {"close", "exceeded"}
  /\ setState("Closed")
  /\ main' = IF main = "close" THEN "unobserveEnd" ELSE "exceededErr"
  /\ UNCHANGED <<err, connVars, obsVars, lockVars, run, setters, watcher, waitVars, stop,
                 ctxDone, panicked>>

CancelObserve ==
  /\ main \in {"unobserve", "unobserveEnd"}
  /\ cancelObserveStateChanged(run)
  /\ main' = IF main = "unobserve" THEN "backoff" ELSE "done"
  /\ UNCHANGED <<state, err, connVars, notify, lockVars, run, setters, watcher, waitVars,
                 stop, ctxDone>>

\* NextBackOff returns Stop.
BackoffExceeded ==
  /\ main = "backoff"
  /\ main' = "exceeded"
  /\ UNCHANGED <<main0, connVars, mx>>

BackoffErr == main = "exceededErr" /\ setErr("error", "done")

BackoffCanceled ==
  /\ main = "backoff" /\ ctxDone
  /\ main' = "done"
  /\ UNCHANGED <<main0, connVars, mx>>

\* The back-off time is over.
Reconnect ==
  /\ main = "backoff" /\ run < MaxRuns
  /\ setState("Connecting")
  /\ main' = "clearErr"
  /\ UNCHANGED <<err, connVars, obsVars, lockVars, run, setters, watcher, waitVars, stop,
                 ctxDone, panicked>>

-----------------------------------------------------------------------------
(* Stop.                                                                   *)

Stop ==
  /\ stop = "no"
  /\ stop' = "wait" /\ ctxDone' = TRUE
  /\ UNCHANGED <<state, err, connVars, obsVars, notify, lockVars, main, run, setters,
                 watcher, waitVars, panicked>>

\* waitGroup().Wait() returns and the state is set.
StopWaited ==
  /\ stop = "wait" /\ main \in {"idle", "done"}
  /\ setState("Closed")
  /\ stop' = "done"
  /\ UNCHANGED <<err, connVars, obsVars, lockVars, main, run, setters, watcher, waitVars,
                 ctxDone, panicked>>

\* The context given to NewClient is canceled.
CancelCtx ==
  /\ ~ctxDone
  /\ ctxDone' = TRUE
  /\ UNCHANGED <<state, err, connVars, obsVars, notify, lockVars, main, run, setters,
                 watcher, waitVars, stop, panicked>>

-----------------------------------------------------------------------------
(* WaitForState.                                                           *)

wait0 == <<state, err, connVars, notify, lockVars, main, run, setters, watcher, stop, ctxDone>>

\* What waitingIsOver reports in the current state, "none" to go on waiting.
waitingIsOver == CASE state = "Connected" -> "nil"
                   [] state = "Created"   -> "not started"
                   [] state = "Closed"    -> "closed"
                   [] OTHER               -> "none"

WaitForState(w) ==
  /\ waiter[w] = "idle" /\ mx = "free"
  /\ result' = [result EXCEPT ![w] = waitingIsOver]
  /\ waiter' = [waiter EXCEPT ![w] = IF waitingIsOver = "none" THEN "observe" ELSE "returned"]
  /\ UNCHANGED <<wait0, obsVars, panicked>>

WaitObserve(w) ==
  /\ waiter[w] = "observe"
  /\ ObserveStateChanged(w)
  /\ waiter' = [waiter EXCEPT ![w] = "check"]
  /\ UNCHANGED <<wait0, result, panicked>>

\* Mutation: the state is not read again after the registration.
WaitCheck_TrustsFirst(w) ==
  /\ waiter[w] = "check" /\ mx = "free"
  /\ waiter' = [waiter EXCEPT ![w] = "select"]
  /\ UNCHANGED <<wait0, obsVars, result, panicked>>

WaitCheck(w) ==
  /\ waiter[w] = "check" /\ mx = "free"
  /\ result' = [result EXCEPT ![w] = waitingIsOver]
  /\ waiter' = [waiter EXCEPT ![w] = IF waitingIsOver = "none" THEN "select" ELSE "cancel"]
  /\ UNCHANGED <<wait0, obsVars, panicked>>

WaitRecv(w) ==
  /\ waiter[w] = "select" /\ chan[w].full
  /\ chan' = [chan EXCEPT ![w].full = FALSE]
  /\ waiter' = [waiter EXCEPT ![w] = "check"]
  /\ UNCHANGED <<wait0, observers, result, panicked>>

\* The context of the client or of the call is canceled.
WaitCanceled(w) ==
  /\ waiter[w] = "select" /\ ctxDone
  /\ result' = [result EXCEPT ![w] = "canceled"]
  /\ waiter' = [waiter EXCEPT ![w] = "cancel"]
  /\ UNCHANGED <<wait0, obsVars, panicked>>

WaitCtx(w) ==
  /\ waiter[w] = "select"
  /\ result' = [result EXCEPT ![w] = "ctx"]
  /\ waiter' = [waiter EXCEPT ![w] = "cancel"]
  /\ UNCHANGED <<wait0, obsVars, panicked>>

\* The deferred cancel ends the observation, then the channel is closed.
WaitEnds(w) ==
  /\ waiter[w] = "cancel"
  /\ cancelObserveStateChanged(w)
  /\ waiter' = [waiter EXCEPT ![w] = "returned"]
  /\ UNCHANGED <<wait0, result>>

-----------------------------------------------------------------------------
Main == \/ ClearErr \/ ObserveRun \/ SetupBegins \/ FactoryFails \/ HandshakeFails
        \/ RunLoop \/ ResetConn \/ RunEnded \/ shouldClientEnd \/ SetClosed
        \/ CancelObserve \/ BackoffErr \/ BackoffCanceled
        \/ (ctxDone /\ LoopEnds)
Observer(o) == Notify(o) \/ NotifyBlocks(o) \/ NotifyUnblocks(o)
Watch(r) == WatcherRecv(r) \/ WatcherCheck(r)
Wait(w) == \/ WaitObserve(w) \/ WaitCheck(w) \/ WaitRecv(w) \/ WaitCanceled(w)
           \/ WaitEnds(w)

Next ==
  \/ \E o \in Observers : Observer(o)
  \/ \E r \in Runs : Watch(r) \/ SetConnected(r)
  \/ \E w \in Waiters : WaitForState(w) \/ Wait(w) \/ WaitCtx(w)
  \/ Main \/ FactoryOk \/ HandshakeOk \/ LoopEnds \/ BackoffExceeded \/ Reconnect
  \/ Start \/ Stop \/ StopWaited \/ CancelCtx

(***************************************************************************)
(* Runnable goroutines run, the handshake ends (it has a time-out), the    *)
(* connection factory returns and a loop whose context is canceled ends.   *)
(* Nothing is assumed of the server, of the user or of the back-off.       *)
(***************************************************************************)
Fairness ==
  /\ \A o \in Observers : WF_vars(Observer(o))
  /\ \A r \in Runs : WF_vars(Watch(r)) /\ WF_vars(SetConnected(r))
  /\ \A w \in Waiters : WF_vars(Wait(w))
  /\ WF_vars(Main) /\ WF_vars(StopWaited)

Spec == Init /\ [][Next]_vars
FairSpec == Spec /\ Fairness

-----------------------------------------------------------------------------
(* Properties.                                                             *)

MainStates == {"idle", "clearErr", "observe", "setup", "connect", "handshake", "loop",
               "running", "reset", "runEnded", "decide", "close", "unobserve",
               "unobserveEnd", "backoff", "exceeded", "exceededErr", "done"}

\* Each variable has its type; the mutex is held during the set-up only then.
TypeOK ==
  /\ state \in States
  /\ err \in {"nil", "error"}
  /\ conn \in {"none", "fresh", "failed", "used"}
  /\ closeMsg \in {"none", "allow", "deny"}
  /\ observers \subseteq Observers
  /\ chan \in [Observers -> [full : BOOLEAN, closed : BOOLEAN]]
  /\ notify \in [Observers -> Nat]
  /\ mx \in {"free", "setup", "notify"}
  /\ blocked \subseteq Observers
  /\ mx = "notify" <=> blocked # {}
  /\ mx = "setup" <=> main \in {"connect", "handshake"}
  /\ main \in MainStates
  /\ run \in 0..MaxRuns
  /\ main \in {"clearErr", "observe"} => run < MaxRuns
  /\ main \in MainStates \ {"idle", "done", "clearErr", "observe"} => run > 0
  /\ runErr \in BOOLEAN
  /\ setters \subseteq Runs
  /\ watcher \in [Runs -> {"off", "recv", "check", "done"}]
  /\ waiter \in [Waiters -> {"idle", "observe", "check", "select", "cancel", "returned"}]
  /\ result \in [Waiters -> {"none", "nil", "not started", "closed", "canceled", "ctx"}]
  /\ stop \in {"no", "wait", "done"}
  /\ ctxDone \in BOOLEAN
  /\ panicked \in BOOLEAN

\* Nothing that is over is used again.  No goroutine of setState sends to, and no
\* cancel function closes, a channel that is already closed, however late the
\* goroutine runs; and no handshake runs over a connection that a loop has used:
\* run resets c.conn when its loop has ended, so that the next iteration asks the
\* connector for a new one.
NothingStaleUsed == ~panicked /\ (main = "handshake" => conn # "used")

\* No wake-up is missed: when the state a waiter waits for has been reached, or
\* the client is closed, and the waiter still waits, then a wake-up is on its way
\* to it, even if the change came between its look at the state and its
\* registration.
NoMissedWakeup ==
  \A w \in Waiters :
    waiter[w] = "select" /\ state \in {"Connected", "Closed"} /\ ~ctxDone =>
      chan[w].full \/ notify[w] > 0 \/ w \in blocked

\* Canceling the client ends everything, whoever holds the mutex: Stop returns
\* and every waiter is released.
CanceledClientEnds ==
  /\ stop = "wait" ~> stop = "done"
  /\ \A w \in Waiters : (ctxDone /\ waiter[w] # "idle") ~> waiter[w] = "returned"

\* client.go:39: "The Client is not able to send and receive messages anymore
\* and has to be started again to be able to."
ClosedUntilStart ==
  [][state = "Closed" => state' \in {"Closed", "Connecting"}]_vars

\* client.go:78: "WaitForState returns a channel for waiting on the Client to
\* reach a specific ClientState. The channel either returns an error if ctx or
\* the client has been canceled. or nil": the waiters of a closed client do not
\* wait forever.
ClosedReleasesWaiters ==
  \A w \in Waiters :
    (state = "Closed" /\ waiter[w] # "idle") ~> (waiter[w] = "returned" \/ state # "Closed")

\* clientoptions.go:25: "WithConnector allows the Client to establish a
\* connection using the Connection build by the connectionFactory. It is also
\* used for auto reconnect if the connection is lost."
FreshConnection == main = "handshake" => conn = "fresh"

\* client.go:63: "When WithConnector is set and the server allows reconnection,
\* the client switches to ClientConnecting and tries to reach ClientConnected
\* after the last connection has ended."
BackoffIsConnecting == main = "backoff" => state # "Connected"
=============================================================================
