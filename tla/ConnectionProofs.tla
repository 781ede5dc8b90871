-------------------------- MODULE ConnectionProofs ---------------------------
(***************************************************************************)
(* Proofs about the two ends of a connection.  The server's (ServerHub),   *)
(* for any number of connections and invocations: which hub may be left in *)
(* connectionHubs, and what a panic of the hub tells the peers.  The       *)
(* client's (ClientState), for any number of waiters and of iterations:    *)
(* nothing that is over is used, no wake-up is lost.                       *)
(***************************************************************************)
EXTENDS ServerHub, ClientLife, TLAPS

-----------------------------------------------------------------------------
(* The hubs of a server.                                                   *)

\* A hub that an actor has made and not stored yet belongs to this actor alone:
\* no method was called on it and it is not in the map.  Methods are called by
\* the loop, so none is called on a hub of a connection whose loop has ended.
HubInv ==
  \A c \in Conns :
    /\ used[c] \subseteq 1 .. created[c]
    /\ loop[c] # "dispatch" => pc["Invoke"][c] = "off"
    /\ \A t \in Actors :
         pc[t][c] = "store" =>
           /\ local[t][c] # 0 /\ local[t][c] \notin used[c]
           /\ local[t][c] # connectionHubs[c]
           /\ \A u \in Actors \ {t} : local[u][c] # local[t][c]
    /\ loop[c] \in {"close", "ended"} /\ connectionHubs[c] # 0
         => connectionHubs[c] \notin used[c]

\* Who cancels the server after a panic has withdrawn reconnectAllowed before; a
\* loop that the server's context ended has sent no Close message that allows
\* to reconnect.
Denied ==
  serverDone = "panic" => \A c \in Conns : err[c] = "server" => closeMsg[c] # "allow"

PanicInv ==
  /\ \A t \in Actors, c \in Conns : pc[t][c] = "cancel" => ~reconnectAllowed
  /\ serverDone = "panic" => ~reconnectAllowed
  /\ \A c \in Conns : err[c] = "server" => serverDone # "no"
  /\ \A c \in Conns : closeMsg[c] # "none" => loop[c] = "ended"
  /\ Denied

\* A new server has no connection, and its invariants hold.
LEMMA InitInv == Init => TypeOK /\ HubInv /\ PanicInv
<1> SUFFICES ASSUME Init PROVE TypeOK /\ HubInv /\ PanicInv
  OBVIOUS
<1>1. TypeOK
  BY InvocationsBound DEF Init, TypeOK, Actors
<1>2. HubInv
  BY DEF Init, HubInv, Actors, Lifecycle
<1>3. PanicInv
  BY DEF Init, PanicInv, Denied
<1> QED
  BY <1>1, <1>2, <1>3

\* Every step keeps the types.
LEMMA TypesStep ==
  ASSUME TypeOK, [Next]_vars
  PROVE  TypeOK'
<1> USE InvocationsBound DEF TypeOK, hubVars, serverVars, Actors, Lifecycle
<1>1. ASSUME NEW c \in Conns, onConnected(c)
      PROVE  TypeOK'
  BY <1>1 DEF onConnected
<1>2. ASSUME NEW c \in Conns, handleInvocationMessage(c)
      PROVE  TypeOK'
  BY <1>2 DEF handleInvocationMessage
<1>3. ASSUME NEW c \in Conns, CallMethod(c)
      PROVE  TypeOK'
  BY <1>3 DEF CallMethod
<1>4. ASSUME NEW c \in Conns, NEW why \in {"close", "error", "server"}, LoopEnds(c, why)
      PROVE  TypeOK'
  BY <1>4 DEF LoopEnds
<1>5. ASSUME NEW c \in Conns, onDisconnected(c)
      PROVE  TypeOK'
  BY <1>5 DEF onDisconnected
<1>6. ASSUME NEW c \in Conns, removeConnectionHub(c)
      PROVE  TypeOK'
  BY <1>6 DEF removeConnectionHub
<1>7. ASSUME NEW c \in Conns, CloseConnection(c)
      PROVE  TypeOK'
  BY <1>7 DEF CloseConnection
<1>8. ASSUME NEW t \in Actors, NEW c \in Conns, newHub(t, c)
      PROVE  TypeOK'
  BY <1>8 DEF newHub
<1>9. ASSUME NEW t \in Actors, NEW c \in Conns, getConnectionHub(t, c)
      PROVE  TypeOK'
  <2>1. CASE connectionHubs[c] # 0
    <3>1. /\ local' = [local EXCEPT ![t][c] = connectionHubs[c]]
          /\ pc' = [pc EXCEPT ![t][c] = "call"]
          /\ created' = created
      BY <1>9, <2>1 DEF getConnectionHub
    <3>2. local' \in [Actors -> [Conns -> Nat]]
      BY <3>1
    <3>3. \A u \in Actors, d \in Conns :
            local'[u][d] <= created'[d]
            /\ (pc'[u][d] \in {"store", "call"} /\ perConnection => local'[u][d] # 0)
      BY <2>1, <3>1
    <3> QED
      BY <1>9, <3>1, <3>2, <3>3 DEF getConnectionHub
  <2>2. CASE connectionHubs[c] = 0
    <3>1. /\ created' = [created EXCEPT ![c] = created[c] + 1]
          /\ local' = [local EXCEPT ![t][c] = created[c] + 1]
          /\ pc' = [pc EXCEPT ![t][c] = "store"]
      BY <1>9, <2>2 DEF getConnectionHub
    <3>2. created' \in [Conns -> Nat] /\ local' \in [Actors -> [Conns -> Nat]]
      BY <3>1
    <3>3. \A d \in Conns : created[d] <= created'[d] /\ connectionHubs[d] <= created'[d]
      BY <3>1
    <3>4. \A u \in Actors, d \in Conns :
            local'[u][d] <= created'[d]
            /\ (pc'[u][d] \in {"store", "call"} /\ perConnection => local'[u][d] # 0)
      BY <3>1
    <3> QED
      BY <1>9, <3>1, <3>2, <3>3, <3>4 DEF getConnectionHub
  <2> QED
    BY <2>1, <2>2
<1>10. ASSUME NEW t \in Actors, NEW c \in Conns, setConnectionHub(t, c)
      PROVE  TypeOK'
  BY <1>10 DEF setConnectionHub
<1>11. ASSUME NEW t \in Actors, NEW c \in Conns, LifecycleReturns(t, c)
      PROVE  TypeOK'
  BY <1>11 DEF LifecycleReturns
<1>12. ASSUME NEW t \in Actors, NEW c \in Conns, recoverHubLifeCyclePanic(t, c)
      PROVE  TypeOK'
  <2>1. reconnectAllowed' \in BOOLEAN
    BY <1>12, Zenon DEF recoverHubLifeCyclePanic
  <2>2. local' \in [Actors -> [Conns -> Nat]]
    BY <1>12 DEF recoverHubLifeCyclePanic
  <2> QED
    BY <1>12, <2>1, <2>2 DEF recoverHubLifeCyclePanic
<1>13. ASSUME NEW t \in Actors, NEW c \in Conns, CancelServer(t, c)
      PROVE  TypeOK'
  BY <1>13 DEF CancelServer
<1>14. CASE OwnerCancels
  BY <1>14 DEF OwnerCancels
<1>15. CASE UNCHANGED vars
  BY <1>15 DEF vars
<1> HIDE DEF TypeOK, Actors, Lifecycle
<1> QED
  BY <1>1, <1>2, <1>3, <1>4, <1>5, <1>6, <1>7, <1>8, <1>9, <1>10, <1>11, <1>12, <1>13, <1>14, <1>15
     DEF Next, LoopStep, LookupStep

\* No step lets a second actor have a hub that is not stored yet.
LEMMA HubStep ==
  ASSUME TypeOK, HubInv, [Next]_vars
  PROVE  HubInv'
<1> USE InvocationsBound DEF TypeOK, HubInv, hubVars, serverVars, Actors, Lifecycle
<1>1. ASSUME NEW c \in Conns, onConnected(c)
      PROVE  HubInv'
  BY <1>1 DEF onConnected
<1>2. ASSUME NEW c \in Conns, handleInvocationMessage(c)
      PROVE  HubInv'
  BY <1>2 DEF handleInvocationMessage
<1>3. ASSUME NEW c \in Conns, CallMethod(c)
      PROVE  HubInv'
  BY <1>3 DEF CallMethod
<1>4. ASSUME NEW c \in Conns, NEW why \in {"close", "error", "server"}, LoopEnds(c, why)
      PROVE  HubInv'
  BY <1>4 DEF LoopEnds
<1>5. ASSUME NEW c \in Conns, onDisconnected(c)
      PROVE  HubInv'
  BY <1>5 DEF onDisconnected
<1>6. ASSUME NEW c \in Conns, removeConnectionHub(c)
      PROVE  HubInv'
  BY <1>6 DEF removeConnectionHub
<1>7. ASSUME NEW c \in Conns, CloseConnection(c)
      PROVE  HubInv'
  BY <1>7 DEF CloseConnection
<1>8. ASSUME NEW t \in Actors, NEW c \in Conns, newHub(t, c)
      PROVE  HubInv'
  BY <1>8 DEF newHub
<1>9. ASSUME NEW t \in Actors, NEW c \in Conns, getConnectionHub(t, c)
      PROVE  HubInv'
  BY <1>9 DEF getConnectionHub
<1>10. ASSUME NEW t \in Actors, NEW c \in Conns, setConnectionHub(t, c)
      PROVE  HubInv'
  BY <1>10 DEF setConnectionHub
<1>11. ASSUME NEW t \in Actors, NEW c \in Conns, LifecycleReturns(t, c)
      PROVE  HubInv'
  BY <1>11 DEF LifecycleReturns
<1>12. ASSUME NEW t \in Actors, NEW c \in Conns, recoverHubLifeCyclePanic(t, c)
      PROVE  HubInv'
  BY <1>12 DEF recoverHubLifeCyclePanic
<1>13. ASSUME NEW t \in Actors, NEW c \in Conns, CancelServer(t, c)
      PROVE  HubInv'
  BY <1>13 DEF CancelServer
<1>14. CASE OwnerCancels
  BY <1>14 DEF OwnerCancels
<1>15. CASE UNCHANGED vars
  BY <1>15 DEF vars
<1> HIDE DEF TypeOK, HubInv, Actors, Lifecycle
<1> QED
  BY <1>1, <1>2, <1>3, <1>4, <1>5, <1>6, <1>7, <1>8, <1>9, <1>10, <1>11, <1>12, <1>13, <1>14, <1>15
     DEF Next, LoopStep, LookupStep

\* Every step keeps the order of a panic: reconnectAllowed, then the context.
LEMMA PanicStep ==
  ASSUME TypeOK, HubInv, PanicInv, [Next]_vars
  PROVE  PanicInv'
<1> USE DEF TypeOK, PanicInv, Denied, hubVars, serverVars, Actors, Lifecycle
<1>1. ASSUME NEW c \in Conns, onConnected(c)
      PROVE  PanicInv'
  BY <1>1 DEF onConnected
<1>2. ASSUME NEW c \in Conns, handleInvocationMessage(c)
      PROVE  PanicInv'
  BY <1>2 DEF handleInvocationMessage
<1>3. ASSUME NEW c \in Conns, CallMethod(c)
      PROVE  PanicInv'
  BY <1>3 DEF CallMethod, HubInv
<1>4. ASSUME NEW c \in Conns, NEW why \in {"close", "error", "server"}, LoopEnds(c, why)
      PROVE  PanicInv'
  BY <1>4 DEF LoopEnds
<1>5. ASSUME NEW c \in Conns, onDisconnected(c)
      PROVE  PanicInv'
  BY <1>5 DEF onDisconnected
<1>6. ASSUME NEW c \in Conns, removeConnectionHub(c)
      PROVE  PanicInv'
  BY <1>6 DEF removeConnectionHub
<1>7. ASSUME NEW c \in Conns, CloseConnection(c)
      PROVE  PanicInv'
  BY <1>7 DEF CloseConnection
<1>8. ASSUME NEW t \in Actors, NEW c \in Conns, newHub(t, c)
      PROVE  PanicInv'
  BY <1>8 DEF newHub
<1>9. ASSUME NEW t \in Actors, NEW c \in Conns, getConnectionHub(t, c)
      PROVE  PanicInv'
  BY <1>9 DEF getConnectionHub
<1>10. ASSUME NEW t \in Actors, NEW c \in Conns, setConnectionHub(t, c)
      PROVE  PanicInv'
  BY <1>10 DEF setConnectionHub
<1>11. ASSUME NEW t \in Actors, NEW c \in Conns, LifecycleReturns(t, c)
      PROVE  PanicInv'
  BY <1>11 DEF LifecycleReturns
<1>12. ASSUME NEW t \in Actors, NEW c \in Conns, recoverHubLifeCyclePanic(t, c)
      PROVE  PanicInv'
  BY <1>12 DEF recoverHubLifeCyclePanic
<1>13. ASSUME NEW t \in Actors, NEW c \in Conns, CancelServer(t, c)
      PROVE  PanicInv'
  BY <1>13 DEF CancelServer
<1>14. CASE OwnerCancels
  BY <1>14 DEF OwnerCancels
<1>15. CASE UNCHANGED vars
  BY <1>15 DEF vars
<1> HIDE DEF TypeOK, PanicInv, Denied, Actors, Lifecycle
<1> QED
  BY <1>1, <1>2, <1>3, <1>4, <1>5, <1>6, <1>7, <1>8, <1>9, <1>10, <1>11, <1>12, <1>13, <1>14, <1>15
     DEF Next, LoopStep, LookupStep

\* The invariants hold in every state.
LEMMA Invariant == Spec => [](TypeOK /\ HubInv /\ PanicInv)
<1>1. TypeOK /\ HubInv /\ PanicInv /\ [Next]_vars => (TypeOK /\ HubInv /\ PanicInv)'
  BY TypesStep, HubStep, PanicStep
<1> QED
  BY InitInv, <1>1, PTL DEF Spec

\* A hub that is found in connectionHubs after removeConnectionHub
\* (server.go:160-169) has served none of the connection's methods, for any
\* number of connections and invocations.
THEOREM LeftoverIsNew == Spec => []LeftoverServedNoMethod
<1>1. HubInv => LeftoverServedNoMethod
  BY DEF HubInv, LeftoverServedNoMethod
<1> QED
  BY Invariant, <1>1, PTL

\* A loop that ended because a hub panicked tells its peer not to reconnect: the
\* safety part of PanicEndsLoops (server.go:198-206 and loop.go:142).
THEOREM PanicDeniesReconnect == Spec => []Denied
<1>1. PanicInv => Denied
  BY DEF PanicInv
<1> QED
  BY Invariant, <1>1, PTL

-----------------------------------------------------------------------------
(* The life of a client.                                                   *)

Chans == [S!Observers -> [full : BOOLEAN, closed : BOOLEAN]]

\* The types of what the properties are about; the iteration has a number while
\* Start's goroutine is in one, and the mutex is held by whoever is blocked.
StateTypes ==
  /\ state \in S!States
  /\ observers \subseteq S!Observers
  /\ chan \in Chans
  /\ notify \in [S!Observers -> Nat]
  /\ blocked \subseteq S!Observers
  /\ \A a, b \in blocked : a = b
  /\ mx # "notify" => blocked = {}
  /\ mx = "setup" <=> main \in {"connect", "handshake"}
  /\ main \in S!MainStates
  /\ run \in 0 .. MaxRuns
  /\ main \in {"clearErr", "observe"} => run < MaxRuns
  /\ main \in S!MainStates \ {"idle", "done", "clearErr", "observe"} => run > 0
  /\ waiter \in [Waiters -> {"idle", "observe", "check", "select", "cancel", "returned"}]

\* A closed channel is observed no more, and is never observed again: it is the
\* channel of an iteration or of a waiter that is over.  The goroutine that holds
\* the mutex is to wake up an observer, and a connection that a loop has used is
\* reset before the next iteration.
StaleInv ==
  /\ \A o \in observers : ~chan[o].closed
  /\ blocked \subseteq observers
  /\ \A r \in S!Runs : chan[r].closed => r <= run
  /\ \A w \in Waiters : chan[w].closed => waiter[w] = "returned"
  /\ ~clientPanicked
  /\ conn = "used" => main \in {"running", "reset"}

\* A waiter that looks at the state or waits is an observer.
WakeInv ==
  /\ \A w \in Waiters : waiter[w] \in {"check", "select"} => w \in observers
  /\ S!NoMissedWakeup

\* A client that was not started has its types.
LEMMA StateInit ==
  ASSUME S!Bounds, S!Init
  PROVE  StateTypes /\ StaleInv /\ WakeInv
<1>1. StateTypes
  BY DEF S!Init, S!Bounds, S!Runs, S!Observers, S!States, S!MainStates, StateTypes, Chans
<1>2. StaleInv
  BY DEF S!Init, S!Observers, StaleInv
<1>3. WakeInv
  BY DEF S!Init, WakeInv, S!NoMissedWakeup
<1> QED
  BY <1>1, <1>2, <1>3

\* What is done to a channel leaves it a channel.
LEMMA ChanUpdate ==
  ASSUME chan \in Chans, NEW o \in S!Observers
  PROVE  /\ \A b \in BOOLEAN : [chan EXCEPT ![o].full = b] \in Chans
         /\ [chan EXCEPT ![o].closed = TRUE] \in Chans
  BY Zenon DEF Chans

\* Every step keeps the types.
LEMMA StateTypesStep ==
  ASSUME S!Bounds, StateTypes, [S!Next]_(S!vars)
  PROVE  StateTypes'
<1> USE DEF S!Bounds, S!Runs, S!Observers, StateTypes, S!connVars, S!obsVars, S!waitVars, S!lockVars, S!States, S!MainStates
<1>1. ASSUME NEW o \in S!Observers, S!Notify(o)
      PROVE  StateTypes'
  <2>1. chan' \in Chans
    BY <1>1, ChanUpdate, Zenon DEF S!Notify, S!Deliver, S!rest
  <2> QED
    BY <1>1, <2>1 DEF S!Notify, S!Deliver, S!rest
<1>2. ASSUME NEW o \in S!Observers, S!NotifyBlocks(o)
      PROVE  StateTypes'
  BY <1>2 DEF S!NotifyBlocks, S!rest
<1>3. ASSUME NEW o \in S!Observers, S!NotifyUnblocks(o)
      PROVE  StateTypes'
  <2>1. chan' \in Chans
    BY <1>3, ChanUpdate, Zenon DEF S!NotifyUnblocks, S!Deliver, S!rest
  <2> QED
    BY <1>3, <2>1 DEF S!NotifyUnblocks, S!Deliver, S!rest
<1>4. ASSUME NEW r \in S!Runs, S!WatcherRecv(r)
      PROVE  StateTypes'
  <2>1. chan' \in Chans
    BY <1>4, ChanUpdate, Zenon DEF S!WatcherRecv
  <2> QED
    BY <1>4, <2>1 DEF S!WatcherRecv
<1>5. ASSUME NEW r \in S!Runs, S!WatcherCheck(r)
      PROVE  StateTypes'
  BY <1>5 DEF S!WatcherCheck
<1>6. ASSUME NEW r \in S!Runs, S!SetConnected(r)
      PROVE  StateTypes'
  BY <1>6 DEF S!SetConnected, S!setState
<1>7. ASSUME NEW w \in Waiters, S!WaitForState(w)
      PROVE  StateTypes'
  BY <1>7, Zenon DEF S!WaitForState, S!wait0, S!waitingIsOver
<1>8. ASSUME NEW w \in Waiters, S!WaitObserve(w)
      PROVE  StateTypes'
  BY <1>8, Zenon DEF S!WaitObserve, S!wait0, S!ObserveStateChanged
<1>9. ASSUME NEW w \in Waiters, S!WaitCheck(w)
      PROVE  StateTypes'
  BY <1>9, Zenon DEF S!WaitCheck, S!wait0, S!waitingIsOver
<1>10. ASSUME NEW w \in Waiters, S!WaitRecv(w)
      PROVE  StateTypes'
  <2>1. chan' \in Chans
    BY <1>10, ChanUpdate, Zenon DEF S!WaitRecv, S!wait0
  <2> QED
    BY <1>10, <2>1 DEF S!WaitRecv, S!wait0
<1>11. ASSUME NEW w \in Waiters, S!WaitCanceled(w)
      PROVE  StateTypes'
  BY <1>11 DEF S!WaitCanceled, S!wait0
<1>12. ASSUME NEW w \in Waiters, S!WaitEnds(w)
      PROVE  StateTypes'
  <2>1. chan' \in Chans /\ observers' \subseteq S!Observers
    <3>1. chan' = chan \/ chan' = [chan EXCEPT ![w].closed = TRUE]
      BY <1>12, Zenon DEF S!WaitEnds, S!wait0, S!cancelObserveStateChanged
    <3>2. observers' \subseteq observers
      BY <1>12, Zenon DEF S!WaitEnds, S!wait0, S!cancelObserveStateChanged
    <3> QED
      BY <3>1, <3>2, ChanUpdate
  <2> QED
    BY <1>12, <2>1 DEF S!WaitEnds, S!wait0, S!cancelObserveStateChanged
<1>13. ASSUME NEW w \in Waiters, S!WaitCtx(w)
      PROVE  StateTypes'
  BY <1>13 DEF S!WaitCtx, S!wait0
<1>14. CASE S!ClearErr
  BY <1>14 DEF S!ClearErr, S!setErr
<1>15. CASE S!ObserveRun
  BY <1>15 DEF S!ObserveRun, S!ObserveStateChanged
<1>16. CASE S!SetupBegins
  BY <1>16 DEF S!SetupBegins, S!main0
<1>17. CASE S!FactoryOk
  BY <1>17 DEF S!FactoryOk, S!main0
<1>18. CASE S!FactoryFails
  BY <1>18 DEF S!FactoryFails, S!main0
<1>19. CASE S!HandshakeOk
  BY <1>19 DEF S!HandshakeOk, S!main0
<1>20. CASE S!HandshakeFails
  BY <1>20 DEF S!HandshakeFails, S!main0
<1>21. CASE S!RunLoop
  BY <1>21 DEF S!RunLoop
<1>22. CASE S!LoopEnds
  BY <1>22 DEF S!LoopEnds, S!main0
<1>23. CASE S!ResetConn
  BY <1>23 DEF S!ResetConn, S!main0
<1>24. CASE S!RunEnded
  BY <1>24, Zenon DEF S!RunEnded, S!main0, S!setErr
<1>25. CASE S!shouldClientEnd
  BY <1>25, Zenon DEF S!shouldClientEnd, S!main0, S!setErr
<1>26. CASE S!SetClosed
  BY <1>26 DEF S!SetClosed, S!setState
<1>27. CASE S!CancelObserve
  <2>1. chan' \in Chans /\ observers' \subseteq S!Observers
    <3>1. chan' = chan \/ chan' = [chan EXCEPT ![run].closed = TRUE]
      BY <1>27, Zenon DEF S!CancelObserve, S!cancelObserveStateChanged
    <3>2. observers' \subseteq observers
      BY <1>27, Zenon DEF S!CancelObserve, S!cancelObserveStateChanged
    <3>3. run \in S!Observers
      BY <1>27 DEF S!CancelObserve
    <3> QED
      BY <3>1, <3>2, <3>3, ChanUpdate, Zenon
  <2> QED
    BY <1>27, <2>1 DEF S!CancelObserve, S!cancelObserveStateChanged
<1>28. CASE S!BackoffExceeded
  BY <1>28 DEF S!BackoffExceeded, S!main0
<1>29. CASE S!BackoffErr
  BY <1>29 DEF S!BackoffErr, S!setErr
<1>30. CASE S!BackoffCanceled
  BY <1>30 DEF S!BackoffCanceled, S!main0
<1>31. CASE S!Reconnect
  BY <1>31 DEF S!Reconnect, S!setState
<1>32. CASE S!Start
  BY <1>32 DEF S!Start, S!setState
<1>33. CASE S!Stop
  BY <1>33 DEF S!Stop
<1>34. CASE S!StopWaited
  BY <1>34 DEF S!StopWaited, S!setState
<1>35. CASE S!CancelCtx
  BY <1>35 DEF S!CancelCtx
<1>36. CASE UNCHANGED S!vars
  BY <1>36 DEF S!vars
<1> HIDE DEF StateTypes, S!Runs, S!Observers
<1> QED
  BY <1>1, <1>2, <1>3, <1>4, <1>5, <1>6, <1>7, <1>8, <1>9, <1>10, <1>11, <1>12, <1>13, <1>14, <1>15, <1>16, <1>17, <1>18,
     <1>19, <1>20, <1>21, <1>22, <1>23, <1>24, <1>25, <1>26, <1>27, <1>28, <1>29, <1>30, <1>31, <1>32, <1>33, <1>34, <1>35, <1>36
     DEF S!Next, S!Observer, S!Watch, S!Wait, S!Main

\* No step closes a channel twice, observes one that is closed, or begins an
\* iteration with a used connection.
LEMMA StaleStep ==
  ASSUME S!Bounds, StateTypes, StaleInv, [S!Next]_(S!vars)
  PROVE  StaleInv'
<1> USE DEF S!Bounds, S!Runs, S!Observers, StateTypes, S!connVars, S!obsVars, S!waitVars, S!lockVars, StaleInv, Chans
<1>1. ASSUME NEW o \in S!Observers, S!Notify(o)
      PROVE  StaleInv'
  <2>1. UNCHANGED <<observers, run, waiter, conn, main, blocked>>
    BY <1>1 DEF S!Notify, S!Deliver, S!rest
  <2>2. ~clientPanicked'
    BY <1>1, Zenon DEF S!Notify, S!Deliver, S!rest
  <2>3. chan' = chan \/ chan' = [chan EXCEPT ![o].full = TRUE]
    BY <1>1, Zenon DEF S!Notify, S!Deliver, S!rest
  <2>4. \A p \in S!Observers : chan'[p].closed = chan[p].closed
    BY <2>3
  <2> QED
    BY <2>1, <2>2, <2>4, Zenon
<1>2. ASSUME NEW o \in S!Observers, S!NotifyBlocks(o)
      PROVE  StaleInv'
  BY <1>2 DEF S!NotifyBlocks, S!rest
<1>3. ASSUME NEW o \in S!Observers, S!NotifyUnblocks(o)
      PROVE  StaleInv'
  <2>1. o \in observers /\ ~chan[o].closed /\ UNCHANGED <<observers, run, waiter, conn, main>>
    BY <1>3 DEF S!NotifyUnblocks, S!Deliver, S!rest
  <2>2. ~clientPanicked'
    BY <1>3, <2>1, Zenon DEF S!NotifyUnblocks, S!Deliver, S!rest
  <2>3. chan' = chan \/ chan' = [chan EXCEPT ![o].full = TRUE]
    BY <1>3, Zenon DEF S!NotifyUnblocks, S!Deliver, S!rest
  <2>4. \A p \in S!Observers : chan'[p].closed = chan[p].closed
    BY <2>3
  <2> QED
    BY <1>3, <2>1, <2>2, <2>4 DEF S!NotifyUnblocks, S!Deliver, S!rest
<1>4. ASSUME NEW r \in S!Runs, S!WatcherRecv(r)
      PROVE  StaleInv'
  BY <1>4 DEF S!WatcherRecv
<1>5. ASSUME NEW r \in S!Runs, S!WatcherCheck(r)
      PROVE  StaleInv'
  BY <1>5 DEF S!WatcherCheck
<1>6. ASSUME NEW r \in S!Runs, S!SetConnected(r)
      PROVE  StaleInv'
  BY <1>6 DEF S!SetConnected, S!setState
<1>7. ASSUME NEW w \in Waiters, S!WaitForState(w)
      PROVE  StaleInv'
  BY <1>7, Zenon DEF S!WaitForState, S!wait0, S!waitingIsOver
<1>8. ASSUME NEW w \in Waiters, S!WaitObserve(w)
      PROVE  StaleInv'
  BY <1>8 DEF S!WaitObserve, S!wait0, S!ObserveStateChanged
<1>9. ASSUME NEW w \in Waiters, S!WaitCheck(w)
      PROVE  StaleInv'
  BY <1>9, Zenon DEF S!WaitCheck, S!wait0, S!waitingIsOver
<1>10. ASSUME NEW w \in Waiters, S!WaitRecv(w)
      PROVE  StaleInv'
  BY <1>10 DEF S!WaitRecv, S!wait0
<1>11. ASSUME NEW w \in Waiters, S!WaitCanceled(w)
      PROVE  StaleInv'
  BY <1>11 DEF S!WaitCanceled, S!wait0
<1>12. ASSUME NEW w \in Waiters, S!WaitEnds(w)
      PROVE  StaleInv'
  BY <1>12 DEF S!WaitEnds, S!wait0, S!cancelObserveStateChanged
<1>13. ASSUME NEW w \in Waiters, S!WaitCtx(w)
      PROVE  StaleInv'
  BY <1>13 DEF S!WaitCtx, S!wait0
<1>14. CASE S!ClearErr
  BY <1>14 DEF S!ClearErr, S!setErr
<1>15. CASE S!ObserveRun
  BY <1>15 DEF S!ObserveRun, S!ObserveStateChanged
<1>16. CASE S!SetupBegins
  BY <1>16 DEF S!SetupBegins, S!main0
<1>17. CASE S!FactoryOk
  BY <1>17 DEF S!FactoryOk, S!main0
<1>18. CASE S!FactoryFails
  BY <1>18 DEF S!FactoryFails, S!main0
<1>19. CASE S!HandshakeOk
  BY <1>19 DEF S!HandshakeOk, S!main0
<1>20. CASE S!HandshakeFails
  BY <1>20 DEF S!HandshakeFails, S!main0
<1>21. CASE S!RunLoop
  BY <1>21 DEF S!RunLoop
<1>22. CASE S!LoopEnds
  BY <1>22 DEF S!LoopEnds, S!main0
<1>23. CASE S!ResetConn
  BY <1>23 DEF S!ResetConn, S!main0
<1>24. CASE S!RunEnded
  BY <1>24, Zenon DEF S!RunEnded, S!main0, S!setErr
<1>25. CASE S!shouldClientEnd
  BY <1>25, Zenon DEF S!shouldClientEnd, S!main0, S!setErr
<1>26. CASE S!SetClosed
  BY <1>26 DEF S!SetClosed, S!setState
<1>27. CASE S!CancelObserve
  BY <1>27 DEF S!CancelObserve, S!cancelObserveStateChanged
<1>28. CASE S!BackoffExceeded
  BY <1>28 DEF S!BackoffExceeded, S!main0
<1>29. CASE S!BackoffErr
  BY <1>29 DEF S!BackoffErr, S!setErr
<1>30. CASE S!BackoffCanceled
  BY <1>30 DEF S!BackoffCanceled, S!main0
<1>31. CASE S!Reconnect
  BY <1>31 DEF S!Reconnect, S!setState
<1>32. CASE S!Start
  BY <1>32 DEF S!Start, S!setState
<1>33. CASE S!Stop
  BY <1>33 DEF S!Stop
<1>34. CASE S!StopWaited
  BY <1>34 DEF S!StopWaited, S!setState
<1>35. CASE S!CancelCtx
  BY <1>35 DEF S!CancelCtx
<1>36. CASE UNCHANGED S!vars
  BY <1>36 DEF S!vars
<1> HIDE DEF StateTypes, StaleInv, S!Runs, S!Observers
<1> QED
  BY <1>1, <1>2, <1>3, <1>4, <1>5, <1>6, <1>7, <1>8, <1>9, <1>10, <1>11, <1>12, <1>13, <1>14, <1>15, <1>16, <1>17, <1>18,
     <1>19, <1>20, <1>21, <1>22, <1>23, <1>24, <1>25, <1>26, <1>27, <1>28, <1>29, <1>30, <1>31, <1>32, <1>33, <1>34, <1>35, <1>36
     DEF S!Next, S!Observer, S!Watch, S!Wait, S!Main

\* No step takes the wake-up of a waiter away.
LEMMA WakeStep ==
  ASSUME S!Bounds, StateTypes, WakeInv, [S!Next]_(S!vars)
  PROVE  WakeInv'
<1> USE DEF S!Bounds, S!Runs, S!Observers, StateTypes, S!connVars, S!obsVars, S!waitVars, S!lockVars, S!States, WakeInv, S!NoMissedWakeup, Chans
<1>1. ASSUME NEW o \in S!Observers, S!Notify(o)
      PROVE  WakeInv'
  BY <1>1 DEF S!Notify, S!Deliver, S!rest
<1>2. ASSUME NEW o \in S!Observers, S!NotifyBlocks(o)
      PROVE  WakeInv'
  BY <1>2, Zenon DEF S!NotifyBlocks, S!rest
<1>3. ASSUME NEW o \in S!Observers, S!NotifyUnblocks(o)
      PROVE  WakeInv'
  BY <1>3 DEF S!NotifyUnblocks, S!Deliver, S!rest
<1>4. ASSUME NEW r \in S!Runs, S!WatcherRecv(r)
      PROVE  WakeInv'
  BY <1>4 DEF S!WatcherRecv
<1>5. ASSUME NEW r \in S!Runs, S!WatcherCheck(r)
      PROVE  WakeInv'
  BY <1>5 DEF S!WatcherCheck
<1>6. ASSUME NEW r \in S!Runs, S!SetConnected(r)
      PROVE  WakeInv'
  BY <1>6 DEF S!SetConnected, S!setState
<1>7. ASSUME NEW w \in Waiters, S!WaitForState(w)
      PROVE  WakeInv'
  BY <1>7, Zenon DEF S!WaitForState, S!wait0, S!waitingIsOver
<1>8. ASSUME NEW w \in Waiters, S!WaitObserve(w)
      PROVE  WakeInv'
  BY <1>8 DEF S!WaitObserve, S!wait0, S!ObserveStateChanged
<1>9. ASSUME NEW w \in Waiters, S!WaitCheck(w)
      PROVE  WakeInv'
  BY <1>9, Zenon DEF S!WaitCheck, S!wait0, S!waitingIsOver
<1>10. ASSUME NEW w \in Waiters, S!WaitRecv(w)
      PROVE  WakeInv'
  BY <1>10 DEF S!WaitRecv, S!wait0
<1>11. ASSUME NEW w \in Waiters, S!WaitCanceled(w)
      PROVE  WakeInv'
  BY <1>11 DEF S!WaitCanceled, S!wait0
<1>12. ASSUME NEW w \in Waiters, S!WaitEnds(w)
      PROVE  WakeInv'
  BY <1>12 DEF S!WaitEnds, S!wait0, S!cancelObserveStateChanged
<1>13. ASSUME NEW w \in Waiters, S!WaitCtx(w)
      PROVE  WakeInv'
  BY <1>13 DEF S!WaitCtx, S!wait0
<1>14. CASE S!ClearErr
  BY <1>14 DEF S!ClearErr, S!setErr
<1>15. CASE S!ObserveRun
  BY <1>15 DEF S!ObserveRun, S!ObserveStateChanged
<1>16. CASE S!SetupBegins
  BY <1>16 DEF S!SetupBegins, S!main0
<1>17. CASE S!FactoryOk
  BY <1>17 DEF S!FactoryOk, S!main0
<1>18. CASE S!FactoryFails
  BY <1>18 DEF S!FactoryFails, S!main0
<1>19. CASE S!HandshakeOk
  BY <1>19 DEF S!HandshakeOk, S!main0
<1>20. CASE S!HandshakeFails
  BY <1>20 DEF S!HandshakeFails, S!main0
<1>21. CASE S!RunLoop
  BY <1>21 DEF S!RunLoop
<1>22. CASE S!LoopEnds
  BY <1>22 DEF S!LoopEnds, S!main0
<1>23. CASE S!ResetConn
  BY <1>23 DEF S!ResetConn, S!main0
<1>24. CASE S!RunEnded
  BY <1>24 DEF S!RunEnded, S!main0, S!setErr
<1>25. CASE S!shouldClientEnd
  BY <1>25 DEF S!shouldClientEnd, S!main0, S!setErr
<1>26. CASE S!SetClosed
  BY <1>26 DEF S!SetClosed, S!setState
<1>27. CASE S!CancelObserve
  BY <1>27 DEF S!CancelObserve, S!cancelObserveStateChanged
<1>28. CASE S!BackoffExceeded
  BY <1>28 DEF S!BackoffExceeded, S!main0
<1>29. CASE S!BackoffErr
  BY <1>29 DEF S!BackoffErr, S!setErr
<1>30. CASE S!BackoffCanceled
  BY <1>30 DEF S!BackoffCanceled, S!main0
<1>31. CASE S!Reconnect
  BY <1>31 DEF S!Reconnect, S!setState
<1>32. CASE S!Start
  BY <1>32 DEF S!Start, S!setState
<1>33. CASE S!Stop
  BY <1>33 DEF S!Stop
<1>34. CASE S!StopWaited
  BY <1>34 DEF S!StopWaited, S!setState
<1>35. CASE S!CancelCtx
  BY <1>35 DEF S!CancelCtx
<1>36. CASE UNCHANGED S!vars
  BY <1>36 DEF S!vars
<1> HIDE DEF StateTypes, WakeInv, S!Runs, S!Observers
<1> QED
  BY <1>1, <1>2, <1>3, <1>4, <1>5, <1>6, <1>7, <1>8, <1>9, <1>10, <1>11, <1>12, <1>13, <1>14, <1>15, <1>16, <1>17, <1>18,
     <1>19, <1>20, <1>21, <1>22, <1>23, <1>24, <1>25, <1>26, <1>27, <1>28, <1>29, <1>30, <1>31, <1>32, <1>33, <1>34, <1>35, <1>36
     DEF S!Next, S!Observer, S!Watch, S!Wait, S!Main

\* Every step keeps the invariants of the life of a client.
LEMMA StateInvariant ==
  ASSUME S!Bounds
  PROVE  S!Spec => [](StateTypes /\ StaleInv /\ WakeInv)
<1>1. StateTypes /\ StaleInv /\ WakeInv /\ [S!Next]_(S!vars)
        => (StateTypes /\ StaleInv /\ WakeInv)'
  BY StateTypesStep, StaleStep, WakeStep
<1> QED
  BY StateInit, <1>1, PTL DEF S!Spec

\* No goroutine of setState sends to, and no cancel function closes, the closed
\* channel of an observer, and no handshake runs over the connection of a loop
\* that has ended (client.go), for any number of waiters and of iterations.
THEOREM NothingStale == S!Spec => []NothingStaleUsed
<1>1. StaleInv => NothingStaleUsed
  BY DEF StaleInv, NothingStaleUsed, S!NothingStaleUsed
<1> QED
  BY StateInvariant, StateAssumption, <1>1, PTL

\* A waiter of WaitForState whose state has been reached has a wake-up on its way
\* (client.go:380-424), for any number of waiters and of iterations.
THEOREM WakeupsArrive == S!Spec => []NoMissedWakeup
<1>1. WakeInv => NoMissedWakeup
  BY DEF WakeInv, NoMissedWakeup
<1> QED
  BY StateInvariant, StateAssumption, <1>1, PTL
=============================================================================
