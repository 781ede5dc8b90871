-------------------------- MODULE JsHubConnection --------------------------
(***************************************************************************)
(* The life of a connection of the JavaScript client (signalr.js): class   *)
(* HubConnection (start, stop, handshake, reconnect, timers) on top of     *)
(* class HttpConnection (negotiation, choice of transport, start, stop).   *)
(* The transport below them is taken by its contract (ITransport).         *)
(*                                                                         *)
(* The code runs on one thread.  A step is what runs from one await to the *)
(* next one, calls and callbacks included, so a method is an operator from *)
(* state to state: s is the heap, f an asynchronous frame that holds the   *)
(* rest of startWithStateTransitions or of reconnect.  A frame is ready    *)
(* when what it awaits has settled; ready frames run in any order, and     *)
(* events (answers, data, timers) happen only when no frame is ready.      *)
(* Calls of the application happen at any time, and in callbacks.          *)
(***************************************************************************)
EXTENDS Naturals

CONSTANTS Frames,      \* slots for asynchronous frames
          Stops,       \* calls of HubConnection.stop by the application
          MaxConnects  \* bound on the starts of the HttpConnection

ASSUME FramesAssumption == 0 \notin Frames
ASSUME ConnectsAssumption == MaxConnects \in Nat \ {0}

VARIABLES
  skip,      \* options.skipNegotiation (WebSockets only)
  reacts,    \* the application calls start and stop in callbacks and
             \* continuations too, not only in events of its own
  http,      \* fields of the HttpConnection
  hub,       \* fields of the HubConnection
  frame,     \* the asynchronous frames
  conn,      \* per start of the HttpConnection: its transport and its stop()
  connects,  \* number of starts of the HttpConnection
  caller     \* per call of stop by the application: what it awaits

vars == <<skip, reacts, http, hub, frame, conn, connects, caller>>

Conns == 1..MaxConnects
Conn0 == 0..MaxConnects  \* a start or none
HubStates == {"Disconnected", "Connecting", "Connected", "Disconnecting", "Reconnecting"}
HttpStates == HubStates \ {"Reconnecting"}
Kinds == {"ws", "sse", "lp"}

\* What is awaited: nothing any more, a call of HttpConnection.stop, or the
\* field stopPromise of the HttpConnection; for the c-th start.
Await(what, c) == [what |-> what, c |-> c]
Nothing == Await("nothing", 0)
Awaits == {Nothing} \cup {Await(w, c) : w \in {"call", "promise"}, c \in Conns}

NoFrame == [by |-> "none", at |-> "off", c |-> 0, awaits |-> Nothing, handshake |-> "pending",
            via |-> "none"]

HttpFields == [state : HttpStates, started : BOOLEAN, transport : Conn0,
               inherentKeepAlive : BOOLEAN, stopPromise : Conn0]
HubFields == [state : HubStates, started : BOOLEAN, stopDuringStart : BOOLEAN,
              gotHandshake : BOOLEAN, resolver : Frames \cup {0}, delay : Frames \cup {0},
              timeout : BOOLEAN, ping : BOOLEAN, pinging : Conn0,
              stopPromise : Awaits, startPromise : Frames \cup {0}]
FrameFields == [by : {"none", "start", "reconnect"},
                at : {"off", "delay", "negotiate", "renegotiate", "connect", "ok", "awaitStop",
                      "rejected", "connected", "sending", "handshake", "failing", "resolved"},
                c : Conn0, awaits : Awaits,
                handshake : {"pending", "resolved", "rejected"}, via : {"none", "ws", "post"}]
ConnFields == [kind : Kinds, live : BOOLEAN,
               stop : {"none", "awaitStart", "transport", "tail", "promise", "done"},
               awaits : Conn0, settled : BOOLEAN]
CallerFields == [at : {"none", "stop", "start", "done"}, awaits : Awaits, f : Frames \cup {0}]

Heap == [http : HttpFields, hub : HubFields, frame : [Frames -> FrameFields],
         conn : [Conns -> ConnFields], connects : Conn0, caller : [Stops -> CallerFields]]

heap == [http |-> http, hub |-> hub, frame |-> frame, conn |-> conn, connects |-> connects,
         caller |-> caller]

TypeOK == skip \in BOOLEAN /\ reacts \in BOOLEAN /\ heap \in Heap

Init ==
  /\ skip \in BOOLEAN /\ reacts \in BOOLEAN
  /\ http = [state |-> "Disconnected", started |-> FALSE, transport |-> 0,
             inherentKeepAlive |-> FALSE, stopPromise |-> 0]
  /\ hub = [state |-> "Disconnected", started |-> FALSE, stopDuringStart |-> FALSE,
            gotHandshake |-> FALSE, resolver |-> 0, delay |-> 0, timeout |-> FALSE,
            ping |-> FALSE, pinging |-> 0, stopPromise |-> Nothing, startPromise |-> 0]
  /\ frame = [f \in Frames |-> NoFrame]
  /\ conn = [c \in Conns |-> [kind |-> "ws", live |-> FALSE, stop |-> "none", awaits |-> 0,
                              settled |-> FALSE]]
  /\ connects = 0
  /\ caller = [u \in Stops |-> [at |-> "none", awaits |-> Nothing, f |-> 0]]

\* The step leaves the heap s behind.
Becomes(s) ==
  /\ http' = s.http /\ hub' = s.hub /\ frame' = s.frame /\ conn' = s.conn
  /\ connects' = s.connects /\ caller' = s.caller
  /\ UNCHANGED <<skip, reacts>>

FreeFrames(s) == {f \in Frames : s.frame[f].at = "off"}
NewFrame(s) == CHOOSE f \in FreeFrames(s) : TRUE
Goto(s, f, at) == [s EXCEPT !.frame[f].at = at]

\* The frame returns or throws: its promise settles.
End(s, f) ==
  [s EXCEPT !.frame[f] = NoFrame,
            !.hub.startPromise = IF @ = f THEN 0 ELSE @,
            !.hub.resolver = IF @ = f THEN 0 ELSE @,
            !.caller = [u \in Stops |-> IF s.caller[u].f = f THEN [s.caller[u] EXCEPT !.f = 0]
                                       ELSE s.caller[u]]]

-----------------------------------------------------------------------------
(* Timers of the HubConnection.                                            *)

cleanupTimeout(s) == [s EXCEPT !.hub.timeout = FALSE]
cleanupPingTimer(s) == [s EXCEPT !.hub.ping = FALSE]
cleanupTimers(s) == cleanupPingTimer(cleanupTimeout(s))

resetTimeoutPeriod(s) ==
  IF s.http.inherentKeepAlive THEN s ELSE [s EXCEPT !.hub.timeout = TRUE]

resetKeepAliveInterval(s) ==
  IF s.http.inherentKeepAlive THEN s ELSE [s EXCEPT !.hub.ping = TRUE]

-----------------------------------------------------------------------------
(* start.                                                                  *)

\* HttpConnection.start up to its first await.  With skipNegotiation
\* startInternal has constructed the transport by then.
httpStart(s, f) ==
  IF s.http.state # "Disconnected"
  THEN [s EXCEPT !.frame[f].at = "rejected", !.frame[f].c = 0]
  ELSE LET c == s.connects + 1 IN
       [s EXCEPT !.connects = c,
                 !.http.state = "Connecting",
                 !.http.transport = IF skip THEN c ELSE s.http.transport,
                 !.frame[f].c = c,
                 !.frame[f].at = IF skip THEN "connect" ELSE "negotiate"]

\* HubConnection.startInternal up to its first await.
startInternal(s, f) ==
  httpStart([s EXCEPT !.hub.stopDuringStart = FALSE,
                      !.hub.gotHandshake = FALSE,
                      !.hub.resolver = f,
                      !.frame[f].handshake = "pending"], f)

\* HubConnection.start and startWithStateTransitions; a refused call also
\* replaces startPromise, by a rejected promise.
start(s) ==
  IF s.hub.state # "Disconnected"
  THEN [s EXCEPT !.hub.startPromise = 0]
  ELSE LET f == NewFrame(s) IN
       startInternal([s EXCEPT !.hub.state = "Connecting",
                               !.hub.startPromise = f,
                               !.frame[f].by = "start"], f)

\* Whether a start fits the bounds.
MayStart(s) == s.connects < MaxConnects /\ FreeFrames(s) # {}

-----------------------------------------------------------------------------
(* stop.                                                                   *)

\* HttpConnection.stop up to its first await, and the promise it returns.
httpStop(s) ==
  IF s.http.state \in {"Disconnected", "Disconnecting"}
  THEN s
  ELSE [s EXCEPT !.http.state = "Disconnecting",
                 !.http.stopPromise = s.connects,
                 !.conn[s.connects].stop = "awaitStart"]

httpStopAwaits(s) ==
  CASE s.http.state = "Disconnected"  -> Nothing
    [] s.http.state = "Disconnecting" -> Await("promise", s.http.stopPromise)
    [] OTHER -> Await("call", s.connects)

\* completeClose; an onclose callback of the application may call start.
completeClose(s, act) ==
  IF ~s.hub.started
  THEN s
  ELSE LET t == [s EXCEPT !.hub.state = "Disconnected", !.hub.started = FALSE] IN
       IF act /\ MayStart(t) THEN start(t) ELSE t

\* HubConnection.stopInternal, and the promise it returns, which the callers
\* keep in stopPromise.
stopInternal(s, act) ==
  CASE s.hub.state \in {"Disconnected", "Disconnecting"} -> s
    [] OTHER ->
       LET t == [s EXCEPT !.hub.state = "Disconnecting"] IN
       IF t.hub.delay # 0
       THEN completeClose([End(t, t.hub.delay) EXCEPT !.hub.delay = 0, !.hub.stopPromise = Nothing],
                          act)
       ELSE httpStop([cleanupTimers(t) EXCEPT !.hub.stopDuringStart = TRUE,
                                              !.hub.stopPromise = httpStopAwaits(t)])

stopAwaits(s) ==
  CASE s.hub.state = "Disconnected"  -> Nothing
    [] s.hub.state = "Disconnecting" -> s.hub.stopPromise
    [] OTHER -> IF s.hub.delay # 0 THEN Nothing ELSE httpStopAwaits(s)

-----------------------------------------------------------------------------
(* The connection has closed.                                              *)

\* reconnect up to its first await.  The policy gives a delay or null (also
\* when there is no policy), and an onreconnecting callback may call stop.
reconnect(s, retry, act) ==
  IF ~retry \/ FreeFrames(s) = {} \/ s.connects = MaxConnects
  THEN completeClose(s, act)
  ELSE LET t == [s EXCEPT !.hub.state = "Reconnecting"]
           u == IF act THEN stopInternal(t, FALSE) ELSE t
           f == NewFrame(u) IN
       IF u.hub.state # "Reconnecting"
       THEN u
       ELSE [u EXCEPT !.frame[f].by = "reconnect", !.frame[f].at = "delay", !.hub.delay = f]

\* Mutation: a pending handshake is left pending.
connectionClosed_KeepsHandshake(s, retry, act) ==
  LET t == cleanupTimers([s EXCEPT !.hub.stopDuringStart = TRUE]) IN
  CASE t.hub.state = "Disconnecting" -> completeClose(t, act)
    [] t.hub.state = "Connected"     -> reconnect(t, retry, act)
    [] OTHER -> t

connectionClosed(s, retry, act) ==
  LET r == s.hub.resolver
      t == cleanupTimers([s EXCEPT !.hub.stopDuringStart = TRUE])
      u == IF r # 0 /\ t.frame[r].handshake = "pending"
           THEN [t EXCEPT !.frame[r].handshake = "resolved"] ELSE t IN
  CASE u.hub.state = "Disconnecting" -> completeClose(u, act)
    [] u.hub.state = "Connected"     -> reconnect(u, retry, act)
    [] OTHER -> u

\* Mutation: stopPromise is not resolved.
stopConnection_KeepsPromise(s, retry, act) ==
  LET t == [s EXCEPT !.http.transport = 0] IN
  IF s.http.state \in {"Disconnected", "Connecting"}
  THEN t
  ELSE LET u == [t EXCEPT !.http.state = "Disconnected", !.http.started = FALSE]
       IN IF s.http.started THEN connectionClosed(u, retry, act) ELSE u

\* HttpConnection.stopConnection.  In the Connecting state it throws.
stopConnection(s, retry, act) ==
  LET t == [s EXCEPT !.http.transport = 0] IN
  IF s.http.state \in {"Disconnected", "Connecting"}
  THEN t
  ELSE LET p == s.http.stopPromise
           u == [t EXCEPT !.http.state = "Disconnected", !.http.started = FALSE]
           v == IF s.http.state = "Disconnecting" THEN [u EXCEPT !.conn[p].settled = TRUE] ELSE u
       IN IF s.http.started THEN connectionClosed(v, retry, act) ELSE v

\* The transport of the c-th start calls onclose.
transportCloses(s, c, retry, act) ==
  stopConnection([s EXCEPT !.conn[c].live = FALSE], retry, act)

-----------------------------------------------------------------------------
(* Which continuations are ready.                                          *)

Settled(w) ==
  CASE w.what = "nothing" -> TRUE
    [] w.what = "call"    -> conn[w.c].stop = "done"
    [] w.what = "promise" -> conn[w.c].settled

\* startInternal of the c-th start has not settled, or HttpConnection.start
\* has not seen it yet.
Starting(c) == \E f \in Frames : frame[f].c = c /\ frame[f].at \in {"negotiate", "renegotiate", "connect", "ok"}

FrameReady(f) ==
  \/ frame[f].at \in {"ok", "rejected", "connected", "resolved"}
  \/ frame[f].at \in {"awaitStop", "failing"} /\ Settled(frame[f].awaits)
  \/ frame[f].at = "handshake" /\ frame[f].handshake # "pending"
  \/ frame[f].at = "sending" /\ frame[f].via # "post"

StopReady(c) ==
  \/ conn[c].stop = "awaitStart" /\ ~Starting(c)
  \/ conn[c].stop = "tail"
  \/ conn[c].stop = "promise" /\ conn[conn[c].awaits].settled

CallerReady(u) ==
  \/ caller[u].at = "stop" /\ Settled(caller[u].awaits)
  \/ caller[u].at = "start" /\ caller[u].f = 0

Quiet ==
  /\ \A f \in Frames : ~FrameReady(f)
  /\ \A c \in Conns : ~StopReady(c)
  /\ \A u \in Stops : ~CallerReady(u)

-----------------------------------------------------------------------------
(* HttpConnection.startInternal.                                           *)

\* Its catch block: startInternalPromise and then start are rejected.
failStart(s, f) ==
  [s EXCEPT !.http.state = "Disconnected", !.http.transport = 0, !.frame[f].at = "rejected"]

\* createTransport goes on with a transport of kind k.
tryTransport(s, f, k) ==
  [s EXCEPT !.conn[s.frame[f].c].kind = k, !.http.transport = s.frame[f].c,
            !.frame[f].at = "connect"]

\* The negotiation is answered; a redirect only asks again (MAX_REDIRECTS).
NegotiationAnswered(f, k) ==
  /\ Quiet /\ frame[f].at = "negotiate"
  /\ Becomes(IF http.state \in {"Disconnecting", "Disconnected"}
             THEN failStart(heap, f) ELSE tryTransport(heap, f, k))

\* It fails, offers no usable transport, or redirects too often.
NegotiationFails(f) ==
  /\ Quiet /\ frame[f].at \in {"negotiate", "renegotiate"}
  /\ Becomes(failStart(heap, f))

RenegotiationAnswered(f) ==
  /\ Quiet /\ frame[f].at = "renegotiate"
  /\ Becomes(Goto(heap, f, "connect"))

\* startInternal after connect has resolved.
started(s, f) ==
  [Goto(s, f, "ok") EXCEPT
     !.http.inherentKeepAlive = s.http.inherentKeepAlive
                                  \/ (s.http.transport # 0 /\ s.conn[s.frame[f].c].kind = "lp"),
     !.http.state = IF s.http.state = "Connecting" THEN "Connected" ELSE s.http.state]

\* connect resolves, and the transport is open.
TransportOpens(f) ==
  /\ Quiet /\ frame[f].at = "connect"
  /\ Becomes(started([heap EXCEPT !.conn[frame[f].c].live = TRUE], f))

\* The first poll ends the transport: onclose is called before connect resolves.
TransportOpensClosed(f) ==
  /\ Quiet /\ frame[f].at = "connect" /\ conn[frame[f].c].kind = "lp"
  /\ Becomes(started(stopConnection(heap, FALSE, FALSE), f))

\* The transports that may come next in the order in which the server lists them:
\* resolveTransportOrError skips those that are disabled or not supported.
After(k) == CASE k = "ws" -> {"sse", "lp"} [] k = "sse" -> {"lp"} [] k = "lp" -> {}

\* connect is rejected: createTransport asks for another connection id and tries
\* the next transport, unless there is none or stop was called.
TransportFails(f) ==
  /\ Quiet /\ frame[f].at = "connect"
  /\ Becomes(failStart(heap, f))

TransportFallsBack(f, k) ==
  /\ Quiet /\ frame[f].at = "connect" /\ ~skip
  /\ http.state = "Connecting" /\ k \in After(conn[frame[f].c].kind)
  /\ Becomes(Goto(tryTransport(heap, f, k), f, "renegotiate"))

-----------------------------------------------------------------------------
(* Continuations of start.                                                 *)

\* HttpConnection.start after startInternal has resolved.
HttpStartContinues(f) ==
  /\ frame[f].at = "ok"
  /\ Becomes(CASE http.state = "Disconnecting" ->
                    [Goto(heap, f, "awaitStop") EXCEPT
                       !.frame[f].awaits = Await("promise", http.stopPromise)]
               [] http.state = "Connected" ->
                    [Goto(heap, f, "connected") EXCEPT !.http.started = TRUE]
               [] OTHER -> Goto(heap, f, "rejected"))

HttpStartStopped(f) ==
  /\ frame[f].at = "awaitStop" /\ Settled(frame[f].awaits)
  /\ Becomes(Goto(heap, f, "rejected"))

\* Mutation: the catch block does not stop the connection.
handshakeFails_NoStop(s, f) ==
  [cleanupTimers(s) EXCEPT !.frame[f].at = "failing", !.frame[f].awaits = Nothing]

\* The catch block of HubConnection.startInternal.
handshakeFails(s, f) ==
  [httpStop(cleanupTimers(s)) EXCEPT !.frame[f].at = "failing",
                                     !.frame[f].awaits = httpStopAwaits(s)]

\* HubConnection.startInternal sends the handshake request.
SendHandshake(f) ==
  /\ frame[f].at = "connected"
  /\ LET s == resetKeepAliveInterval(heap) IN
     Becomes(IF http.state # "Connected"
             THEN handshakeFails(s, f)
             ELSE [Goto(s, f, "sending") EXCEPT
                     !.frame[f].via = CASE http.transport = 0 -> "none"
                                        [] conn[frame[f].c].kind = "ws" -> "ws"
                                        [] OTHER -> "post"])

\* The request is sent.
HandshakeSent(f) ==
  /\ frame[f].at = "sending"
  /\ \/ frame[f].via = "ws" /\ conn[frame[f].c].live
     \/ frame[f].via = "post" /\ Quiet
  /\ Becomes(Goto(resetKeepAliveInterval(resetTimeoutPeriod(cleanupTimeout(heap))), f, "handshake"))

\* It is not: the queue has no transport, the transport has closed, or the POST
\* fails.
HandshakeNotSent(f) ==
  /\ frame[f].at = "sending"
  /\ CASE frame[f].via = "none" -> TRUE
       [] frame[f].via = "ws"   -> ~conn[frame[f].c].live
       [] frame[f].via = "post" -> Quiet
  /\ Becomes(handshakeFails(heap, f))

\* The handshake promise has settled.
HandshakeContinues(f) ==
  /\ frame[f].at = "handshake" /\ frame[f].handshake # "pending"
  /\ Becomes(IF frame[f].handshake = "rejected" \/ hub.stopDuringStart
             THEN handshakeFails(heap, f) ELSE Goto(heap, f, "resolved"))

\* connection.stop has returned: the error is thrown again.
HandshakeThrows(f) ==
  /\ frame[f].at = "failing" /\ Settled(frame[f].awaits)
  /\ Becomes(Goto(heap, f, "rejected"))

\* startInternal has returned to startWithStateTransitions.
HubStarted(f) ==
  /\ frame[f].at = "resolved" /\ frame[f].by = "start"
  /\ Becomes([End(heap, f) EXCEPT !.hub.state = "Connected", !.hub.started = TRUE])

\* It has returned to reconnect; an onreconnected callback may call stop, which
\* is Stop of an application that reacts.
HubReconnected(f) ==
  /\ frame[f].at = "resolved" /\ frame[f].by = "reconnect"
  /\ Becomes([End(heap, f) EXCEPT !.hub.state = "Connected"])

\* startInternal has thrown.  Who waits for startInternalPromise in
\* HttpConnection.stopInternal has run before.
StartRejected(f) ==
  /\ frame[f].at = "rejected" /\ frame[f].by = "start"
  /\ \A c \in Conns : c = frame[f].c => conn[c].stop # "awaitStart"
  /\ Becomes([End(heap, f) EXCEPT !.hub.state = "Disconnected"])

\* The catch block of reconnect: give up, wait for the next attempt, or close.
ReconnectRejected(f, retry, act) ==
  /\ frame[f].at = "rejected" /\ frame[f].by = "reconnect"
  /\ \A c \in Conns : c = frame[f].c => conn[c].stop # "awaitStart"
  /\ Becomes(CASE hub.state # "Reconnecting" -> End(heap, f)
               [] hub.state = "Reconnecting" /\ retry /\ connects < MaxConnects ->
                    [heap EXCEPT !.frame[f] = [NoFrame EXCEPT !.by = "reconnect", !.at = "delay"],
                                 !.hub.delay = f]
               [] OTHER -> completeClose(End(heap, f), act))

\* The delay is over.
DelayElapses(f) ==
  /\ Quiet /\ frame[f].at = "delay"
  /\ LET s == [heap EXCEPT !.hub.delay = 0] IN
     Becomes(IF hub.state # "Reconnecting" \/ connects = MaxConnects
             THEN End(s, f) ELSE startInternal(s, f))

-----------------------------------------------------------------------------
(* Continuations of stop.                                                  *)

\* Mutation: the transport is dropped, not stopped.
StopTransport_Drops(c, retry, act) ==
  /\ conn[c].stop = "awaitStart" /\ ~Starting(c)
  /\ \A f \in Frames : frame[f].at = "handshake" => frame[f].handshake = "pending"
  /\ Becomes([stopConnection(heap, retry, act) EXCEPT !.conn[c].stop = "promise",
                                                      !.conn[c].awaits = http.stopPromise])

\* HttpConnection.stopInternal after startInternal has settled.  A frame whose
\* handshake has settled was in the queue before.
StopTransport(c, retry, act) ==
  /\ conn[c].stop = "awaitStart" /\ ~Starting(c)
  /\ \A f \in Frames : frame[f].at = "handshake" => frame[f].handshake = "pending"
  /\ Becomes(CASE http.transport = 0 ->
                    [stopConnection(heap, retry, act) EXCEPT !.conn[c].stop = "promise",
                                                             !.conn[c].awaits = http.stopPromise]
               [] http.transport # 0 /\ conn[c].kind = "lp" ->
                    [heap EXCEPT !.conn[c].stop = "transport"]
               [] OTHER ->
                    [transportCloses(heap, c, retry, act) EXCEPT !.conn[c].stop = "tail"])

\* LongPollingTransport.stop: the poll has ended and the DELETE is answered.
PollingStops(c, retry, act) ==
  /\ Quiet /\ conn[c].stop = "transport"
  /\ Becomes([transportCloses(heap, c, retry, act) EXCEPT !.conn[c].stop = "tail"])

\* stopInternal after transport.stop has returned.
TransportStopped(c) ==
  /\ conn[c].stop = "tail"
  /\ Becomes([heap EXCEPT !.http.transport = 0,
                          !.conn[c].stop = "promise", !.conn[c].awaits = http.stopPromise])

StopCompletes(c) ==
  /\ conn[c].stop = "promise" /\ conn[conn[c].awaits].settled
  /\ Becomes([heap EXCEPT !.conn[c].stop = "done"])

\* HubConnection.stop goes on to await startPromise, and returns.
StopContinues(u) ==
  /\ caller[u].at = "stop" /\ Settled(caller[u].awaits)
  /\ Becomes([heap EXCEPT !.caller[u].at = "start"])

StopReturns(u) ==
  /\ caller[u].at = "start" /\ caller[u].f = 0
  /\ Becomes([heap EXCEPT !.caller[u].at = "done"])

-----------------------------------------------------------------------------
(* Events of the transport and of the timers.                              *)

\* The transport of the c-th start ends by itself.
TransportCloses(c, retry, act) ==
  /\ Quiet /\ conn[c].live /\ conn[c].stop # "transport"
  /\ Becomes(transportCloses(heap, c, retry, act))

\* processIncomingData throws: the transport closes, unless it is being stopped.
throws(s, c, retry, act) ==
  IF conn[c].stop = "transport" THEN s ELSE transportCloses(s, c, retry, act)

\* A handshake response that cannot be parsed, or that holds an error.
HandshakeRefused(c, retry, act) ==
  /\ Quiet /\ conn[c].live /\ ~hub.gotHandshake
  /\ LET r == hub.resolver
         s == cleanupTimeout(heap)
         t == IF r # 0 /\ frame[r].handshake = "pending"
              THEN [s EXCEPT !.frame[r].handshake = "rejected"] ELSE s IN
     Becomes(throws(t, c, retry, act))

\* Mutation: messages do not arm the timer again.
processMessages_NoTimeout(s, c, what, retry, act) ==
  CASE what = "other"     -> s
    [] what = "bad"       -> throws(s, c, retry, act)
    [] what = "reconnect" -> httpStop(s)
    [] what = "close"     -> stopInternal(s, FALSE)

\* The rest of processIncomingData: messages of one chunk, none, one that makes
\* the parser throw, or a close.
processMessages(s, c, what, retry, act) ==
  CASE what = "other"     -> resetTimeoutPeriod(s)
    [] what = "bad"       -> throws(s, c, retry, act)
    [] what = "reconnect" -> resetTimeoutPeriod(httpStop(s))
    [] what = "close"     -> resetTimeoutPeriod(stopInternal(s, FALSE))

\* Data arrives; the first chunk begins with the handshake response.
DataArrives(c, what, retry, act) ==
  /\ Quiet /\ conn[c].live
  /\ LET r == hub.resolver
         s == cleanupTimeout(heap)
         t == IF ~hub.gotHandshake /\ r # 0 /\ frame[r].handshake = "pending"
              THEN [s EXCEPT !.frame[r].handshake = "resolved"] ELSE s IN
     Becomes(processMessages([t EXCEPT !.hub.gotHandshake = TRUE], c, what, retry, act))

\* serverTimeout.
ServerTimeout ==
  /\ Quiet /\ hub.timeout
  /\ Becomes(httpStop(cleanupTimeout(heap)))

\* The keep-alive timer fires; a ping that cannot be sent clears the timer.
PingFires ==
  /\ Quiet /\ hub.ping /\ hub.pinging = 0
  /\ LET s == cleanupPingTimer(heap)
         t == resetKeepAliveInterval(s) IN
     Becomes(CASE hub.state # "Connected" -> s
               [] hub.state = "Connected" /\ (http.state # "Connected" \/ http.transport = 0) ->
                    cleanupPingTimer(t)
               [] OTHER -> IF conn[http.transport].kind = "ws" THEN t
                           ELSE [t EXCEPT !.hub.pinging = http.transport])

\* The POST of a ping is answered or fails.
PingAnswered(ok) ==
  /\ Quiet /\ hub.pinging # 0
  /\ LET s == [heap EXCEPT !.hub.pinging = 0] IN Becomes(IF ok THEN s ELSE cleanupPingTimer(s))

-----------------------------------------------------------------------------
(* The application.                                                        *)

Start ==
  /\ MayStart(heap) /\ (reacts \/ Quiet)
  /\ Becomes(start(heap))

Stop(u, act) ==
  /\ caller[u].at = "none" /\ (reacts \/ Quiet)
  /\ Becomes([stopInternal(heap, act) EXCEPT
                !.caller[u] = [at |-> "stop", awaits |-> stopAwaits(heap),
                               f |-> hub.startPromise]])

-----------------------------------------------------------------------------
\* Whether a callback of the application calls start or stop.
Acts == IF reacts THEN BOOLEAN ELSE {FALSE}

Continue ==
  \/ \E f \in Frames :
       \/ HttpStartContinues(f) \/ HttpStartStopped(f) \/ SendHandshake(f)
       \/ HandshakeSent(f) \/ HandshakeNotSent(f) \/ HandshakeContinues(f)
       \/ HandshakeThrows(f) \/ HubStarted(f) \/ HubReconnected(f) \/ StartRejected(f)
       \/ \E retry \in BOOLEAN, act \in Acts : ReconnectRejected(f, retry, act)
  \/ \E c \in Conns :
       \/ TransportStopped(c) \/ StopCompletes(c)
       \/ \E retry \in BOOLEAN, act \in Acts : StopTransport(c, retry, act)
  \/ \E u \in Stops : StopContinues(u) \/ StopReturns(u)

Answer ==
  \/ \E f \in Frames :
       \/ NegotiationFails(f) \/ RenegotiationAnswered(f) \/ TransportOpens(f)
       \/ TransportOpensClosed(f) \/ TransportFails(f)
       \/ \E k \in Kinds : NegotiationAnswered(f, k) \/ TransportFallsBack(f, k)
  \/ \E c \in Conns, retry \in BOOLEAN, act \in Acts : PollingStops(c, retry, act)

Event ==
  \/ \E f \in Frames : DelayElapses(f)
  \/ \E c \in Conns, retry \in BOOLEAN, act \in Acts :
       \/ TransportCloses(c, retry, act) \/ HandshakeRefused(c, retry, act)
       \/ \E what \in {"other", "bad", "reconnect", "close"} : DataArrives(c, what, retry, act)
  \/ ServerTimeout
  \/ PingFires
  \/ \E ok \in BOOLEAN : PingAnswered(ok)

Next ==
  \/ Continue \/ Answer \/ Event
  \/ Start
  \/ \E u \in Stops, act \in Acts : Stop(u, act)

\* Continuations run, requests and attempts to connect settle, and timers fire.
Fairness ==
  /\ WF_vars(Continue)
  /\ WF_vars(ServerTimeout)
  /\ \A f \in Frames : /\ WF_vars(NegotiationFails(f) \/ RenegotiationAnswered(f)
                                     \/ \E k \in Kinds : NegotiationAnswered(f, k))
                        /\ WF_vars(TransportOpens(f) \/ TransportFails(f))
                        /\ WF_vars(HandshakeSent(f) \/ HandshakeNotSent(f))
                        /\ WF_vars(DelayElapses(f))
  /\ \A c \in Conns : WF_vars(\E retry \in BOOLEAN, act \in Acts : PollingStops(c, retry, act))

Spec == Init /\ [][Next]_vars /\ Fairness

-----------------------------------------------------------------------------
(* Properties.                                                             *)

\* However calls of start, stop, callbacks and attempts to reconnect overlap,
\* startWithStateTransitions never runs twice at once: while it runs the
\* HubConnection is not Disconnected, so that start is refused, and it is Connecting
\* only while it runs.  And no start or attempt to reconnect that fails leaves the
\* connection behind that it has made: the HttpConnection is stopped, or being
\* stopped, before the error is thrown, unless it has been started again.
StateAccounted ==
  /\ \A f, g \in Frames : frame[f].by = "start" /\ frame[g].by = "start" => f = g
  /\ \A f \in Frames : frame[f].by = "start" => hub.state # "Disconnected"
  /\ hub.state = "Connecting" => \E f \in Frames : frame[f].by = "start"
  /\ \A f \in Frames : frame[f].at \in {"failing", "rejected"} /\ frame[f].c = connects
                         => http.state \in {"Disconnected", "Disconnecting"}

\* A connected HubConnection notices a silent server: the timer of
\* resetTimeoutPeriod is armed after every step, unless the transport has its own
\* keep-alive.  (For applications that call start and stop in their own events.)
SilenceIsNoticed ==
  ~reacts /\ Quiet /\ hub.state = "Connected" /\ http.state = "Connected"
    => hub.timeout \/ http.inherentKeepAlive

\* A transport that is open is the one the HttpConnection holds: none is lost
\* open when starts, stops, fallbacks and attempts to reconnect overlap.
NoTransportLost ==
  ~reacts => \A c \in Conns : conn[c].live => http.transport = c

\* A start, and the loop of reconnect, ends: each handshake is answered, refused,
\* closed or timed out, except with long polling, which has no timeout.  And none
\* ends half-way: when nothing is left to run, a HubConnection that is Disconnected
\* has not left its HttpConnection connecting or connected, whatever start failed
\* with, and one that is Connecting or Reconnecting has a start or a loop of
\* reconnect that will take it out of that state.
AttemptsEnd ==
  /\ \A f \in Frames : frame[f].by # "none" ~> frame[f].by = "none" \/ http.inherentKeepAlive
  /\ [](Quiet => /\ hub.state = "Disconnected" => http.state \in {"Disconnected", "Disconnecting"}
                 /\ hub.state \in {"Connecting", "Reconnecting"} =>
                      \E f \in Frames : frame[f].by # "none")

\* stop returns when it is called on a connection that has started, although
\* four awaits are between the call and its return.
StartedStopReturns ==
  \A u \in Stops :
    /\ caller[u].at = "stop"
    /\ http.started /\ http.state = "Disconnecting" /\ http.stopPromise = caller[u].awaits.c
    ~> caller[u].at = "done"

\* HttpConnection.send: "Transport will not be null if state is connected".
ConnectedHasTransport ==
  http.state = "Connected" => http.transport # 0

\* A HubConnection that is Connected, "The hub connection is connected.", has a
\* connection below it when nothing is left to run.
ConnectedIsConnected ==
  Quiet /\ hub.state = "Connected" => http.state \in {"Connected", "Disconnecting"}

\* HubConnection.stop: "A Promise that resolves when the connection has been
\* successfully terminated, or rejects with an error."
StopSettles ==
  \A u \in Stops : caller[u].at = "stop" ~> caller[u].at = "done"

=============================================================================
