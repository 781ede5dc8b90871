---------------------------- MODULE JsTransports ----------------------------
(***************************************************************************)
(* The transports of the JavaScript client (signalr.js): WebSocketTransport,*)
(* ServerSentEventsTransport and LongPollingTransport with the HTTP client *)
(* and the AbortController it polls through, and the sendMessage helper.   *)
(*                                                                         *)
(* The code runs on one thread: a step is what runs from one await, event  *)
(* or call to the next await.  One transport object is modelled, of any    *)
(* kind; HttpConnection is its environment and calls connect once, send    *)
(* one at a time and stop while the transport is its own.  The format is   *)
(* Text, which all three support.                                          *)
(***************************************************************************)
EXTENDS Naturals, FiniteSets

CONSTANTS Sends,       \* calls of send
          MaxMessages  \* bound on the data the server sends

ASSUME MessagesAssumption == MaxMessages \in Nat

VARIABLES
  kind,      \* which transport this is: "ws", "sse" or "lp"
  fetches,   \* HTTP goes through FetchHttpClient, otherwise XhrHttpClient
  factory,   \* there is an accessTokenFactory
  connect,   \* control state of connect
  result,    \* the promise connect returned
  socket,    \* readyState of the WebSocket or EventSource
  field,     \* this.webSocket or this.eventSource is set
  opened,    \* the variable opened of connect's closure
  running,   \* LongPollingTransport.running
  aborted,   \* pollAbort.isAborted
  get,       \* the GET that is under way
  poll,      \* control state of poll, the promise receiving
  stop,      \* control state of LongPollingTransport.stop
  post,      \* per call of send: its control state
  received,  \* number of calls of onreceive
  closes,    \* number of calls of onclose
  stopped    \* stop was called

config   == <<kind, fetches, factory>>
sockVars == <<socket, field, opened>>
pollVars == <<running, aborted, get, poll>>
outVars  == <<received, closes>>
vars == <<config, connect, result, sockVars, pollVars, stop, post, outVars, stopped>>

FlagsOK ==
  /\ fetches \in BOOLEAN /\ factory \in BOOLEAN /\ field \in BOOLEAN /\ opened \in BOOLEAN
  /\ running \in BOOLEAN /\ aborted \in BOOLEAN /\ stopped \in BOOLEAN

ValuesOK ==
  /\ kind \in {"ws", "sse", "lp"}
  /\ connect \in {"off", "token", "dial", "done"}
  /\ result \in {"none", "pending", "resolved", "rejected"}
  /\ socket \in {"none", "connecting", "open", "closing", "closed"}
  /\ get \in {"none", "sent", "body", "aborted"}
  /\ poll \in {"off", "token", "request", "done", "threw"}
  /\ stop \in {"off", "receiving", "token", "delete", "done"}
  /\ post \in [Sends -> {"idle", "token", "request", "sent", "failed"}]
  /\ received \in 0..MaxMessages /\ closes \in Nat

TypeOK == FlagsOK /\ ValuesOK

Init ==
  /\ kind \in {"ws", "sse", "lp"}
  /\ fetches \in BOOLEAN
  /\ factory \in BOOLEAN
  /\ connect = "off"
  /\ result = "none"
  /\ socket = "none" /\ field = FALSE /\ opened = FALSE
  /\ running = FALSE /\ aborted = FALSE /\ get = "none" /\ poll = "off"
  /\ stop = "off"
  /\ post = [s \in Sends |-> "idle"]
  /\ received = 0 /\ closes = 0 /\ stopped = FALSE

-----------------------------------------------------------------------------
(* Helpers.                                                                *)

\* A promise settles once: later calls of resolve and reject do nothing.
settle(r) == result' = IF result = "pending" THEN r ELSE result

\* Mutation: the handlers stay on a socket the transport has closed.
close_KeepsSocket ==
  /\ socket' = "open" /\ field' = FALSE
  /\ closes' = closes + 1
  /\ UNCHANGED opened

\* WebSocketTransport.close and ServerSentEventsTransport.close: no event of
\* the closed object is handled, and onclose is called.
close ==
  /\ socket' = "closed" /\ field' = FALSE
  /\ closes' = closes + 1
  /\ UNCHANGED opened

\* Mutation: onclose is called although stop will call it after the DELETE.
pollEnds_Always(how) ==
  /\ poll' = how
  /\ closes' = closes + 1

\* The finally clause of poll: stop calls onclose when it ended the loop.
pollEnds(how) ==
  /\ poll' = how
  /\ closes' = IF aborted THEN closes ELSE closes + 1

-----------------------------------------------------------------------------
(* connect.                                                                *)

\* new webSocketConstructor(url), new eventSourceConstructor(url).
dial ==
  /\ connect' = "dial" /\ socket' = "connecting"
  /\ UNCHANGED <<field, opened, get>>

\* LongPollingTransport.connect: the first poll.
firstPoll ==
  /\ connect' = "dial" /\ get' = "sent"
  /\ UNCHANGED sockVars

Connect ==
  /\ connect = "off"
  /\ result' = "pending"
  /\ IF kind # "lp" /\ ~factory
     THEN dial
     ELSE connect' = "token" /\ UNCHANGED <<sockVars, get>>
  /\ UNCHANGED <<config, running, aborted, poll, stop, post, outVars, stopped>>

ConnectToken ==
  /\ connect = "token"
  /\ IF kind = "lp" THEN firstPoll ELSE dial
  /\ UNCHANGED <<config, result, running, aborted, poll, stop, post, outVars, stopped>>

ConnectTokenFails ==
  /\ connect = "token" /\ factory
  /\ connect' = "done"
  /\ settle("rejected")
  /\ UNCHANGED <<config, sockVars, pollVars, stop, post, outVars, stopped>>

-----------------------------------------------------------------------------
(* Events of the WebSocket and of the EventSource.                         *)

\* webSocket.onopen, eventSource.onopen.
OnOpen ==
  /\ socket = "connecting"
  /\ connect' = "done"
  /\ socket' = "open" /\ field' = TRUE /\ opened' = TRUE
  /\ settle("resolved")
  /\ UNCHANGED <<config, pollVars, stop, post, outVars, stopped>>

\* webSocket.onerror: the socket closes next.
OnSocketError ==
  /\ kind = "ws" /\ socket \in {"connecting", "open"}
  /\ connect' = "done"
  /\ socket' = "closing"
  /\ settle("rejected")
  /\ UNCHANGED <<config, field, opened, pollVars, stop, post, outVars, stopped>>

\* webSocket.onclose.
OnSocketClose ==
  /\ kind = "ws" /\ socket \in {"connecting", "open", "closing"}
  /\ connect' = "done"
  /\ IF opened
     THEN close /\ UNCHANGED result
     ELSE settle("rejected") /\ socket' = "closed" /\ UNCHANGED <<field, opened, closes>>
  /\ UNCHANGED <<config, pollVars, stop, post, received, stopped>>

\* eventSource.onerror: the EventSource gives up or, as connect does not close
\* it, tries again.
OnSourceError ==
  /\ kind = "sse" /\ socket \in {"connecting", "open"}
  /\ connect' = "done"
  /\ IF opened
     THEN close /\ UNCHANGED result
     ELSE settle("rejected") /\ socket' \in {"connecting", "closed"} /\ UNCHANGED <<field, opened, closes>>
  /\ UNCHANGED <<config, pollVars, stop, post, received, stopped>>

\* webSocket.onmessage, eventSource.onmessage: an onreceive that throws closes.
OnMessage ==
  /\ socket = "open" /\ received < MaxMessages
  /\ received' = received + 1
  /\ \/ close
     \/ UNCHANGED <<sockVars, closes>>
  /\ UNCHANGED <<config, connect, result, pollVars, stop, post, stopped>>

-----------------------------------------------------------------------------
(* The GETs of long polling.                                               *)

\* FetchHttpClient.send: the headers are there.  From now on neither the
\* abort signal nor the timer ends the request.
GetHeaders ==
  /\ fetches /\ get = "sent"
  /\ get' = "body"
  /\ UNCHANGED <<config, connect, result, sockVars, running, aborted, poll, stop, post,
                 outVars, stopped>>

\* HttpClient.send has an answer or, where it can, has failed.
Answered == get = IF fetches THEN "body" ELSE "sent"
Failed == get \in {"sent", "body", "aborted"}

\* LongPollingTransport.connect after the first poll.
FirstPollAnswered(ok) ==
  /\ kind = "lp" /\ connect = "dial" /\ Answered
  /\ connect' = "done" /\ get' = "none"
  /\ settle("resolved")
  /\ running' = ok
  /\ IF ok THEN poll' = "token" /\ UNCHANGED closes ELSE pollEnds("done")
  /\ UNCHANGED <<config, sockVars, aborted, stop, post, received, stopped>>

FirstPollFails ==
  /\ kind = "lp" /\ connect = "dial" /\ Failed
  /\ connect' = "done" /\ get' = "none"
  /\ settle("rejected")
  /\ UNCHANGED <<config, sockVars, running, aborted, poll, stop, post, outVars, stopped>>

\* poll has its token: send refuses a request whose signal is aborted, and the
\* error is disregarded because running is false.
PollToken ==
  /\ poll = "token"
  /\ IF aborted
     THEN pollEnds("done") /\ UNCHANGED get
     ELSE poll' = "request" /\ get' = "sent" /\ UNCHANGED closes
  /\ UNCHANGED <<config, connect, result, sockVars, running, aborted, stop, post, received,
                 stopped>>

\* The token is awaited outside the inner try: poll itself is rejected.
PollTokenFails ==
  /\ poll = "token" /\ factory
  /\ pollEnds("threw")
  /\ UNCHANGED <<config, connect, result, sockVars, running, aborted, get, stop, post,
                 received, stopped>>

\* One round of poll ends: run again while running.
pollAgain(r) ==
  /\ running' = r /\ get' = "none"
  /\ IF r THEN poll' = "token" /\ UNCHANGED closes ELSE pollEnds("done")

\* The answer is 204 or unexpected (ok false), empty, or data that onreceive
\* takes or throws at.
PollAnswered(ok, n) ==
  /\ poll = "request" /\ Answered
  /\ received + n <= MaxMessages
  /\ received' = received + n
  /\ pollAgain(ok /\ running)
  /\ UNCHANGED <<config, connect, result, sockVars, aborted, stop, post, stopped>>

\* A TimeoutError is ignored; any other error ends the loop.
PollFails(timeout) ==
  /\ poll = "request" /\ Failed
  /\ timeout => get = "sent"
  /\ pollAgain(timeout /\ running)
  /\ UNCHANGED <<config, connect, result, sockVars, aborted, stop, post, received, stopped>>

-----------------------------------------------------------------------------
(* send.                                                                   *)

\* sendMessage: it first awaits the token if there is a factory.
sendMessage == IF factory THEN "token" ELSE "request"

\* send of each transport: where the call goes.
sendResult ==
  CASE kind = "ws"  -> IF field /\ socket = "open" THEN "sent" ELSE "failed"
    [] kind = "sse" -> IF field THEN sendMessage ELSE "failed"
    [] kind = "lp"  -> IF running THEN sendMessage ELSE "failed"

Send(s) ==
  /\ result = "resolved" /\ post[s] = "idle"
  /\ \A t \in Sends : post[t] \notin {"token", "request"}
  /\ post' = [post EXCEPT ![s] = sendResult]
  /\ UNCHANGED <<config, connect, result, sockVars, pollVars, stop, outVars, stopped>>

PostToken(s, ok) ==
  /\ post[s] = "token"
  /\ post' = [post EXCEPT ![s] = IF ok THEN "request" ELSE "failed"]
  /\ UNCHANGED <<config, connect, result, sockVars, pollVars, stop, outVars, stopped>>

PostAnswered(s, ok) ==
  /\ post[s] = "request"
  /\ post' = [post EXCEPT ![s] = IF ok THEN "sent" ELSE "failed"]
  /\ UNCHANGED <<config, connect, result, sockVars, pollVars, stop, outVars, stopped>>

-----------------------------------------------------------------------------
(* stop.                                                                   *)

\* HttpConnection stops the transport it has, once.
mayStop == result = "resolved" /\ closes = 0 /\ ~stopped

\* WebSocketTransport.stop, ServerSentEventsTransport.stop.
StopSocket ==
  /\ kind # "lp" /\ mayStop
  /\ stopped' = TRUE
  /\ IF field THEN close ELSE UNCHANGED <<sockVars, closes>>
  /\ UNCHANGED <<config, connect, result, pollVars, stop, post, received>>

\* AbortController.abort runs onabort, which a request has set while it can be
\* aborted.
abort ==
  /\ aborted' = TRUE
  /\ get' = IF get = "sent" THEN "aborted" ELSE get

\* LongPollingTransport.stop.
StopPolling ==
  /\ kind = "lp" /\ mayStop
  /\ stopped' = TRUE
  /\ running' = FALSE
  /\ abort
  /\ stop' = "receiving"
  /\ UNCHANGED <<config, connect, result, sockVars, poll, post, outVars>>

\* The finally clause of stop.
stopEnds == stop' = "done" /\ closes' = closes + 1

\* Mutation: stop does not wait for the loop.
StopReceived_NoWait ==
  /\ stop = "receiving"
  /\ stop' = "token"
  /\ UNCHANGED <<config, connect, result, sockVars, pollVars, post, outVars, stopped>>

\* The receiving loop has ended.
StopReceived ==
  /\ stop = "receiving" /\ poll \in {"done", "threw"}
  /\ IF poll = "done" THEN stop' = "token" /\ UNCHANGED closes ELSE stopEnds
  /\ UNCHANGED <<config, connect, result, sockVars, pollVars, post, received, stopped>>

StopToken ==
  /\ stop = "token"
  /\ stop' = "delete"
  /\ UNCHANGED <<config, connect, result, sockVars, pollVars, post, outVars, stopped>>

StopTokenFails ==
  /\ stop = "token" /\ factory
  /\ stopEnds
  /\ UNCHANGED <<config, connect, result, sockVars, pollVars, post, received, stopped>>

\* The DELETE is answered or fails.
DeleteAnswered ==
  /\ stop = "delete"
  /\ stopEnds
  /\ UNCHANGED <<config, connect, result, sockVars, pollVars, post, received, stopped>>
-----------------------------------------------------------------------------
SocketStep == OnOpen \/ OnSocketError \/ OnSocketClose \/ OnSourceError

GetStep ==
  \/ GetHeaders
  \/ FirstPollFails
  \/ \E ok \in BOOLEAN : FirstPollAnswered(ok)
  \/ \E ok \in BOOLEAN, n \in {0, 1} : PollAnswered(ok, n)
  \/ \E timeout \in BOOLEAN : PollFails(timeout)

ConnectStep == ConnectToken \/ ConnectTokenFails
PollStep == PollToken \/ PollTokenFails
StopStep == StopReceived \/ StopToken \/ StopTokenFails \/ DeleteAnswered
PostStep(s) == \E ok \in BOOLEAN : PostToken(s, ok) \/ PostAnswered(s, ok)

Next ==
  \/ Connect
  \/ ConnectStep
  \/ SocketStep
  \/ OnMessage
  \/ GetStep
  \/ PollStep
  \/ \E s \in Sends : Send(s) \/ PostStep(s)
  \/ StopSocket
  \/ StopPolling
  \/ StopStep

\* The event loop runs every continuation that is ready, a token is handed out
\* or refused, and a request or a socket that is connecting is answered or
\* fails.  Nobody has to call, send data or close.
Fairness ==
  /\ WF_vars(ConnectStep)
  /\ WF_vars(connect = "dial" /\ SocketStep)
  /\ WF_vars(GetStep)
  /\ WF_vars(PollStep)
  /\ WF_vars(StopStep)

Spec == Init /\ [][Next]_vars /\ Fairness

-----------------------------------------------------------------------------
(* Properties.                                                             *)

C == INSTANCE ITransport WITH revived <- result = "rejected" /\ opened

\* Every transport keeps the contract HttpConnection relies on: onclose is
\* called at most once, onreceive never after it, neither for a transport that
\* was rejected unless its EventSource has come to life; connect settles, and
\* stop leads to onclose (HttpConnection.stop waits for it in stopConnection).
Contract == C!Spec

\* LongPollingTransport.stop waits for the receiving loop ("abort any current
\* request, and then wait for it to finish"): when the DELETE is prepared no
\* GET is under way and none will be sent.
PollsEndBeforeDelete ==
  stop \in {"token", "delete", "done"} => get = "none" /\ poll \in {"done", "threw"}

\* A socket is not left behind: what is connecting or open belongs to a connect
\* that did not fail and was not closed, except the EventSource of a rejected
\* connect, which retries by itself.
NoOrphanSocket ==
  socket \in {"connecting", "open"} =>
    closes = 0 /\ (kind = "sse" \/ result \in {"pending", "resolved"})
=============================================================================
