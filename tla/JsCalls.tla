------------------------------- MODULE JsCalls -------------------------------
(***************************************************************************)
(* The calls of the JavaScript client (signalr.js): invoke, send and stream *)
(* of class HubConnection with the streams they upload and the callbacks   *)
(* they register, HttpConnection.send, and the TransportSendQueue through  *)
(* which everything is sent.  Connections follow each other; how they are  *)
(* made and closed is the subject of JsHubConnection.                      *)
(*                                                                         *)
(* As there, a step runs from one await to the next one.  The operators on *)
(* s, the heap, are the methods that other methods call; events (data, the *)
(* answer of a request, a call of the application, the end or the start of *)
(* a connection) happen when no continuation is ready.                     *)
(***************************************************************************)
EXTENDS Naturals, Sequences, Functions

CONSTANTS Calls,           \* calls of the application
          Invokes,         \* those of them that are an invoke without an upload
          NoCall,
          MaxIds,          \* bound on the invocation ids
          MaxItems,        \* bound on the items of an uploaded stream
          MaxDisposals,    \* bound on the disposals of the result of a stream
          MaxConnections   \* bound on the connections, one after the other

ASSUME NoCallAssumption == NoCall \notin Calls /\ Invokes \subseteq Calls
ASSUME BoundsAssumption ==
  MaxIds \in Nat /\ MaxItems \in Nat /\ MaxDisposals \in Nat /\ MaxConnections \in Nat \ {0}

VARIABLES
  state,         \* HttpConnection.connectionState
  g,             \* number of the connection
  invocationId,  \* HubConnection.invocationId, the next id
  callbacks,     \* HubConnection.callbacks: per id the call, or NoCall
  call,          \* per call: what its closures hold
  queue,         \* per connection: its TransportSendQueue
  wire           \* per connection and call: what the server has received

vars == <<state, g, invocationId, callbacks, call, queue, wire>>

Connections == 1..MaxConnections
Ids == 0..MaxIds
Ops == {"none", "send", "invoke", "stream"}

\* A message: the n-th item of the upload of call c, its end, c itself, or the
\* cancelation of c.  The handshake is left out.
Message(c, what, n) == [c |-> c, what |-> what, n |-> n]
Messages == [c : Calls, what : {"call", "item", "end", "cancel"}, n : 0..MaxItems + 1]

TypeOK ==
  /\ state \in {"Connected", "Disconnecting", "Disconnected"}
  /\ g \in Connections
  /\ invocationId \in Ids
  /\ callbacks \in [Ids -> Calls \cup {NoCall}]
  /\ call \in [Calls -> [op : Ops, id : Ids, promise : {"none", "pending", "resolved", "rejected", "disposed"},
                         answer : Calls \cup {NoCall}, late : BOOLEAN,
                         msg : {"none", "pending", "resolved", "rejected", "done"},
                         upload : {"none", "open", "ended"}, links : 0..MaxItems + 1, run : 0..MaxItems + 1,
                         link : {"waits", "resolved", "pending", "rejected"},
                         disposals : 0..MaxDisposals, cancels : 0..MaxDisposals]]
  /\ DOMAIN queue = Connections
  /\ \A k \in Connections :
       /\ queue[k].at \in {"none", "waits", "sends", "delivered", "ended"}
       /\ queue[k].executing \in BOOLEAN /\ queue[k].signaled \in BOOLEAN
       /\ queue[k].buffer \in Seq(Messages) /\ queue[k].batch \in Seq(Messages)
  /\ DOMAIN wire = Connections
  /\ \A k \in Connections : DOMAIN wire[k] = Calls /\ \A c \in Calls : wire[k][c] \in Seq(Messages)

Init ==
  /\ state = "Connected" /\ g = 1
  /\ invocationId = 0
  /\ callbacks = [i \in Ids |-> NoCall]
  /\ call = [c \in Calls |-> [op |-> "none", id |-> 0, promise |-> "none", answer |-> NoCall, late |-> FALSE,
                              msg |-> "none", upload |-> "none", links |-> 0, run |-> 0, link |-> "waits",
                              disposals |-> 0, cancels |-> 0]]
  /\ queue = [k \in Connections |-> [at |-> "none", executing |-> TRUE, signaled |-> FALSE,
                                     buffer |-> <<>>, batch |-> <<>>]]
  /\ wire = [k \in Connections |-> [c \in Calls |-> <<>>]]

heap == [callbacks |-> callbacks, call |-> call, queue |-> queue, ids |-> invocationId]

Becomes(s) ==
  /\ callbacks' = s.callbacks /\ call' = s.call /\ queue' = s.queue /\ invocationId' = s.ids

-----------------------------------------------------------------------------
\* No continuation of a call is ready; none at all is.
CallsQuiet ==
  \A c \in Calls : /\ call[c].msg \notin {"resolved", "rejected"}
                   /\ ~(call[c].link = "resolved" /\ call[c].run < call[c].links)
                   /\ ~(call[c].cancels > 0 /\ call[c].msg = "done")

Quiet == CallsQuiet /\ \A k \in Connections : ~(queue[k].at = "waits" /\ queue[k].signaled)

-----------------------------------------------------------------------------
(* Sending.                                                                *)

\* TransportSendQueue.send, with the constructor; bufferData wakes up the loop.
queueSend(q, m) ==
  [q EXCEPT !.at = IF @ = "none" THEN "waits" ELSE @,
            !.buffer = Append(@, m), !.signaled = TRUE]

\* HttpConnection.send, and the promise it returns.
send(s, m) ==
  IF state = "Connected" THEN [s EXCEPT !.queue[g] = queueSend(@, m)] ELSE s

sendResult == IF state = "Connected" THEN "pending" ELSE "rejected"

\* Mutation: an upload goes on when an item was not sent.
settle_GoesOn(s, batch, r) ==
  LET has(c, whats) == \E i \in DOMAIN batch : batch[i].c = c /\ batch[i].what \in whats
      settled(c) == [s.call[c] EXCEPT !.msg  = IF has(c, {"call"}) THEN r ELSE @,
                                      !.link = IF has(c, {"item", "end"}) THEN "resolved" ELSE @]
  IN [s EXCEPT !.call = [c \in Calls |-> settled(c)]]

\* The promise of a batch settles: one for all its messages.
settle(s, batch, r) ==
  LET has(c, whats) == \E i \in DOMAIN batch : batch[i].c = c /\ batch[i].what \in whats
      settled(c) == [s.call[c] EXCEPT !.msg  = IF has(c, {"call"}) THEN r ELSE @,
                                      !.link = IF has(c, {"item", "end"}) THEN r ELSE @]
  IN [s EXCEPT !.call = [c \in Calls |-> settled(c)]]

-----------------------------------------------------------------------------
(* invoke, send and stream.                                                *)

\* replaceStreamingParams: an upload has its own id, taken before the call's.
replaceStreamingParams(s, upload) == IF upload THEN [s EXCEPT !.ids = @ + 1] ELSE s

createStreamInvocation(s, c) == [s EXCEPT !.call[c].id = s.ids, !.ids = @ + 1]

\* The invocation of send has no id.
createInvocation(s, c, op) ==
  CASE op = "send"   -> s
    [] op = "invoke" -> [s EXCEPT !.call[c].id = s.ids, !.ids = @ + 1]
    [] op = "stream" -> createStreamInvocation(s, c)

\* The closure that takes the answers is stored in callbacks.
register(s, c, op) == IF op = "send" THEN s ELSE [s EXCEPT !.callbacks[s.call[c].id] = c]

Call(c, op, upload) ==
  /\ Quiet /\ call[c].op = "none" /\ (c \in Invokes => op = "invoke" /\ ~upload)
  /\ invocationId + 2 <= MaxIds  \* a call takes an id, and one for a stream it uploads
  /\ LET s == createInvocation(replaceStreamingParams(heap, upload), c, op)
         t == [register(s, c, op) EXCEPT !.call[c].op = op,
                                         !.call[c].promise = "pending",
                                         !.call[c].msg = sendResult,
                                         !.call[c].upload = IF upload THEN "open" ELSE "none"]
     IN Becomes(send(t, Message(c, "call", 0)))
  /\ UNCHANGED <<state, g, wire>>

\* resolve, reject, Subject.complete and Subject.error of call c.
ends(s, c, how) ==
  [s EXCEPT !.call[c].promise = IF @ = "pending" THEN how ELSE @]

unregister(s, c) == [s EXCEPT !.callbacks[s.call[c].id] = NoCall]

\* Mutation: the callback stays when the invocation is not sent.
CallSettled_KeepsCallback(c) ==
  /\ call[c].msg \in {"resolved", "rejected"}
  /\ Becomes([IF call[c].op = "send" \/ call[c].msg = "rejected" THEN ends(heap, c, call[c].msg) ELSE heap
                EXCEPT !.call[c].msg = "done",
                       !.call[c].link = IF call[c].op = "send" THEN call[c].msg ELSE "resolved"])
  /\ UNCHANGED <<state, g, wire>>

\* The invocation is sent or not.  invoke and stream catch the error, so their
\* promiseQueue goes on; the promise of send is its own promiseQueue.
CallSettled(c) ==
  /\ call[c].msg \in {"resolved", "rejected"}
  /\ LET r == call[c].msg
         s == [heap EXCEPT !.call[c].msg = "done"]
     IN Becomes(
          CASE call[c].op = "send" -> [ends(s, c, r) EXCEPT !.call[c].link = r]
            [] call[c].op # "send" /\ r = "rejected" ->
                 [unregister(ends(s, c, r), c) EXCEPT !.call[c].link = "resolved"]
            [] OTHER -> [s EXCEPT !.call[c].link = "resolved"])
  /\ UNCHANGED <<state, g, wire>>

-----------------------------------------------------------------------------
(* launchStreams: the observer of an uploaded stream.                      *)

\* next, and complete or error: one more link of the promiseQueue.
Produce(c, last) ==
  /\ Quiet /\ call[c].upload = "open"
  /\ last \/ call[c].links < MaxItems
  /\ Becomes([heap EXCEPT !.call[c].links = @ + 1,
                          !.call[c].upload = IF last THEN "ended" ELSE @])
  /\ UNCHANGED <<state, g, wire>>

\* The next link runs when the promise before it is resolved.
LinkRuns(c) ==
  /\ call[c].link = "resolved" /\ call[c].run < call[c].links
  /\ LET n == call[c].run + 1
         what == IF call[c].upload = "ended" /\ n = call[c].links THEN "end" ELSE "item"
     IN Becomes(send([heap EXCEPT !.call[c].run = n, !.call[c].link = sendResult],
                     Message(c, what, n)))
  /\ UNCHANGED <<state, g, wire>>

-----------------------------------------------------------------------------
(* The result of stream.                                                   *)

\* SubjectSubscription.dispose: the only observer goes; each call cancels.
Dispose(c) ==
  /\ Quiet /\ call[c].op = "stream" /\ call[c].disposals < MaxDisposals
  /\ Becomes([unregister(ends(heap, c, "disposed"), c) EXCEPT !.call[c].disposals = @ + 1,
                                                             !.call[c].cancels = @ + 1])
  /\ UNCHANGED <<state, g, wire>>

\* cancelCallback goes on when the invocation has been sent, or not.
CancelRuns(c) ==
  /\ call[c].cancels > 0 /\ call[c].msg = "done"
  /\ Becomes(send([heap EXCEPT !.call[c].cancels = @ - 1], Message(c, "cancel", 0)))
  /\ UNCHANGED <<state, g, wire>>

-----------------------------------------------------------------------------
(* TransportSendQueue.sendLoop.                                            *)

\* Mutation: a queue that stops resolves what it has not sent.
LoopWakes_Resolves(k) ==
  /\ CallsQuiet /\ queue[k].at = "waits" /\ queue[k].signaled
  /\ Becomes(IF queue[k].executing
             THEN [heap EXCEPT !.queue[k].signaled = FALSE,
                               !.queue[k].batch = queue[k].buffer, !.queue[k].buffer = <<>>,
                               !.queue[k].at = "sends"]
             ELSE settle([heap EXCEPT !.queue[k].at = "ended"], queue[k].buffer, "resolved"))
  /\ UNCHANGED <<state, g, wire>>

\* sendBufferedData is resolved.  The continuations of a batch that has settled
\* are in the queue before.
LoopWakes(k) ==
  /\ CallsQuiet /\ queue[k].at = "waits" /\ queue[k].signaled
  /\ Becomes(IF queue[k].executing
             THEN [heap EXCEPT !.queue[k].signaled = FALSE,
                               !.queue[k].batch = queue[k].buffer, !.queue[k].buffer = <<>>,
                               !.queue[k].at = "sends"]
             ELSE settle([heap EXCEPT !.queue[k].at = "ended"], queue[k].buffer, "rejected"))
  /\ UNCHANGED <<state, g, wire>>

\* The transport delivers a batch; a POST is answered later.
Deliver(k) ==
  /\ Quiet /\ queue[k].at = "sends"
  /\ wire' = [wire EXCEPT ![k] = [c \in Calls |->
                @[c] \o SelectSeq(queue[k].batch, LAMBDA m : m.c = c)]]
  /\ Becomes([heap EXCEPT !.queue[k].at = "delivered"])
  /\ UNCHANGED <<state, g>>

\* Mutation: sendBufferedData is renewed after the batch, not before it.
SendReturns_RenewsLate(k, r) ==
  /\ Quiet /\ queue[k].at \in {"sends", "delivered"}
  /\ r = "resolved" => queue[k].at = "delivered"
  /\ Becomes(settle([heap EXCEPT !.queue[k].at = "waits", !.queue[k].batch = <<>>,
                                 !.queue[k].signaled = FALSE], queue[k].batch, r))
  /\ UNCHANGED <<state, g, wire>>

\* transport.send settles; an answer may be lost.
SendReturns(k, r) ==
  /\ Quiet /\ queue[k].at \in {"sends", "delivered"}
  /\ r = "resolved" => queue[k].at = "delivered"
  /\ Becomes(settle([heap EXCEPT !.queue[k].at = "waits", !.queue[k].batch = <<>>],
                    queue[k].batch, r))
  /\ UNCHANGED <<state, g, wire>>

-----------------------------------------------------------------------------
(* Data from the server, about a call that it has received.                *)

Served(c) ==
  /\ state # "Disconnected" /\ Quiet
  /\ call[c].op \in {"invoke", "stream"} /\ Message(c, "call", 0) \in Range(wire[g][c])

\* A StreamItem: an invoke does not expect one.
ItemArrives(c) ==
  /\ Served(c)
  /\ LET d == callbacks[call[c].id] IN
     Becomes(CASE d = NoCall -> heap
               [] d # NoCall /\ call[d].op = "invoke" -> ends(heap, d, "rejected")
               [] OTHER -> [heap EXCEPT !.call[d].late = @ \/ call[d].promise # "pending"])
  /\ UNCHANGED <<state, g, wire>>

\* Mutation: a completion goes to the oldest callback.
CompletionArrives_Oldest(c, how) ==
  /\ Served(c)
  /\ \E i \in Ids :
       /\ callbacks[i] # NoCall /\ \A j \in 0..i - 1 : callbacks[j] = NoCall
       /\ Becomes([ends(unregister(heap, callbacks[i]), callbacks[i], how) EXCEPT
                    !.call[callbacks[i]].answer = c])
  /\ UNCHANGED <<state, g, wire>>

\* A Completion, with a result or an error.
CompletionArrives(c, how) ==
  /\ Served(c)
  /\ LET d == callbacks[call[c].id] IN
     Becomes(IF d = NoCall THEN heap
             ELSE [ends(unregister(heap, d), d, how) EXCEPT
                     !.call[d].answer = c,
                     !.call[d].late = @ \/ (call[d].op = "stream" /\ call[d].promise # "pending")])
  /\ UNCHANGED <<state, g, wire>>

-----------------------------------------------------------------------------
(* The end of a connection, and the next one.                              *)

StopStarts ==
  /\ Quiet /\ state = "Connected"
  /\ state' = "Disconnecting"
  /\ UNCHANGED <<g, invocationId, callbacks, call, queue, wire>>

\* Mutation: the callbacks are dropped and not called.
cancelCallbacksWithError_Drops(s) == [s EXCEPT !.callbacks = [i \in Ids |-> NoCall]]

\* cancelCallbacksWithError.
cancelCallbacksWithError(s) ==
  LET canceled(c) == IF \E i \in Ids : s.callbacks[i] = c /\ s.call[c].promise = "pending"
                     THEN [s.call[c] EXCEPT !.promise = "rejected"] ELSE s.call[c]
  IN [s EXCEPT !.callbacks = [i \in Ids |-> NoCall], !.call = [c \in Calls |-> canceled(c)]]

\* TransportSendQueue.stop.
queueStop(q) == [q EXCEPT !.executing = FALSE, !.signaled = TRUE]

\* stopConnection and connectionClosed.
Closes ==
  /\ Quiet /\ state # "Disconnected"
  /\ state' = "Disconnected"
  /\ Becomes(cancelCallbacksWithError(
       IF queue[g].at = "none" THEN heap ELSE [heap EXCEPT !.queue[g] = queueStop(@)]))
  /\ UNCHANGED <<g, wire>>

\* A new start, or reconnect.
Reopens ==
  /\ Quiet /\ state = "Disconnected" /\ g < MaxConnections
  /\ state' = "Connected" /\ g' = g + 1
  /\ UNCHANGED <<invocationId, callbacks, call, queue, wire>>

-----------------------------------------------------------------------------
Continue ==
  \/ \E c \in Calls : CallSettled(c) \/ LinkRuns(c) \/ CancelRuns(c)
  \/ \E k \in Connections : LoopWakes(k)

TransportStep(k) == Deliver(k) \/ \E r \in {"resolved", "rejected"} : SendReturns(k, r)

Next ==
  \/ \E c \in Calls, op \in Ops \ {"none"}, upload \in BOOLEAN : Call(c, op, upload)
  \/ \E c \in Calls, last \in BOOLEAN : Produce(c, last)
  \/ \E c \in Calls : Dispose(c) \/ ItemArrives(c)
  \/ \E c \in Calls, how \in {"resolved", "rejected"} : CompletionArrives(c, how)
  \/ Continue
  \/ \E k \in Connections : TransportStep(k)
  \/ StopStarts \/ Closes \/ Reopens

Spec == Init /\ [][Next]_vars

-----------------------------------------------------------------------------
(* Properties.                                                             *)

\* A completion settles the call it is for: the ids of calls and uploads come
\* from one counter that goes on over all connections.
OwnAnswer ==
  \A c \in Calls : call[c].answer \in {c, NoCall}

\* An invoke or a stream that is pending can still be answered: its callback is
\* registered and there is a connection.  In particular connectionClosed, and a
\* send that fails, leave no call pending for ever.
NoCallForgotten ==
  Quiet => \A c \in Calls :
             call[c].op \in {"invoke", "stream"} /\ call[c].promise = "pending"
               => callbacks[call[c].id] = c /\ state # "Disconnected"

Received(c, m) == \E k \in Connections : m \in Range(wire[k][c])

\* "Synchronize stream data so they arrive in-order on the server" (launchStreams):
\* on every connection the call comes first, items follow in order and the end is
\* the last; and over all connections no item is missing before another one, even
\* if a send fails between two of them.
UploadsInOrder ==
  /\ \A k \in Connections, c \in Calls :
       \A i, j \in DOMAIN wire[k][c] :
         LET m == wire[k][c][i]
             n == wire[k][c][j] IN
         i < j => /\ n.what # "call"
                  /\ m.what = "end" => n.what = "cancel"
                  /\ m.what = "item" /\ n.what \in {"item", "end"} => m.n < n.n
  /\ \A c \in Calls, n \in 1..MaxItems + 1 :
       Received(c, Message(c, "item", n)) \/ Received(c, Message(c, "end", n))
         => \A i \in 1..n - 1 : Received(c, Message(c, "item", i))

\* "A Promise that resolves when the invocation has been successfully sent": the
\* promise of send resolves only when the transport has delivered the message,
\* whatever batch it was in, and the stream it uploads never arrives without it.
SendMeansSent ==
  \A c \in Calls :
    /\ call[c].op = "send"
    /\ \/ call[c].promise = "resolved"
       \/ \E n \in 1..MaxItems + 1, w \in {"item", "end"} : Received(c, Message(c, w, n))
    => Received(c, Message(c, "call", 0))

\* The observer of a stream gets no item and no completion after it was told that
\* the stream has ended, although the answer of a request, the messages of the
\* server and the end of the connection race with each other.
NoItemAfterEnd ==
  \A c \in Calls : ~call[c].late

\* TransportSendQueue misses no wake-up: a message whose promise is pending is in
\* the batch that is being sent, or in the buffer of a loop that will wake up.
NothingStranded ==
  \A c \in Calls :
    call[c].msg = "pending" =>
      \E k \in Connections :
        \/ Message(c, "call", 0) \in Range(queue[k].batch)
        \/ Message(c, "call", 0) \in Range(queue[k].buffer) /\ queue[k].signaled
=============================================================================
