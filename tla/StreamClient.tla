---------------------------- MODULE StreamClient -----------------------------
(***************************************************************************)
(* The receiving side of streams in one loop: streamClient with its        *)
(* upstreamChannels, the stream items and completions the loop takes from  *)
(* the connection, and the two ways to register a stream: PullStream (a    *)
(* goroutine of the client's caller) and the channel arguments of an       *)
(* invocation (buildMethodArguments, upload streaming).                    *)
(*                                                                         *)
(* Items are numbered in the order in which the loop takes them.  The      *)
(* goroutine that sendChanValSave starts for an item puts it into the      *)
(* stream's channel; the loop waits for it with streamClient.mx locked,    *)
(* until chanReceiveTimeout.  Goroutines left behind by a timeout send     *)
(* when and if they can.  The part invokeClient has in a pulled stream is  *)
(* reduced to its error channel; InvokeClient has the details.             *)
(***************************************************************************)
EXTENDS Naturals, Sequences, FiniteSets, Functions

CONSTANTS Pulls,       \* ids of streams pulled with PullStream
          Uploads,     \* ids of streams announced by invocations of the peer
          Capacity,    \* streamBufferCapacity
          MaxStreams,  \* maxConcurrentStreams, 0 for no limit
          MaxItems     \* bound on the items of all streams

ASSUME StreamsAssumption == Pulls \cap Uploads = {} /\ "none" \notin Pulls \cup Uploads
ASSUME CapacityAssumption == Capacity \in Nat \ {0}
ASSUME LimitsAssumption == MaxStreams \in Nat /\ MaxItems \in Nat \ {0}

Streams == Pulls \cup Uploads

VARIABLES
  loop,      \* control state of the loop
  cur,       \* the stream the loop is busy with, or "none"
  kind,      \* the completion the loop is busy with: "ok", "error", "result", or "none"
  ack,       \* the loop's current item was sent
  fail,      \* the completion at hand ends the loop
  upstream,  \* keys of upstreamChannels
  running,   \* runningStreams
  chan,      \* per stream: items in its channel
  closed,    \* streams whose channel is closed
  senders,   \* per stream: items whose goroutine has still to send
  taken,     \* per stream: items the loop has accepted
  asked,     \* streams the peer knows of
  finished,  \* streams the peer has completed
  pull,      \* per pulled stream: control state of loop.PullStream
  inv,       \* pulled streams registered in invokeClient
  errChan,   \* per pulled stream: its error channel
  reader,    \* per stream: who reads its channel
  got,       \* per stream: items the reader has received
  ctxDone,   \* hubConn.ctx is done
  timeouts,  \* history: streams with a send that timed out
  panicked   \* a closed channel was closed

loopVars == <<loop, cur, kind, ack, fail>>
busyVars == <<cur, kind, ack, fail>>
chanVars == <<chan, closed, senders>>
peerVars == <<asked, finished>>
callVars == <<pull, inv, errChan>>
readVars == <<reader, got>>
vars == <<loopVars, upstream, running, chanVars, taken, peerVars, callVars,
          readVars, ctxDone, timeouts, panicked>>

Init ==
  /\ loop = "receive" /\ cur = "none" /\ kind = "none" /\ ack = FALSE /\ fail = FALSE
  /\ upstream = {} /\ running = {}
  /\ chan = [s \in Streams |-> <<>>]
  /\ closed = {}
  /\ senders = [s \in Streams |-> {}]
  /\ taken = [s \in Streams |-> 0]
  /\ asked = {} /\ finished = {}
  /\ pull = [p \in Pulls |-> "new"]
  /\ inv = {}
  /\ errChan = [p \in Pulls |-> "none"]
  /\ reader = [s \in Streams |-> "none"]
  /\ got = [s \in Streams |-> <<>>]
  /\ ctxDone = FALSE
  /\ timeouts = {} /\ panicked = FALSE

\* streamClient.mx is free: receiveStreamItem holds it while it waits.
Unlocked == loop # "send"

\* Another item fits the bound.
MoreItems == FoldFunction(+, 0, taken) < MaxItems

-----------------------------------------------------------------------------
(* PullStream, in a goroutine of the caller *)

newInvocation(p) ==
  /\ pull[p] = "new"
  /\ pull' = [pull EXCEPT ![p] = "register"]
  /\ inv' = inv \cup {p}
  /\ errChan' = [errChan EXCEPT ![p] = "open"]
  /\ UNCHANGED <<loopVars, upstream, running, chanVars, taken, peerVars, readVars,
                 ctxDone, timeouts, panicked>>

newUpstreamChannel(p) ==
  /\ pull[p] = "register" /\ Unlocked
  /\ pull' = [pull EXCEPT ![p] = "write"]
  /\ upstream' = upstream \cup {p}
  /\ reader' = [reader EXCEPT ![p] = "reading"]
  /\ UNCHANGED <<loopVars, running, chanVars, taken, peerVars, inv, errChan, got,
                 ctxDone, timeouts, panicked>>

\* The protocol's WriteMessage, in the goroutine of writeMessage: the peer has
\* the invocation, whatever SendStreamInvocation is going to return.
WriteInvocation(p) ==
  /\ pull[p] = "write" /\ ~ctxDone
  /\ pull' = [pull EXCEPT ![p] = "written"]
  /\ asked' = asked \cup {p}
  /\ UNCHANGED <<loopVars, upstream, running, chanVars, taken, finished, inv, errChan,
                 readVars, ctxDone, timeouts, panicked>>

\* Mutation: PullStream deletes the channel when it returns, failed or not.
SendStreamInvocation_Deletes(p) ==
  /\ pull[p] = "written"
  /\ pull' = [pull EXCEPT ![p] = "deleteChan"]
  /\ UNCHANGED <<loopVars, upstream, running, chanVars, taken, peerVars, inv, errChan,
                 readVars, ctxDone, timeouts, panicked>>

SendStreamInvocation(p) ==
  /\ pull[p] = "written"
  /\ pull' = [pull EXCEPT ![p] = "done"]
  /\ UNCHANGED <<loopVars, upstream, running, chanVars, taken, peerVars, inv, errChan,
                 readVars, ctxDone, timeouts, panicked>>

\* SendStreamInvocation returns an error: the context is done, or the write
\* fails, which aborts.  The caller gets a channel with the error.
SendFails(p) ==
  /\ pull[p] = "write" \/ (pull[p] = "written" /\ ctxDone)
  /\ pull' = [pull EXCEPT ![p] = "deleteChan"]
  /\ ctxDone' = TRUE
  /\ reader' = [reader EXCEPT ![p] = "failed"]
  /\ UNCHANGED <<loopVars, upstream, running, chanVars, taken, peerVars, inv, errChan,
                 got, timeouts, panicked>>

deleteUpstreamChannel(p) ==
  /\ pull[p] = "deleteChan" /\ Unlocked
  /\ pull' = [pull EXCEPT ![p] = "deleteInv"]
  /\ panicked' = (panicked \/ (p \in upstream /\ p \in closed))
  /\ closed' = closed \cup ({p} \cap upstream)
  /\ upstream' = upstream \ {p}
  /\ UNCHANGED <<loopVars, running, chan, senders, taken, peerVars, inv, errChan,
                 readVars, ctxDone, timeouts>>

deleteInvocation(p) ==
  /\ pull[p] = "deleteInv"
  /\ pull' = [pull EXCEPT ![p] = "done"]
  /\ inv' = inv \ {p}
  /\ errChan' = IF p \in inv THEN [errChan EXCEPT ![p] = "closed"] ELSE errChan
  /\ UNCHANGED <<loopVars, upstream, running, chanVars, taken, peerVars, readVars,
                 ctxDone, timeouts, panicked>>

-----------------------------------------------------------------------------
(* An invocation with stream ids *)

\* How many more channels maxConcurrentStreams admits.
Room == IF MaxStreams = 0 THEN Cardinality(Uploads)
        ELSE IF Cardinality(upstream) < MaxStreams THEN MaxStreams - Cardinality(upstream)
        ELSE 0

\* buildMethodArguments registers a channel for every stream id, and the hub
\* method is called with them.
buildMethodArguments(S) ==
  /\ loop = "receive"
  /\ S \cap asked = {}
  /\ asked' = asked \cup S
  /\ Cardinality(S) <= Room
  /\ upstream' = upstream \cup S
  /\ reader' = [u \in Streams |-> IF u \in S THEN "reading" ELSE reader[u]]
  /\ UNCHANGED <<loopVars, running, chanVars, taken, finished, callVars, got,
                 ctxDone, timeouts, panicked>>

\* It gives up at some argument: too many streams, or a value or a number of
\* arguments that does not fit.  What is registered by then stays registered;
\* the invocation is answered with an error and the method is not called.
RejectArguments(S, R) ==
  /\ loop = "receive"
  /\ S \cap asked = {}
  /\ asked' = asked \cup S
  /\ R \subseteq S
  /\ Cardinality(R) <= Room
  /\ upstream' = upstream \cup R
  /\ UNCHANGED <<loopVars, running, chanVars, taken, finished, callVars, readVars,
                 ctxDone, timeouts, panicked>>

-----------------------------------------------------------------------------
(* The loop: stream items *)

\* Mutation: the loop does not wait for the goroutine that sends the item.
receiveStreamItem_NoWait(s) ==
  /\ loop = "receive"
  /\ s \in asked \ finished
  /\ MoreItems
  /\ s \in upstream
  /\ running' = running \cup {s}
  /\ taken' = [taken EXCEPT ![s] = @ + 1]
  /\ senders' = [senders EXCEPT ![s] = @ \cup {taken[s] + 1}]
  /\ UNCHANGED <<loopVars, upstream, chan, closed, peerVars, callVars, readVars,
                 ctxDone, timeouts, panicked>>

\* receiveStreamItem: a known stream is running from now on and a goroutine
\* is started to send the item.
receiveStreamItem(s) ==
  /\ loop = "receive"
  /\ s \in asked \ finished
  /\ MoreItems
  /\ s \in upstream
  /\ running' = running \cup {s}
  /\ taken' = [taken EXCEPT ![s] = @ + 1]
  /\ senders' = [senders EXCEPT ![s] = @ \cup {taken[s] + 1}]
  /\ loop' = "send" /\ cur' = s
  /\ UNCHANGED <<kind, ack, fail, upstream, chan, closed, peerVars, callVars, readVars,
                 ctxDone, timeouts, panicked>>

\* An item of a known stream that cannot be unmarshalled ends the loop.
BadStreamItem(s) ==
  /\ loop = "receive"
  /\ s \in asked \ finished
  /\ s \in upstream
  /\ running' = running \cup {s}
  /\ loop' = "end"
  /\ UNCHANGED <<busyVars, upstream, chanVars, taken, peerVars, callVars,
                 readVars, ctxDone, timeouts, panicked>>

\* So does an item of an unknown stream.
UnknownStreamItem(s) ==
  /\ loop = "receive"
  /\ s \in asked \ finished
  /\ s \notin upstream
  /\ loop' = "end"
  /\ UNCHANGED <<busyVars, upstream, running, chanVars, taken, peerVars, callVars,
                 readVars, ctxDone, timeouts, panicked>>

\* The goroutine of item i: the send goes through, ...
SendItem(s, i) ==
  /\ i \in senders[s]
  /\ s \notin closed
  /\ Len(chan[s]) < Capacity
  /\ chan' = [chan EXCEPT ![s] = Append(@, i)]
  /\ senders' = [senders EXCEPT ![s] = @ \ {i}]
  /\ ack' = (ack \/ (loop = "send" /\ cur = s /\ i = taken[s]))
  /\ UNCHANGED <<loop, cur, kind, fail, upstream, running, closed, taken, peerVars,
                 callVars, readVars, ctxDone, timeouts, panicked>>

\* ... or panics, because the channel was closed; sendChanValSave recovers.
SendItemPanics(s, i) ==
  /\ i \in senders[s]
  /\ s \in closed
  /\ senders' = [senders EXCEPT ![s] = @ \ {i}]
  /\ UNCHANGED <<loopVars, upstream, running, chan, closed, taken, peerVars, callVars,
                 readVars, ctxDone, timeouts, panicked>>

\* The loop is done with the message.
LoopGoesOn ==
  /\ loop' = "receive"
  /\ cur' = "none" /\ kind' = "none" /\ ack' = FALSE /\ fail' = FALSE

\* The loop is told; an item goes back to the next message, the result of a
\* completion goes on with the completion.
ItemSent ==
  /\ loop = "send" /\ ack
  /\ IF kind = "none" THEN LoopGoesOn
     ELSE loop' = "close" /\ ack' = FALSE /\ UNCHANGED <<cur, kind, fail>>
  /\ UNCHANGED <<upstream, running, chanVars, taken, peerVars, callVars, readVars,
                 ctxDone, timeouts, panicked>>

\* chanReceiveTimeout is over first.  For an item, a completion with an error
\* is sent to the peer (handleStreamItemMessage) and the loop goes on; for a
\* result the error ends the loop after the completion is handled.
ItemTimeout ==
  /\ loop = "send"
  /\ timeouts' = timeouts \cup {cur}
  /\ IF kind = "none" THEN LoopGoesOn
     ELSE loop' = "close" /\ ack' = FALSE /\ fail' = TRUE /\ UNCHANGED <<cur, kind>>
  /\ UNCHANGED <<upstream, running, chanVars, taken, peerVars, callVars, readVars,
                 ctxDone, panicked>>

-----------------------------------------------------------------------------
(* The loop: completions *)

\* handleCompletionMessage asks streamClient first; a completion it does not
\* know may be one of invokeClient's (a pulled stream whose channel PullStream
\* has just deleted), any other ends the loop.
handleCompletionMessage(s, k) ==
  /\ loop = "receive"
  /\ s \in asked \ finished
  /\ finished' = finished \cup {s}
  /\ IF s \in upstream
     THEN loop' = "complete" /\ cur' = s /\ kind' = k /\ UNCHANGED <<inv, errChan>>
     ELSE /\ loop' = IF s \in inv THEN "receive" ELSE "end"
          /\ inv' = inv \ {s}
          /\ errChan' = [p \in Pulls |-> IF p = s /\ p \in inv THEN "closed" ELSE errChan[p]]
          /\ UNCHANGED <<cur, kind>>
  /\ UNCHANGED <<ack, fail, upstream, running, chanVars, taken, asked, pull,
                 readVars, ctxDone, timeouts, panicked>>

\* receiveCompletionItem looks the channel up and unlocks.  An error goes to
\* the error channel of a pulled stream, whose invocation is deleted; when
\* there is none it will end the loop.
receiveCompletionItem ==
  /\ loop = "complete"
  /\ IF cur \notin upstream
     THEN loop' = "end" /\ UNCHANGED <<fail, inv, errChan>>
     ELSE /\ loop' = IF kind = "result" THEN "result" ELSE "close"
          /\ fail' = (kind = "error" /\ cur \notin inv)
          /\ IF kind = "error" /\ cur \in inv
             THEN errChan' = [errChan EXCEPT ![cur] = "error"] /\ inv' = inv \ {cur}
             ELSE UNCHANGED <<errChan, inv>>
  /\ UNCHANGED <<cur, kind, ack, upstream, running, chanVars, taken, peerVars, pull,
                 readVars, ctxDone, timeouts, panicked>>

\* A result is an error when items came before; otherwise it is handled like
\* a stream item, for which the stream is looked up again.
CompletionResult ==
  /\ loop = "result"
  /\ IF cur \in running \/ cur \notin upstream
     THEN loop' = "close" /\ fail' = TRUE /\ UNCHANGED <<running, taken, senders>>
     ELSE /\ loop' = "send" /\ UNCHANGED fail
          /\ running' = running \cup {cur}
          /\ taken' = [taken EXCEPT ![cur] = @ + 1]
          /\ senders' = [senders EXCEPT ![cur] = @ \cup {taken[cur] + 1}]
  /\ UNCHANGED <<cur, kind, ack, upstream, chan, closed, peerVars, callVars, readVars,
                 ctxDone, timeouts, panicked>>

\* The stream's channel is closed without the lock ...
CloseChannel ==
  /\ loop = "close"
  /\ panicked' = (panicked \/ cur \in closed)
  /\ closed' = closed \cup {cur}
  /\ loop' = "delete"
  /\ UNCHANGED <<busyVars, upstream, running, chan, senders, taken, peerVars,
                 callVars, readVars, ctxDone, timeouts>>

\* ... then the error channel, and the stream is forgotten.
DeleteStream ==
  /\ loop = "delete"
  /\ inv' = inv \ {cur}
  /\ errChan' = [p \in Pulls |-> IF p = cur /\ p \in inv THEN "closed" ELSE errChan[p]]
  /\ upstream' = upstream \ {cur}
  /\ running' = running \ {cur}
  /\ IF fail THEN loop' = "end" /\ UNCHANGED busyVars ELSE LoopGoesOn
  /\ UNCHANGED <<chanVars, taken, peerVars, pull, readVars,
                 ctxDone, timeouts, panicked>>

-----------------------------------------------------------------------------
(* The end of the loop *)

\* The connection fails, a timeout, a close message.
LoopEnds ==
  /\ loop = "receive"
  /\ loop' = "end"
  /\ UNCHANGED <<busyVars, upstream, running, chanVars, taken, peerVars,
                 callVars, readVars, ctxDone, timeouts, panicked>>

\* Mutation: the pending invocations are forgotten, not canceled.
cancelAllInvokes_Forgets ==
  /\ loop = "end"
  /\ inv' = {}
  /\ loop' = "abort"
  /\ UNCHANGED <<busyVars, upstream, running, chanVars, taken, peerVars,
                 pull, errChan, readVars, ctxDone, timeouts, panicked>>

\* Registered invocations get "message loop ended"; upstreamChannels is not
\* looked at.
cancelAllInvokes ==
  /\ loop = "end"
  /\ errChan' = [p \in Pulls |-> IF p \in inv THEN "error" ELSE errChan[p]]
  /\ inv' = {}
  /\ loop' = "abort"
  /\ UNCHANGED <<busyVars, upstream, running, chanVars, taken, peerVars,
                 pull, readVars, ctxDone, timeouts, panicked>>

Abort ==
  /\ loop = "abort"
  /\ ctxDone' = TRUE
  /\ loop' = "ended"
  /\ UNCHANGED <<busyVars, upstream, running, chanVars, taken, peerVars,
                 callVars, readVars, timeouts, panicked>>

\* The context of the connection ends while the loop is busy or waiting.
ConnectionCanceled ==
  /\ ~ctxDone
  /\ ctxDone' = TRUE
  /\ UNCHANGED <<loopVars, upstream, running, chanVars, taken, peerVars, callVars,
                 readVars, timeouts, panicked>>

-----------------------------------------------------------------------------
(* Readers: newInvokeResultChan for a pulled stream, the hub method for an  *)
(* upload.                                                                  *)

ReadItem(s) ==
  /\ reader[s] = "reading"
  /\ chan[s] # <<>>
  /\ got' = [got EXCEPT ![s] = Append(@, Head(chan[s]))]
  /\ chan' = [chan EXCEPT ![s] = Tail(@)]
  /\ UNCHANGED <<loopVars, upstream, running, closed, senders, taken, peerVars, callVars,
                 reader, ctxDone, timeouts, panicked>>

\* The reader finds the channel closed and empty.  A pulled stream is over
\* when the error channel is closed as well.
ReadClosed(s) ==
  /\ reader[s] = "reading"
  /\ chan[s] = <<>> /\ s \in closed
  /\ s \in Pulls => errChan[s] = "closed"
  /\ reader' = [reader EXCEPT ![s] = "ended"]
  /\ UNCHANGED <<loopVars, upstream, running, chanVars, taken, peerVars, callVars, got,
                 ctxDone, timeouts, panicked>>

\* The caller of PullStream gets an error; its channel is closed (client.go).
ReadError(p) ==
  /\ reader[p] = "reading"
  /\ errChan[p] = "error"
  /\ reader' = [reader EXCEPT ![p] = "failed"]
  /\ UNCHANGED <<loopVars, upstream, running, chanVars, taken, peerVars, callVars, got,
                 ctxDone, timeouts, panicked>>

\* A hub method returns before the end of its streams.
HubStopsReading(u) ==
  /\ reader[u] = "reading"
  /\ reader' = [reader EXCEPT ![u] = "stopped"]
  /\ UNCHANGED <<loopVars, upstream, running, chanVars, taken, peerVars, callVars, got,
                 ctxDone, timeouts, panicked>>

-----------------------------------------------------------------------------

LoopStep ==
  \/ ItemSent
  \/ ItemTimeout
  \/ receiveCompletionItem
  \/ CompletionResult
  \/ CloseChannel
  \/ DeleteStream
  \/ cancelAllInvokes
  \/ Abort

ReaderStep(s) == ReadItem(s) \/ ReadClosed(s) \/ (s \in Pulls /\ ReadError(s))

PullStep(p) ==
  \/ newInvocation(p)
  \/ newUpstreamChannel(p)
  \/ WriteInvocation(p)
  \/ SendStreamInvocation(p)
  \/ SendFails(p)
  \/ deleteUpstreamChannel(p)
  \/ deleteInvocation(p)

Next ==
  /\ ~panicked
  /\ \/ LoopStep
     \/ LoopEnds
     \/ ConnectionCanceled
     \/ \E p \in Pulls : PullStep(p)
     \/ \E S \in SUBSET Uploads : S # {} /\
          (buildMethodArguments(S) \/ \E R \in SUBSET S : RejectArguments(S, R))
     \/ \E u \in Uploads : HubStopsReading(u)
     \/ \E s \in Streams :
          \/ receiveStreamItem(s)
          \/ BadStreamItem(s)
          \/ UnknownStreamItem(s)
          \/ \E k \in {"ok", "error", "result"} : handleCompletionMessage(s, k)
          \/ ReaderStep(s)
          \/ \E i \in senders[s] : SendItem(s, i) \/ SendItemPanics(s, i)

Spec == Init /\ [][Next]_vars

\* The loop and the readers go on when they can.  No message need ever arrive,
\* and no hub method need stop.
FairSpec ==
  /\ Spec
  /\ WF_vars(~panicked /\ LoopStep)
  /\ \A s \in Streams : WF_vars(~panicked /\ ReaderStep(s))

-----------------------------------------------------------------------------
(* Properties *)

\* Every variable has its type; the buffer holds at most Capacity items, and
\* the loop waits for a send only of a stream it knows, with its lock held.
TypeOK ==
  /\ loop \in {"receive", "send", "complete", "result", "close", "delete", "end", "abort",
               "ended"}
  /\ cur \in Streams \cup {"none"}
  /\ kind \in {"ok", "error", "result", "none"}
  /\ loop \in {"send", "complete", "result", "close", "delete"} => cur \in Streams
  /\ loop = "send" => cur \in upstream \cap running
  /\ ack \in BOOLEAN /\ fail \in BOOLEAN
  /\ ctxDone \in BOOLEAN /\ panicked \in BOOLEAN
  /\ upstream \subseteq Streams /\ running \subseteq Streams /\ closed \subseteq Streams
  /\ chan \in [Streams -> Seq(Nat \ {0})]
  /\ \A s \in Streams : Len(chan[s]) <= Capacity
  /\ senders \in [Streams -> SUBSET (Nat \ {0})]
  /\ taken \in [Streams -> Nat]
  /\ asked \subseteq Streams /\ finished \subseteq asked
  /\ pull \in [Pulls -> {"new", "register", "write", "written", "deleteChan", "deleteInv",
                         "done"}]
  /\ inv \subseteq Pulls
  /\ errChan \in [Pulls -> {"none", "open", "error", "closed"}]
  /\ reader \in [Streams -> {"none", "reading", "ended", "failed", "stopped"}]
  /\ got \in [Streams -> Seq(Nat \ {0})]
  /\ timeouts \subseteq Streams

\* Without a timeout the reader gets the items in the order in which they
\* arrived, none lost and none twice: what it has got and what waits in the
\* channel are the items 1, 2, ... up to the one being sent.  The end of a stream
\* is final: a reader that finds its channel closed has had every item that came
\* before the completion (streamclient.go:68-154).
ItemsInOrder ==
  \A s \in Streams \ timeouts :
    LET items == got[s] \o chan[s] IN
      /\ items = [i \in 1 .. Len(items) |-> i]
      /\ taken[s] - Len(items) = Cardinality(senders[s])
      /\ senders[s] # {} => loop = "send" /\ cur = s
      /\ reader[s] = "ended" => Len(got[s]) = taken[s]

\* The loop and a caller in PullStream's error path close the same channel
\* only if the peer answers an invocation whose send was reported as failed
\* (loop.go:153-160 and streamclient.go:144).
PanicNeedsFailedSend ==
  panicked => \E p \in Pulls : p \in asked /\ reader[p] = "failed"
                                /\ pull[p] \in {"deleteChan", "deleteInv", "done"}

\* When the loop ends, the callers whose pulled streams are registered get an
\* error or the end of the stream (loop.go:145, client.go:489-497).
PullsEnd ==
  \A p \in Pulls : (loop = "end" /\ p \in inv /\ reader[p] = "reading")
                     ~> (reader[p] \in {"ended", "failed"} \/ panicked)

\* loop.go:155: "When we get an error here, the loop is closed".
SendErrorMeansLoopClosed ==
  \A p \in Pulls : pull[p] = "deleteChan" => loop \in {"end", "abort", "ended"}
=============================================================================
