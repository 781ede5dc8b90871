---------------------------- MODULE HubInvocation ----------------------------
(***************************************************************************)
(* Invocations received by one loop: dispatch to the hub's methods         *)
(* (handleInvocationMessage), what is sent back for each way a method can  *)
(* end (returnInvocationResult, recoverInvocationPanic), the goroutine     *)
(* that streams a returned channel and the requests to cancel it           *)
(* (streamer.go).                                                          *)
(*                                                                         *)
(* The loop handles one message at a time; every method call runs in a     *)
(* goroutine of its own, which also sends the result.  The writes of one   *)
(* goroutine reach the connection in order (writeMessage waits for each),  *)
(* so the messages about one invocation are kept as one sequence.          *)
(***************************************************************************)
EXTENDS Naturals, Sequences, FiniteSets

CONSTANTS Invocations,  \* invocation messages, their ids are different
          MaxCancels,   \* streamer.maxCancels, 0 for no limit
          MaxItems      \* bound on the items a hub channel delivers

ASSUME InvocationsAssumption == Invocations \cap {"receive", "ended"} = {}
ASSUME BoundsAssumption == MaxCancels \in Nat /\ MaxItems \in Nat

VARIABLES
  loop,         \* "receive", "ended" or the invocation whose rejection is written
  shape,        \* per invocation: what the message and its method look like
  pc,           \* per invocation: control state of its goroutine
  todo,         \* per invocation: messages its goroutine has still to write
  items,        \* per invocation: items received from the hub's channel
  hubClosed,    \* per invocation: the hub has closed the channel it returned
  wire,         \* per invocation: messages written to the connection
  cancels,      \* streamer.cancels
  cancelCount,  \* streamer.cancelCount
  ctxDone,      \* hubConn.ctx is canceled
  panics,       \* history: invocations whose method panicked
  late          \* history: items written since the invocation is in cancels

streamVars == <<items, hubClosed>>
cancelVars == <<cancels, cancelCount>>
vars == <<loop, shape, pc, todo, streamVars, wire, cancelVars, ctxDone, panics, late>>

\* The method named by the message: not found, not matching the arguments, or
\* one with the result list that is given.
Methods  == {"unknown", "mismatch", "void", "value", "values", "chan"}
Shapes   == [type : {1, 4}, hasID : BOOLEAN, method : Methods]
Messages == {"item", "completion", "error"}
OneOut(m) == m \in {"value", "chan"}

Init ==
  /\ loop = "receive"
  /\ shape = [i \in Invocations |-> [type |-> 1, hasID |-> FALSE, method |-> "void"]]
  /\ pc = [i \in Invocations |-> "new"]
  /\ todo = [i \in Invocations |-> <<>>]
  /\ items = [i \in Invocations |-> 0]
  /\ hubClosed = [i \in Invocations |-> FALSE]
  /\ wire = [i \in Invocations |-> <<>>]
  /\ cancels = {}
  /\ cancelCount = 0
  /\ ctxDone = FALSE
  /\ panics = {}
  /\ late = [i \in Invocations |-> 0]

\* writeMessage: nothing is sent after ctx is canceled; a failing write cancels it.
Write(i, m) ==
  \/ /\ ctxDone
     /\ UNCHANGED <<wire, late, ctxDone>>
  \/ /\ ~ctxDone
     /\ wire' = [wire EXCEPT ![i] = Append(@, m)]
     /\ late' = IF i \in cancels /\ m = "item" THEN [late EXCEPT ![i] = @ + 1] ELSE late
     /\ UNCHANGED ctxDone
  \/ /\ ~ctxDone
     /\ ctxDone' = TRUE
     /\ UNCHANGED <<wire, late>>

\* The goroutine of i goes on to write the messages ms.
Answer(i, ms) ==
  /\ pc' = [pc EXCEPT ![i] = IF ms = <<>> THEN "done" ELSE "write"]
  /\ todo' = [todo EXCEPT ![i] = ms]

-----------------------------------------------------------------------------
(* The loop.                                                               *)

Rejected(s) == \/ s.method \in {"unknown", "mismatch"}
               \/ s.type = 4 /\ ~OneOut(s.method)

handleInvocationMessage(i, s) ==
  /\ loop = "receive" /\ pc[i] = "new"
  /\ shape' = [shape EXCEPT ![i] = s]
  /\ IF Rejected(s)
     THEN loop' = i /\ pc' = [pc EXCEPT ![i] = "reject"]
     ELSE pc' = [pc EXCEPT ![i] = "call"] /\ UNCHANGED loop
  /\ UNCHANGED <<todo, streamVars, wire, cancelVars, ctxDone, panics, late>>

\* The loop itself sends the completion with the error.
RejectInvocation(i) ==
  /\ loop = i /\ pc[i] = "reject"
  /\ Write(i, "error")
  /\ loop' = "receive"
  /\ pc' = [pc EXCEPT ![i] = "done"]
  /\ UNCHANGED <<shape, todo, streamVars, cancelVars, panics>>

\* A cancelInvocationMessage: streamer.Stop.
Stop(i) ==
  /\ loop = "receive" /\ pc[i] # "new"
  /\ IF (MaxCancels > 0 /\ cancelCount >= MaxCancels) \/ i \in cancels
     THEN UNCHANGED cancelVars
     ELSE /\ cancels' = cancels \cup {i}
          /\ cancelCount' = cancelCount + 1
  /\ UNCHANGED <<loop, shape, pc, todo, streamVars, wire, ctxDone, panics, late>>

\* loop.Run ends for a reason of its own and aborts the connection.
LoopEnds ==
  /\ loop = "receive"
  /\ loop' = "ended"
  /\ ctxDone' = TRUE
  /\ UNCHANGED <<shape, pc, todo, streamVars, wire, cancelVars, panics, late>>

ConnectionCanceled ==
  /\ ~ctxDone
  /\ ctxDone' = TRUE
  /\ UNCHANGED <<loop, shape, pc, todo, streamVars, wire, cancelVars, panics, late>>

-----------------------------------------------------------------------------
(* The goroutine of an invocation.                                         *)

\* What sendResult and the Completion that follows it send for a result that
\* is not a channel; n is the number of values the method returned.
Results(s, n) ==
  CASE ~s.hasID   -> <<>>
    [] s.type = 1 -> <<"completion">>
    [] OTHER      -> IF n = 0 THEN <<"completion", "completion">>
                     ELSE <<"item", "completion">>

\* Mutation: no Completion follows the single item of a stream invocation.
returnInvocationResult_OnlyItem(i) ==
  /\ pc[i] = "call"
  /\ IF shape[i].method = "chan"
     THEN /\ pc' = [pc EXCEPT ![i] = IF ~shape[i].hasID THEN "done"
                                     ELSE IF shape[i].type = 1 THEN "recv" ELSE "stream"]
          /\ UNCHANGED todo
     ELSE IF ~shape[i].hasID THEN Answer(i, <<>>)
          ELSE Answer(i, IF shape[i].type = 1 THEN <<"completion">> ELSE <<"item">>)
  /\ UNCHANGED <<loop, shape, streamVars, wire, cancelVars, ctxDone, panics, late>>

\* The method returns.
returnInvocationResult(i) ==
  /\ pc[i] = "call"
  /\ IF shape[i].hasID /\ shape[i].method = "chan"
     THEN /\ pc' = [pc EXCEPT ![i] = IF shape[i].type = 1 THEN "recv" ELSE "stream"]
          /\ UNCHANGED todo
     ELSE Answer(i, Results(shape[i], IF shape[i].method = "void" THEN 0 ELSE 1))
  /\ UNCHANGED <<loop, shape, streamVars, wire, cancelVars, ctxDone, panics, late>>

\* The method panics: recoverInvocationPanic, then returnInvocationResult with
\* no values.
recoverInvocationPanic(i) ==
  /\ pc[i] = "call"
  /\ panics' = panics \cup {i}
  /\ Answer(i, IF shape[i].hasID THEN <<"error">> \o Results(shape[i], 0) ELSE <<>>)
  /\ UNCHANGED <<loop, shape, streamVars, wire, cancelVars, ctxDone, late>>

\* The next write of the goroutine.
SendResult(i) ==
  /\ pc[i] = "write"
  /\ Write(i, Head(todo[i]))
  /\ Answer(i, Tail(todo[i]))
  /\ UNCHANGED <<loop, shape, streamVars, cancelVars, panics>>

\* An invocation, not a stream invocation, of a method returning a channel.
RecvResult(i) ==
  /\ pc[i] = "recv" /\ ~hubClosed[i]
  /\ Answer(i, <<"completion">>)
  /\ UNCHANGED <<loop, shape, streamVars, wire, cancelVars, ctxDone, panics, late>>

RecvClosed(i) ==
  /\ pc[i] = "recv" /\ hubClosed[i]
  /\ Answer(i, <<"error">>)
  /\ UNCHANGED <<loop, shape, streamVars, wire, cancelVars, ctxDone, panics, late>>

-----------------------------------------------------------------------------
(* streamer.Start.                                                         *)

\* Mutation: the stream goes on after the completion of a canceled stream.
StreamRecv_GoesOn(i) ==
  /\ pc[i] = "stream" /\ ~hubClosed[i] /\ items[i] < MaxItems
  /\ items' = [items EXCEPT ![i] = @ + 1]
  /\ IF i \in cancels
     THEN /\ cancels' = cancels \ {i}
          /\ Write(i, "completion")
          /\ UNCHANGED <<pc, todo>>
     ELSE /\ pc' = [pc EXCEPT ![i] = IF ctxDone THEN "done" ELSE "item"]
          /\ UNCHANGED <<todo, cancels, wire, late, ctxDone>>
  /\ UNCHANGED <<loop, shape, hubClosed, cancelCount, panics>>

\* Mutation: a canceled stream is only noticed when its channel is closed.
StreamRecv_IgnoresCancel(i) ==
  /\ pc[i] = "stream" /\ ~hubClosed[i] /\ items[i] < MaxItems
  /\ items' = [items EXCEPT ![i] = @ + 1]
  /\ pc' = [pc EXCEPT ![i] = IF ctxDone THEN "done" ELSE "item"]
  /\ UNCHANGED <<loop, shape, todo, hubClosed, wire, cancelVars, ctxDone, panics, late>>

\* Receives an item: ends a canceled stream, or goes on to send the item.
StreamRecv(i) ==
  /\ pc[i] = "stream" /\ ~hubClosed[i] /\ items[i] < MaxItems
  /\ items' = [items EXCEPT ![i] = @ + 1]
  /\ IF i \in cancels
     THEN cancels' = cancels \ {i} /\ Answer(i, <<"completion">>)
     ELSE /\ pc' = [pc EXCEPT ![i] = IF ctxDone THEN "done" ELSE "item"]
          /\ UNCHANGED <<todo, cancels>>
  /\ UNCHANGED <<loop, shape, hubClosed, wire, cancelCount, ctxDone, panics, late>>

StreamItem(i) ==
  /\ pc[i] = "item"
  /\ Write(i, "item")
  /\ pc' = [pc EXCEPT ![i] = "stream"]
  /\ UNCHANGED <<loop, shape, todo, streamVars, cancelVars, panics>>

StreamClosed(i) ==
  /\ pc[i] = "stream" /\ hubClosed[i]
  /\ Answer(i, IF ctxDone THEN <<>> ELSE <<"completion">>)
  /\ UNCHANGED <<loop, shape, streamVars, wire, cancelVars, ctxDone, panics, late>>

\* The hub closes the channel its method returned.
HubCloses(i) ==
  /\ pc[i] \in {"recv", "stream", "item"} /\ ~hubClosed[i]
  /\ hubClosed' = [hubClosed EXCEPT ![i] = TRUE]
  /\ UNCHANGED <<loop, shape, pc, todo, items, wire, cancelVars, ctxDone, panics, late>>

-----------------------------------------------------------------------------
\* The steps of the goroutine of i that wait for nobody.
Goroutine(i) == SendResult(i) \/ RecvClosed(i) \/ StreamItem(i) \/ StreamClosed(i)
Hub(i) == \/ returnInvocationResult(i) \/ recoverInvocationPanic(i) \/ HubCloses(i)
          \/ RecvResult(i) \/ StreamRecv(i)

Next ==
  \/ \E i \in Invocations :
       \/ \E s \in Shapes : handleInvocationMessage(i, s)
       \/ RejectInvocation(i) \/ Stop(i) \/ Goroutine(i) \/ Hub(i)
  \/ LoopEnds \/ ConnectionCanceled

(***************************************************************************)
(* Runnable goroutines run and writes to the connection return.  Nothing   *)
(* is assumed of the hub: a method may run forever, a channel may never    *)
(* deliver or be closed.                                                   *)
(***************************************************************************)
Fairness == \A i \in Invocations : WF_vars(RejectInvocation(i)) /\ WF_vars(Goroutine(i))

Spec == Init /\ [][Next]_vars
FairSpec == Spec /\ Fairness

-----------------------------------------------------------------------------
(* Properties.                                                             *)

\* Each variable has its type.
TypeOK ==
  /\ loop \in Invocations \cup {"receive", "ended"}
  /\ shape \in [Invocations -> Shapes]
  /\ pc \in [Invocations -> {"new", "reject", "call", "write", "recv", "stream",
                             "item", "done"}]
  /\ todo \in [Invocations -> Seq(Messages)]
  /\ items \in [Invocations -> Nat]
  /\ hubClosed \in [Invocations -> BOOLEAN]
  /\ wire \in [Invocations -> Seq(Messages)]
  /\ cancels \subseteq Invocations
  /\ cancelCount \in Nat
  /\ ctxDone \in BOOLEAN
  /\ panics \subseteq Invocations
  /\ late \in [Invocations -> Nat]

Completions(i) == {n \in DOMAIN wire[i] : wire[i][n] # "item"}

\* An invocation is completed once and nothing follows the completion: only the
\* last message about it is a completion, whichever of the loop, the method's
\* goroutine and the streamer sends it, and whether or not the stream is
\* canceled meanwhile.  Methods that panic are excepted (ErrorButNoResult).
CompletionIsLast ==
  \A i \in Invocations \ panics :
    \A n \in DOMAIN wire[i] : n < Len(wire[i]) => wire[i][n] = "item"

\* A canceled stream delivers at most the item that was under way when the
\* cancelation arrived.
CancelStopsItems == \A i \in Invocations : late[i] <= 1

\* The hub has done its part for i: the method ended and, if it returned a
\* channel, the channel is closed.
HubDone(i) ==
  /\ pc[i] \notin {"new", "call"} /\ shape[i].hasID
  /\ ~Rejected(shape[i]) /\ shape[i].method = "chan" /\ i \notin panics => hubClosed[i]

\* Every invocation with an id is completed when the hub has done its part, or
\* the connection is gone.
Answered ==
  \A i \in Invocations : HubDone(i) ~> (Completions(i) # {} \/ ctxDone)

\* streamer.go:11: cancelCount "tracks entries in cancels for the cap check".
TracksEntries == cancelCount = Cardinality(cancels)

\* invocation_test.go:327: a func that panics "should be invoked on the server
\* and return an error but no result": the error is the only completion.
ErrorButNoResult ==
  \A i \in panics : Cardinality(Completions(i)) <= 1

\* loop.go:229: "No invocation id, no completion".
NoIDNoCompletion ==
  \A i \in Invocations : pc[i] # "new" /\ ~shape[i].hasID => Completions(i) = {}
=============================================================================
