-------------------------- MODULE StreamClientProofs -------------------------
(***************************************************************************)
(* Proofs about StreamClient, for every set of streams, every capacity and *)
(* every limit.                                                            *)
(*                                                                         *)
(* The loop closes the channel of a stream without the lock, and so does a *)
(* PullStream that could not send.  CloseInv keeps who has closed a        *)
(* channel and who still may; with it a channel that is closed twice had   *)
(* an invocation that was answered although its send had failed.           *)
(*                                                                         *)
(* ItemsInv follows an item from the goroutine that sends it through the   *)
(* channel to the reader.  While no send of a stream has timed out, there  *)
(* is at most one goroutine, for the last item, and the loop waits for it. *)
(***************************************************************************)
EXTENDS StreamClient, FiniteSetTheorems, TLAPS

-----------------------------------------------------------------------------
(* Types.                                                                  *)

LoopTypes ==
  /\ loop \in {"receive", "send", "complete", "result", "close", "delete", "end", "abort",
               "ended"}
  /\ cur \in Streams \cup {"none"}
  /\ kind \in {"ok", "error", "result", "none"}
  /\ loop \in {"send", "complete", "result", "close", "delete"} => cur \in Streams
  /\ loop = "send" => cur \in upstream \cap running
  /\ ack \in BOOLEAN /\ fail \in BOOLEAN
  /\ ctxDone \in BOOLEAN /\ panicked \in BOOLEAN

SetTypes ==
  /\ upstream \subseteq Streams /\ running \subseteq Streams /\ closed \subseteq Streams
  /\ asked \subseteq Streams /\ finished \subseteq asked
  /\ inv \subseteq Pulls
  /\ timeouts \subseteq Streams

ItemTypes ==
  /\ chan \in [Streams -> Seq(Nat \ {0})]
  /\ \A s \in Streams : Len(chan[s]) <= Capacity
  /\ senders \in [Streams -> SUBSET (Nat \ {0})]
  /\ taken \in [Streams -> Nat]
  /\ got \in [Streams -> Seq(Nat \ {0})]

CallTypes ==
  /\ pull \in [Pulls -> {"new", "register", "write", "written", "deleteChan", "deleteInv",
                         "done"}]
  /\ errChan \in [Pulls -> {"none", "open", "error", "closed"}]
  /\ reader \in [Streams -> {"none", "reading", "ended", "failed", "stopped"}]

\* The buffer of a stream is used as a queue: what Head, Tail and Append do to
\* a sequence of items.
LEMMA ItemSeqs ==
  /\ \A q \in Seq(Nat \ {0}), i \in Nat \ {0} : /\ Append(q, i) \in Seq(Nat \ {0})
                                               /\ Len(Append(q, i)) = Len(q) + 1
  /\ \A q \in Seq(Nat \ {0}) : q # <<>> => /\ Head(q) \in Nat \ {0}
                                           /\ Tail(q) \in Seq(Nat \ {0})
                                           /\ Len(Tail(q)) = Len(q) - 1
  /\ \A q \in Seq(Nat \ {0}) : Len(q) \in Nat
  /\ <<>> \in Seq(Nat \ {0}) /\ Len(<<>>) = 0
OBVIOUS

\* The fields of the loop keep their types, and while it waits for a send it
\* holds the lock, so the stream stays registered.
LEMMA LoopTypesStep ==
  ASSUME LoopTypes, SetTypes, Next
  PROVE  LoopTypes'
<1> USE StreamsAssumption DEF LoopTypes, loopVars, busyVars, chanVars, peerVars, callVars, readVars,
        LoopGoesOn, Unlocked
<1>1. ASSUME LoopStep PROVE LoopTypes'
  BY <1>1, ZenonT(30) DEF LoopStep, ItemSent, ItemTimeout, receiveCompletionItem, CompletionResult, CloseChannel,
              DeleteStream, cancelAllInvokes, Abort
<1>2. ASSUME LoopEnds \/ ConnectionCanceled PROVE LoopTypes'
  BY <1>2, ZenonT(30) DEF LoopEnds, ConnectionCanceled
<1>3. ASSUME NEW p \in Pulls, PullStep(p) PROVE LoopTypes'
  <2>1. CASE deleteUpstreamChannel(p)
    <3>1. panicked' \in BOOLEAN
      BY <2>1, Zenon DEF deleteUpstreamChannel
    <3>2. QED
      BY <2>1, <3>1 DEF deleteUpstreamChannel
  <2>2. CASE newInvocation(p) \/ newUpstreamChannel(p) \/ WriteInvocation(p) \/ SendStreamInvocation(p)
             \/ SendFails(p) \/ deleteInvocation(p)
    <3>1. /\ UNCHANGED <<loop, cur, kind, ack, fail, running, panicked>>
          /\ upstream \subseteq upstream'
          /\ ctxDone' = ctxDone \/ ctxDone' = TRUE
      BY <2>2 DEF newInvocation, newUpstreamChannel, WriteInvocation, SendStreamInvocation, SendFails,
                  deleteInvocation
    <3>2. QED
      BY <3>1, ZenonT(30)
  <2>3. QED
    BY <1>3, <2>1, <2>2 DEF PullStep
<1>4. ASSUME NEW S \in SUBSET Uploads,
             buildMethodArguments(S) \/ \E R \in SUBSET S : RejectArguments(S, R)
      PROVE  LoopTypes'
  BY <1>4 DEF buildMethodArguments, RejectArguments
<1>5. ASSUME NEW u \in Uploads, HubStopsReading(u) PROVE LoopTypes'
  BY <1>5 DEF HubStopsReading
<1>6. ASSUME NEW s \in Streams,
             receiveStreamItem(s) \/ BadStreamItem(s) \/ UnknownStreamItem(s)
      PROVE  LoopTypes'
  BY <1>6 DEF receiveStreamItem, BadStreamItem, UnknownStreamItem
<1>7. ASSUME NEW s \in Streams, NEW k \in {"ok", "error", "result"}, handleCompletionMessage(s, k)
      PROVE  LoopTypes'
  BY <1>7 DEF handleCompletionMessage
<1>8. ASSUME NEW s \in Streams, ReaderStep(s) PROVE LoopTypes'
  BY <1>8 DEF ReaderStep, ReadItem, ReadClosed, ReadError
<1>9. ASSUME NEW s \in Streams, NEW i \in senders[s], SendItem(s, i) \/ SendItemPanics(s, i)
      PROVE  LoopTypes'
  <2>1. ack' \in BOOLEAN
    BY <1>9, Zenon DEF SendItem, SendItemPanics
  <2>2. QED
    BY <1>9, <2>1 DEF SendItem, SendItemPanics
<1> HIDE DEF LoopTypes
<1>10. QED
  BY <1>1, <1>2, <1>3, <1>4, <1>5, <1>6, <1>7, <1>8, <1>9 DEF Next

\* The sets of streams stay sets of streams.
LEMMA SetTypesStep ==
  ASSUME LoopTypes, SetTypes, Next
  PROVE  SetTypes'
<1> USE DEF SetTypes, loopVars, busyVars, chanVars, peerVars, callVars, readVars, LoopGoesOn, Streams
<1>1. ASSUME LoopStep PROVE SetTypes'
  BY <1>1 DEF LoopStep, ItemSent, ItemTimeout, receiveCompletionItem, CompletionResult, CloseChannel,
              DeleteStream, cancelAllInvokes, Abort, LoopTypes
<1>2. ASSUME LoopEnds \/ ConnectionCanceled PROVE SetTypes'
  BY <1>2 DEF LoopEnds, ConnectionCanceled
<1>3. ASSUME NEW p \in Pulls, PullStep(p) PROVE SetTypes'
  BY <1>3 DEF PullStep, newInvocation, newUpstreamChannel, WriteInvocation, SendStreamInvocation,
              SendFails, deleteUpstreamChannel, deleteInvocation
<1>4. ASSUME NEW S \in SUBSET Uploads,
             buildMethodArguments(S) \/ \E R \in SUBSET S : RejectArguments(S, R)
      PROVE  SetTypes'
  BY <1>4 DEF buildMethodArguments, RejectArguments
<1>5. ASSUME NEW u \in Uploads, HubStopsReading(u) PROVE SetTypes'
  BY <1>5 DEF HubStopsReading
<1>6. ASSUME NEW s \in Streams,
             receiveStreamItem(s) \/ BadStreamItem(s) \/ UnknownStreamItem(s)
      PROVE  SetTypes'
  BY <1>6 DEF receiveStreamItem, BadStreamItem, UnknownStreamItem
<1>7. ASSUME NEW s \in Streams, NEW k \in {"ok", "error", "result"}, handleCompletionMessage(s, k)
      PROVE  SetTypes'
  BY <1>7 DEF handleCompletionMessage
<1>8. ASSUME NEW s \in Streams, ReaderStep(s) PROVE SetTypes'
  BY <1>8 DEF ReaderStep, ReadItem, ReadClosed, ReadError
<1>9. ASSUME NEW s \in Streams, NEW i \in senders[s], SendItem(s, i) \/ SendItemPanics(s, i)
      PROVE  SetTypes'
  BY <1>9 DEF SendItem, SendItemPanics
<1> HIDE DEF SetTypes
<1>10. QED
  BY <1>1, <1>2, <1>3, <1>4, <1>5, <1>6, <1>7, <1>8, <1>9 DEF Next

\* The loop takes an item and starts the goroutine that sends it: counter and
\* goroutines keep their types.
LEMMA ItemTaken ==
  ASSUME ItemTypes, NEW s \in Streams
  PROVE  /\ [taken EXCEPT ![s] = taken[s] + 1] \in [Streams -> Nat]
         /\ [senders EXCEPT ![s] = senders[s] \cup {taken[s] + 1}] \in [Streams -> SUBSET (Nat \ {0})]
<1>1. taken[s] + 1 \in Nat \ {0}
  BY DEF ItemTypes
<1>2. senders[s] \cup {taken[s] + 1} \in SUBSET (Nat \ {0})
  BY <1>1 DEF ItemTypes
<1>3. QED
  BY <1>1, <1>2 DEF ItemTypes

\* No channel holds more than it has room for; items are numbered from 1.
LEMMA ItemTypesStep ==
  ASSUME LoopTypes, SetTypes, ItemTypes, Next
  PROVE  ItemTypes'
<1> USE CapacityAssumption DEF ItemTypes, loopVars, busyVars, chanVars, peerVars, callVars, readVars
<1>1. ASSUME LoopStep PROVE ItemTypes'
  <2>1. CASE ItemSent \/ ItemTimeout \/ receiveCompletionItem \/ CloseChannel \/ DeleteStream
             \/ cancelAllInvokes \/ Abort
    BY <2>1 DEF ItemSent, ItemTimeout, receiveCompletionItem, CloseChannel, DeleteStream,
                cancelAllInvokes, Abort
  <2>2. CASE CompletionResult
    <3>1. /\ cur \in Streams /\ UNCHANGED <<chan, got>>
          /\ \/ UNCHANGED <<taken, senders>>
             \/ /\ taken' = [taken EXCEPT ![cur] = taken[cur] + 1]
                /\ senders' = [senders EXCEPT ![cur] = senders[cur] \cup {taken[cur] + 1}]
      BY <2>2 DEF CompletionResult, LoopTypes
    <3>2. QED
      BY <3>1, ItemTaken, ZenonT(30)
  <2>3. QED
    BY <1>1, <2>1, <2>2 DEF LoopStep
<1>2. ASSUME LoopEnds \/ ConnectionCanceled PROVE ItemTypes'
  BY <1>2 DEF LoopEnds, ConnectionCanceled
<1>3. ASSUME NEW p \in Pulls, PullStep(p) PROVE ItemTypes'
  BY <1>3 DEF PullStep, newInvocation, newUpstreamChannel, WriteInvocation, SendStreamInvocation,
              SendFails, deleteUpstreamChannel, deleteInvocation
<1>4. ASSUME NEW S \in SUBSET Uploads,
             buildMethodArguments(S) \/ \E R \in SUBSET S : RejectArguments(S, R)
      PROVE  ItemTypes'
  BY <1>4 DEF buildMethodArguments, RejectArguments
<1>5. ASSUME NEW u \in Uploads, HubStopsReading(u) PROVE ItemTypes'
  BY <1>5 DEF HubStopsReading
<1>6. ASSUME NEW s \in Streams,
             receiveStreamItem(s) \/ BadStreamItem(s) \/ UnknownStreamItem(s)
      PROVE  ItemTypes'
  <2>1. CASE receiveStreamItem(s)
    <3>1. /\ UNCHANGED <<chan, got>>
          /\ taken' = [taken EXCEPT ![s] = taken[s] + 1]
          /\ senders' = [senders EXCEPT ![s] = senders[s] \cup {taken[s] + 1}]
      BY <2>1 DEF receiveStreamItem
    <3>2. QED
      BY <3>1, ItemTaken
  <2>2. CASE BadStreamItem(s) \/ UnknownStreamItem(s)
    BY <2>2 DEF BadStreamItem, UnknownStreamItem
  <2>3. QED
    BY <1>6, <2>1, <2>2
<1>7. ASSUME NEW s \in Streams, NEW k \in {"ok", "error", "result"}, handleCompletionMessage(s, k)
      PROVE  ItemTypes'
  BY <1>7 DEF handleCompletionMessage
<1>8. ASSUME NEW s \in Streams, ReaderStep(s) PROVE ItemTypes'
  <2>1. CASE ReadItem(s)
    <3>1. /\ chan' = [chan EXCEPT ![s] = Tail(chan[s])]
          /\ got' = [got EXCEPT ![s] = Append(got[s], Head(chan[s]))]
          /\ UNCHANGED <<senders, taken>>
      BY <2>1 DEF ReadItem
    <3>2. /\ Head(chan[s]) \in Nat \ {0} /\ Tail(chan[s]) \in Seq(Nat \ {0})
          /\ Len(Tail(chan[s])) <= Capacity
      BY <2>1, ItemSeqs DEF ReadItem
    <3>3. Append(got[s], Head(chan[s])) \in Seq(Nat \ {0})
      BY <3>2, ItemSeqs
    <3>4. QED
      BY <3>1, <3>2, <3>3
  <2>2. CASE ReadClosed(s) \/ (s \in Pulls /\ ReadError(s))
    BY <2>2 DEF ReadClosed, ReadError
  <2>3. QED
    BY <1>8, <2>1, <2>2 DEF ReaderStep
<1>9. ASSUME NEW s \in Streams, NEW i \in senders[s], SendItem(s, i) \/ SendItemPanics(s, i)
      PROVE  ItemTypes'
  <2>1. Append(chan[s], i) \in Seq(Nat \ {0}) /\ Len(Append(chan[s], i)) = Len(chan[s]) + 1
    BY ItemSeqs
  <2>2. CASE SendItem(s, i)
    <3>1. Len(Append(chan[s], i)) <= Capacity
      BY <2>1, <2>2, ItemSeqs DEF SendItem
    <3>2. QED
      BY <2>1, <2>2, <3>1 DEF SendItem
  <2>3. CASE SendItemPanics(s, i)
    BY <2>3 DEF SendItemPanics
  <2>4. QED
    BY <1>9, <2>2, <2>3
<1> HIDE DEF ItemTypes
<1>10. QED
  BY <1>1, <1>2, <1>3, <1>4, <1>5, <1>6, <1>7, <1>8, <1>9 DEF Next

\* The control states of callers, error channels and readers.
LEMMA CallTypesStep ==
  ASSUME LoopTypes, SetTypes, CallTypes, Next
  PROVE  CallTypes'
<1> USE DEF CallTypes, loopVars, busyVars, chanVars, peerVars, callVars, readVars
<1>1. ASSUME LoopStep PROVE CallTypes'
  <2>1. CASE receiveCompletionItem
    BY <2>1 DEF receiveCompletionItem, SetTypes
  <2>2. CASE DeleteStream \/ cancelAllInvokes
    BY <2>2 DEF DeleteStream, cancelAllInvokes
  <2>3. CASE ItemSent \/ ItemTimeout \/ CompletionResult \/ CloseChannel \/ Abort
    BY <2>3 DEF ItemSent, ItemTimeout, CompletionResult, CloseChannel, Abort
  <2>4. QED
    BY <1>1, <2>1, <2>2, <2>3 DEF LoopStep
<1>2. ASSUME LoopEnds \/ ConnectionCanceled PROVE CallTypes'
  BY <1>2 DEF LoopEnds, ConnectionCanceled
<1>3. ASSUME NEW p \in Pulls, PullStep(p) PROVE CallTypes'
  BY <1>3 DEF PullStep, newInvocation, newUpstreamChannel, WriteInvocation, SendStreamInvocation,
              SendFails, deleteUpstreamChannel, deleteInvocation, Streams
<1>4. ASSUME NEW S \in SUBSET Uploads,
             buildMethodArguments(S) \/ \E R \in SUBSET S : RejectArguments(S, R)
      PROVE  CallTypes'
  BY <1>4 DEF buildMethodArguments, RejectArguments
<1>5. ASSUME NEW u \in Uploads, HubStopsReading(u) PROVE CallTypes'
  BY <1>5 DEF HubStopsReading, Streams
<1>6. ASSUME NEW s \in Streams,
             receiveStreamItem(s) \/ BadStreamItem(s) \/ UnknownStreamItem(s)
      PROVE  CallTypes'
  BY <1>6 DEF receiveStreamItem, BadStreamItem, UnknownStreamItem
<1>7. ASSUME NEW s \in Streams, NEW k \in {"ok", "error", "result"}, handleCompletionMessage(s, k)
      PROVE  CallTypes'
  BY <1>7 DEF handleCompletionMessage
<1>8. ASSUME NEW s \in Streams, ReaderStep(s) PROVE CallTypes'
  BY <1>8 DEF ReaderStep, ReadItem, ReadClosed, ReadError
<1>9. ASSUME NEW s \in Streams, NEW i \in senders[s], SendItem(s, i) \/ SendItemPanics(s, i)
      PROVE  CallTypes'
  BY <1>9 DEF SendItem, SendItemPanics
<1> HIDE DEF CallTypes
<1>10. QED
  BY <1>1, <1>2, <1>3, <1>4, <1>5, <1>6, <1>7, <1>8, <1>9 DEF Next

\* The types of a state in the four parts in which the steps keep them.
LEMMA TypeParts ==
  TypeOK <=> LoopTypes /\ SetTypes /\ ItemTypes /\ CallTypes
BY Zenon DEF TypeOK, LoopTypes, SetTypes, ItemTypes, CallTypes

-----------------------------------------------------------------------------
(* Who closes a channel.                                                   *)

\* PullStream could not send: it has closed the channel and told its caller.
Abandoned(s) == s \in Pulls /\ pull[s] \in {"deleteInv", "done"} /\ reader[s] = "failed"

\* The loop handles a completion.
Completing == loop \in {"complete", "result", "close", "delete"} \/ (loop = "send" /\ kind # "none")

BusyInv ==
  /\ loop = "receive" => kind = "none"
  /\ ack => loop = "send"
  /\ Completing => cur \in finished

PullInv ==
  \A p \in Pulls :
    /\ pull[p] \in {"deleteChan", "deleteInv"} => reader[p] = "failed"
    /\ p \in asked => pull[p] \in {"written", "deleteChan", "deleteInv", "done"}

\* A closed channel was closed for a completion or by PullStream.  Only between
\* the close and the delete of a completion is a closed channel registered, and
\* a completion meets a channel that is closed already only if PullStream did it.
CloseInv ==
  /\ \A s \in closed : s \in finished \/ Abandoned(s)
  /\ \A s \in upstream \cap closed : loop = "delete" /\ cur = s
  /\ Completing /\ loop # "delete" /\ cur \in closed => Abandoned(cur)

\* The loop begins with a message and ends it: a completion it handles is the
\* only one of its stream.
LEMMA BusyStep ==
  ASSUME LoopTypes, SetTypes, BusyInv, Next
  PROVE  BusyInv'
<1> USE DEF BusyInv, Completing, loopVars, busyVars, chanVars, peerVars, callVars, readVars, LoopGoesOn
<1>1. ASSUME LoopStep PROVE BusyInv'
  <2>1. CASE ItemSent
    BY <2>1 DEF ItemSent
  <2>2. CASE ItemTimeout
    BY <2>2 DEF ItemTimeout
  <2>3. CASE receiveCompletionItem
    BY <2>3 DEF receiveCompletionItem
  <2>4. CASE CompletionResult
    BY <2>4 DEF CompletionResult
  <2>5. CASE CloseChannel
    BY <2>5 DEF CloseChannel
  <2>6. CASE DeleteStream
    BY <2>6 DEF DeleteStream
  <2>7. CASE cancelAllInvokes \/ Abort
    BY <2>7 DEF cancelAllInvokes, Abort
  <2>8. QED
    BY <1>1, <2>1, <2>2, <2>3, <2>4, <2>5, <2>6, <2>7 DEF LoopStep
<1>2. ASSUME LoopEnds \/ ConnectionCanceled PROVE BusyInv'
  BY <1>2 DEF LoopEnds, ConnectionCanceled
<1>3. ASSUME NEW p \in Pulls, PullStep(p) PROVE BusyInv'
  BY <1>3 DEF PullStep, newInvocation, newUpstreamChannel, WriteInvocation, SendStreamInvocation,
              SendFails, deleteUpstreamChannel, deleteInvocation
<1>4. ASSUME NEW S \in SUBSET Uploads,
             buildMethodArguments(S) \/ \E R \in SUBSET S : RejectArguments(S, R)
      PROVE  BusyInv'
  BY <1>4 DEF buildMethodArguments, RejectArguments
<1>5. ASSUME NEW u \in Uploads, HubStopsReading(u) PROVE BusyInv'
  BY <1>5 DEF HubStopsReading
<1>6. ASSUME NEW s \in Streams,
             receiveStreamItem(s) \/ BadStreamItem(s) \/ UnknownStreamItem(s)
      PROVE  BusyInv'
  BY <1>6 DEF receiveStreamItem, BadStreamItem, UnknownStreamItem
<1>7. ASSUME NEW s \in Streams, NEW k \in {"ok", "error", "result"}, handleCompletionMessage(s, k)
      PROVE  BusyInv'
  BY <1>7 DEF handleCompletionMessage
<1>8. ASSUME NEW s \in Streams, ReaderStep(s) PROVE BusyInv'
  BY <1>8 DEF ReaderStep, ReadItem, ReadClosed, ReadError
<1>9. ASSUME NEW s \in Streams, NEW i \in senders[s], SendItem(s, i) \/ SendItemPanics(s, i)
      PROVE  BusyInv'
  <2>1. ack' => loop' = "send"
    BY <1>9, Zenon DEF SendItem, SendItemPanics
  <2>2. QED
    BY <1>9, <2>1 DEF SendItem, SendItemPanics
<1> HIDE DEF BusyInv
<1>10. QED
  BY <1>1, <1>2, <1>3, <1>4, <1>5, <1>6, <1>7, <1>8, <1>9 DEF Next

\* The caller of PullStream is told of the failure before the channel is
\* deleted, and the peer knows of a stream only when it was written.
LEMMA PullStepKept ==
  ASSUME LoopTypes, SetTypes, CallTypes, PullInv, Next
  PROVE  PullInv'
<1> USE DEF PullInv, CallTypes, SetTypes, loopVars, busyVars, chanVars, peerVars, callVars, readVars
<1>1. ASSUME LoopStep PROVE PullInv'
  BY <1>1 DEF LoopStep, ItemSent, ItemTimeout, receiveCompletionItem, CompletionResult, CloseChannel,
              DeleteStream, cancelAllInvokes, Abort
<1>2. ASSUME LoopEnds \/ ConnectionCanceled PROVE PullInv'
  BY <1>2 DEF LoopEnds, ConnectionCanceled
<1>3. ASSUME NEW p \in Pulls, PullStep(p) PROVE PullInv'
  BY <1>3 DEF PullStep, newInvocation, newUpstreamChannel, WriteInvocation, SendStreamInvocation,
              SendFails, deleteUpstreamChannel, deleteInvocation, Streams
<1>4. ASSUME NEW S \in SUBSET Uploads,
             buildMethodArguments(S) \/ \E R \in SUBSET S : RejectArguments(S, R)
      PROVE  PullInv'
  BY <1>4, StreamsAssumption DEF buildMethodArguments, RejectArguments, Streams
<1>5. ASSUME NEW u \in Uploads, HubStopsReading(u) PROVE PullInv'
  BY <1>5, StreamsAssumption DEF HubStopsReading, Streams
<1>6. ASSUME NEW s \in Streams,
             receiveStreamItem(s) \/ BadStreamItem(s) \/ UnknownStreamItem(s)
      PROVE  PullInv'
  BY <1>6 DEF receiveStreamItem, BadStreamItem, UnknownStreamItem
<1>7. ASSUME NEW s \in Streams, NEW k \in {"ok", "error", "result"}, handleCompletionMessage(s, k)
      PROVE  PullInv'
  BY <1>7 DEF handleCompletionMessage
<1>8. ASSUME NEW s \in Streams, ReaderStep(s) PROVE PullInv'
  BY <1>8 DEF ReaderStep, ReadItem, ReadClosed, ReadError, Streams
<1>9. ASSUME NEW s \in Streams, NEW i \in senders[s], SendItem(s, i) \/ SendItemPanics(s, i)
      PROVE  PullInv'
  BY <1>9 DEF SendItem, SendItemPanics
<1> HIDE DEF PullInv
<1>10. QED
  BY <1>1, <1>2, <1>3, <1>4, <1>5, <1>6, <1>7, <1>8, <1>9 DEF Next

\* An abandoned stream stays abandoned: PullStream registers a stream once and
\* its caller has gone.
LEMMA AbandonedStays ==
  ASSUME CallTypes, Next, NEW s \in Streams, Abandoned(s)
  PROVE  Abandoned(s)'
<1> USE DEF Abandoned, CallTypes, loopVars, busyVars, chanVars, peerVars, callVars, readVars
<1>1. ASSUME LoopStep PROVE Abandoned(s)'
  BY <1>1 DEF LoopStep, ItemSent, ItemTimeout, receiveCompletionItem, CompletionResult, CloseChannel,
              DeleteStream, cancelAllInvokes, Abort
<1>2. ASSUME LoopEnds \/ ConnectionCanceled PROVE Abandoned(s)'
  BY <1>2 DEF LoopEnds, ConnectionCanceled
<1>3. ASSUME NEW p \in Pulls, PullStep(p) PROVE Abandoned(s)'
  BY <1>3 DEF PullStep, newInvocation, newUpstreamChannel, WriteInvocation, SendStreamInvocation,
              SendFails, deleteUpstreamChannel, deleteInvocation, Streams
<1>4. ASSUME NEW S \in SUBSET Uploads,
             buildMethodArguments(S) \/ \E R \in SUBSET S : RejectArguments(S, R)
      PROVE  Abandoned(s)'
  BY <1>4, StreamsAssumption DEF buildMethodArguments, RejectArguments, Streams
<1>5. ASSUME NEW u \in Uploads, HubStopsReading(u) PROVE Abandoned(s)'
  BY <1>5, StreamsAssumption DEF HubStopsReading, Streams
<1>6. ASSUME NEW t \in Streams,
             receiveStreamItem(t) \/ BadStreamItem(t) \/ UnknownStreamItem(t)
      PROVE  Abandoned(s)'
  BY <1>6 DEF receiveStreamItem, BadStreamItem, UnknownStreamItem
<1>7. ASSUME NEW t \in Streams, NEW k \in {"ok", "error", "result"}, handleCompletionMessage(t, k)
      PROVE  Abandoned(s)'
  BY <1>7 DEF handleCompletionMessage
<1>8. ASSUME NEW t \in Streams, ReaderStep(t) PROVE Abandoned(s)'
  BY <1>8 DEF ReaderStep, ReadItem, ReadClosed, ReadError, Streams
<1>9. ASSUME NEW t \in Streams, NEW i \in senders[t], SendItem(t, i) \/ SendItemPanics(t, i)
      PROVE  Abandoned(s)'
  BY <1>9 DEF SendItem, SendItemPanics
<1> HIDE DEF Abandoned
<1>10. QED
  BY <1>1, <1>2, <1>3, <1>4, <1>5, <1>6, <1>7, <1>8, <1>9 DEF Next

\* Every step keeps the record of who has closed a channel: a stream is
\* registered once, completed once, and closed again only after PullStream.
LEMMA CloseStep ==
  ASSUME LoopTypes, SetTypes, CallTypes, BusyInv, PullInv, CloseInv, Next
  PROVE  CloseInv'
<1> DEFINE Ab == {s \in Streams : Abandoned(s)}
<1>a. Ab \subseteq Ab'
  BY AbandonedStays
<1>b. closed \subseteq finished \cup Ab /\ (Completing /\ loop # "delete" /\ cur \in closed => cur \in Ab)
  BY DEF CloseInv, SetTypes
<1>c. \A s \in upstream \cap closed : loop = "delete" /\ cur = s
  BY DEF CloseInv
<1>d. SUFFICES /\ closed' \subseteq finished' \cup Ab'
               /\ \A s \in upstream' \cap closed' : loop' = "delete" /\ cur' = s
               /\ Completing' /\ loop' # "delete" /\ cur' \in closed' => cur' \in Ab'
  BY DEF CloseInv
<1>e. \A p \in Pulls : p \in closed => pull[p] \in {"written", "deleteChan", "deleteInv", "done"}
  BY <1>b DEF PullInv, SetTypes, Abandoned
<1>f. \A u \in Uploads : u \in closed => u \in asked
  BY <1>b, StreamsAssumption DEF SetTypes, Abandoned
<1> DEFINE Goal == /\ closed' \subseteq finished' \cup Ab'
                   /\ \A s \in upstream' \cap closed' : loop' = "delete" /\ cur' = s
                   /\ Completing' /\ loop' # "delete" /\ cur' \in closed' => cur' \in Ab'
<1> HIDE DEF Ab
<1> USE DEF loopVars, busyVars, chanVars, peerVars, callVars, readVars, LoopGoesOn, Completing
<1>1. ASSUME LoopStep PROVE Goal
  <2>1. CASE ItemSent \/ ItemTimeout
    BY <2>1, <1>a, <1>b, <1>c DEF ItemSent, ItemTimeout
  <2>2. CASE receiveCompletionItem
    BY <2>2, <1>a, <1>b, <1>c DEF receiveCompletionItem
  <2>3. CASE CompletionResult
    BY <2>3, <1>a, <1>b, <1>c DEF CompletionResult
  <2>4. CASE CloseChannel
    BY <2>4, <1>a, <1>b, <1>c DEF CloseChannel, BusyInv
  <2>5. CASE DeleteStream
    BY <2>5, <1>a, <1>b, <1>c DEF DeleteStream
  <2>6. CASE cancelAllInvokes \/ Abort
    BY <2>6, <1>a, <1>b, <1>c DEF cancelAllInvokes, Abort
  <2>7. QED
    BY <1>1, <2>1, <2>2, <2>3, <2>4, <2>5, <2>6 DEF LoopStep
<1>2. ASSUME LoopEnds \/ ConnectionCanceled PROVE Goal
  BY <1>2, <1>a, <1>b, <1>c DEF LoopEnds, ConnectionCanceled
<1>3. ASSUME NEW p \in Pulls, PullStep(p) PROVE Goal
  <2>1. CASE newUpstreamChannel(p)
    BY <2>1, <1>a, <1>b, <1>c, <1>e DEF newUpstreamChannel
  <2>2. CASE deleteUpstreamChannel(p)
    <3>1. pull'[p] = "deleteInv" /\ reader'[p] = "failed" /\ p \in Streams
      BY <2>2 DEF deleteUpstreamChannel, CallTypes, PullInv, Streams
    <3>2. p \in Ab'
      BY <3>1 DEF Ab, Abandoned
    <3>3. QED
      BY <2>2, <1>a, <1>b, <1>c, <3>2 DEF deleteUpstreamChannel
  <2>3. CASE newInvocation(p) \/ WriteInvocation(p) \/ SendStreamInvocation(p) \/ SendFails(p)
             \/ deleteInvocation(p)
    BY <2>3, <1>a, <1>b, <1>c DEF newInvocation, WriteInvocation, SendStreamInvocation, SendFails,
                                  deleteInvocation
  <2>4. QED
    BY <1>3, <2>1, <2>2, <2>3 DEF PullStep
<1>4. ASSUME NEW S \in SUBSET Uploads,
             buildMethodArguments(S) \/ \E R \in SUBSET S : RejectArguments(S, R)
      PROVE  Goal
  BY <1>4, <1>a, <1>b, <1>c, <1>f DEF buildMethodArguments, RejectArguments
<1>5. ASSUME NEW u \in Uploads, HubStopsReading(u) PROVE Goal
  BY <1>5, <1>a, <1>b, <1>c DEF HubStopsReading
<1>6. ASSUME NEW s \in Streams,
             receiveStreamItem(s) \/ BadStreamItem(s) \/ UnknownStreamItem(s)
      PROVE  Goal
  BY <1>6, <1>a, <1>b, <1>c DEF receiveStreamItem, BadStreamItem, UnknownStreamItem
<1>7. ASSUME NEW s \in Streams, NEW k \in {"ok", "error", "result"}, handleCompletionMessage(s, k)
      PROVE  Goal
  BY <1>7, <1>a, <1>b, <1>c DEF handleCompletionMessage
<1>8. ASSUME NEW s \in Streams, ReaderStep(s) PROVE Goal
  BY <1>8, <1>a, <1>b, <1>c DEF ReaderStep, ReadItem, ReadClosed, ReadError
<1>9. ASSUME NEW s \in Streams, NEW i \in senders[s], SendItem(s, i) \/ SendItemPanics(s, i)
      PROVE  Goal
  BY <1>9, <1>a, <1>b, <1>c DEF SendItem, SendItemPanics
<1> HIDE DEF Goal
<1>10. Goal
  BY <1>1, <1>2, <1>3, <1>4, <1>5, <1>6, <1>7, <1>8, <1>9, ZenonT(30) DEF Next
<1>11. QED
  BY <1>10 DEF Goal

\* What is known of every state: its types and who has closed what.
StreamInv == LoopTypes /\ SetTypes /\ ItemTypes /\ CallTypes /\ BusyInv /\ PullInv /\ CloseInv

\* The invariants hold when the loop begins and after every step of the loop,
\* of a caller, of a goroutine that sends and of a reader.
LEMMA StreamInvariant == Spec => []StreamInv
<1>1. Init => StreamInv
  <2> SUFFICES ASSUME Init PROVE StreamInv
    OBVIOUS
  <2>1. LoopTypes /\ SetTypes /\ CallTypes
    BY Zenon DEF Init, LoopTypes, SetTypes, CallTypes
  <2>2. ItemTypes
    BY CapacityAssumption, ItemSeqs DEF Init, ItemTypes
  <2>3. BusyInv /\ PullInv /\ CloseInv
    BY DEF Init, BusyInv, Completing, PullInv, CloseInv
  <2>4. QED
    BY <2>1, <2>2, <2>3 DEF StreamInv
<1>2. StreamInv /\ [Next]_vars => StreamInv'
  <2>1. ASSUME StreamInv, Next PROVE StreamInv'
    BY <2>1, LoopTypesStep, SetTypesStep, ItemTypesStep, CallTypesStep, BusyStep, PullStepKept, CloseStep
       DEF StreamInv
  <2>2. ASSUME StreamInv, UNCHANGED vars PROVE StreamInv'
    BY <2>2 DEF StreamInv, LoopTypes, SetTypes, ItemTypes, CallTypes, BusyInv, Completing, PullInv,
                CloseInv, Abandoned, vars, loopVars, chanVars, peerVars, callVars, readVars
  <2>3. QED
    BY <2>1, <2>2
<1>3. QED
  BY <1>1, <1>2, PTL DEF Spec

\* Every variable of the streams keeps its type, and a channel never holds more
\* than streamBufferCapacity items.
THEOREM StreamTypes == Spec => []TypeOK
<1>1. StreamInv => TypeOK
  BY TypeParts DEF StreamInv
<1>2. QED
  BY <1>1, StreamInvariant, PTL

\* A channel is closed twice, by the loop and by PullStream, only if the peer
\* has the invocation although its send was reported as failed.
LEMMA PanicStep ==
  ASSUME StreamInv, Next
  PROVE  PanicNeedsFailedSend'
<1> SUFFICES ASSUME panicked' PROVE PanicNeedsFailedSend'
  BY DEF PanicNeedsFailedSend
<1> USE DEF loopVars, busyVars, chanVars, peerVars, callVars, readVars, StreamInv
<1>1. ~panicked
  BY DEF Next
<1>2. CASE CloseChannel
  <2>1. cur \in closed /\ cur \in finished /\ Abandoned(cur)
    BY <1>1, <1>2, Zenon DEF CloseChannel, BusyInv, CloseInv, Completing
  <2>2. QED
    BY <1>2, <2>1 DEF CloseChannel, PanicNeedsFailedSend, Abandoned, SetTypes
<1>3. ASSUME NEW p \in Pulls, deleteUpstreamChannel(p)
      PROVE  PanicNeedsFailedSend'
  <2>1. p \in upstream /\ p \in closed /\ pull[p] = "deleteChan" /\ UNCHANGED <<asked, reader>>
    BY <1>1, <1>3, Zenon DEF deleteUpstreamChannel
  <2>2. p \in asked /\ reader[p] = "failed"
    BY <2>1 DEF CloseInv, PullInv, SetTypes, Abandoned
  <2>3. pull'[p] = "deleteInv"
    BY <1>3 DEF deleteUpstreamChannel, CallTypes
  <2>4. QED
    BY <2>1, <2>2, <2>3 DEF PanicNeedsFailedSend
<1>4. ASSUME LoopStep, ~CloseChannel PROVE panicked' = panicked
  BY <1>4, Zenon DEF LoopStep, ItemSent, ItemTimeout, receiveCompletionItem, CompletionResult,
              DeleteStream, cancelAllInvokes, Abort
<1>5. ASSUME NEW p \in Pulls, PullStep(p), ~deleteUpstreamChannel(p) PROVE panicked' = panicked
  BY <1>5, Zenon DEF PullStep, newInvocation, newUpstreamChannel, WriteInvocation, SendStreamInvocation,
              SendFails, deleteInvocation
<1>6. ASSUME NEW s \in Streams,
             receiveStreamItem(s) \/ BadStreamItem(s) \/ UnknownStreamItem(s) \/ ReaderStep(s)
      PROVE  panicked' = panicked
  BY <1>6, Zenon DEF receiveStreamItem, BadStreamItem, UnknownStreamItem, ReaderStep, ReadItem, ReadClosed,
              ReadError
<1>7. ASSUME NEW s \in Streams, NEW k \in {"ok", "error", "result"}, handleCompletionMessage(s, k)
      PROVE  panicked' = panicked
  BY <1>7, Zenon DEF handleCompletionMessage
<1>8. ASSUME NEW s \in Streams, NEW i \in senders[s], SendItem(s, i) \/ SendItemPanics(s, i)
      PROVE  panicked' = panicked
  BY <1>8, Zenon DEF SendItem, SendItemPanics
<1>9. ASSUME NEW S \in SUBSET Uploads,
             buildMethodArguments(S) \/ \E R \in SUBSET S : RejectArguments(S, R)
      PROVE  panicked' = panicked
  BY <1>9, Zenon DEF buildMethodArguments, RejectArguments
<1>10. ASSUME LoopEnds \/ ConnectionCanceled \/ \E u \in Uploads : HubStopsReading(u)
       PROVE  panicked' = panicked
  BY <1>10, Zenon DEF LoopEnds, ConnectionCanceled, HubStopsReading
<1>11. QED
  BY <1>1, <1>2, <1>3, <1>4, <1>5, <1>6, <1>7, <1>8, <1>9, <1>10, Zenon DEF Next

\* The loop and PullStream close the same channel only if the peer answers an
\* invocation whose send was reported as failed (loop.go:153-160,
\* streamclient.go:144), whatever the streams and their limits are.
THEOREM DoubleCloseNeedsFailedSend == Spec => []PanicNeedsFailedSend
<1>1. Init => PanicNeedsFailedSend
  BY DEF Init, PanicNeedsFailedSend
<1>2. PanicNeedsFailedSend /\ UNCHANGED vars => PanicNeedsFailedSend'
  BY DEF PanicNeedsFailedSend, vars, peerVars, callVars, readVars
<1>3. QED
  BY <1>1, <1>2, StreamInvariant, PanicStep, PTL DEF Spec

-----------------------------------------------------------------------------
(* The way of an item to the reader.                                       *)

\* The first n items.
FirstItems(n) == [i \in 1..n |-> i]

\* What has come through: what the reader has got and what waits for it.
Line(s) == got[s] \o chan[s]

\* Without a timeout every item has come through or the goroutine of the last
\* one has still to send it, and the loop waits for it.
InLine(s) ==
  \/ senders[s] = {} /\ Line(s) = FirstItems(taken[s])
  \/ /\ senders[s] = {taken[s]} /\ loop = "send" /\ cur = s /\ ~ack
     /\ taken[s] > 0 /\ Line(s) = FirstItems(taken[s] - 1)

\* The channel of a reader that has ended is closed, so nothing more comes.
ItemsInv ==
  \A s \in Streams :
    /\ reader[s] = "ended" => s \in closed
    /\ s \notin timeouts => InLine(s) /\ (reader[s] = "ended" => Len(got[s]) = taken[s])

\* An item read from the buffer, and one put into it, in the line of items.
LEMMA Lines ==
  ASSUME NEW q \in Seq(Nat \ {0}), NEW r \in Seq(Nat \ {0})
  PROVE  /\ q \o r \in Seq(Nat \ {0}) /\ Len(q \o r) = Len(q) + Len(r)
         /\ r # <<>> => Append(q, Head(r)) \o Tail(r) = q \o r
         /\ \A i \in Nat \ {0} : q \o Append(r, i) = Append(q \o r, i)
         /\ q \o <<>> = q
<1>1. q \o r \in Seq(Nat \ {0}) /\ Len(q \o r) = Len(q) + Len(r)
  OBVIOUS
<1>2. ASSUME r # <<>> PROVE Append(q, Head(r)) \o Tail(r) = q \o r
  <2> DEFINE a == Append(q, Head(r))
  <2>1. a \in Seq(Nat \ {0}) /\ Len(a) = Len(q) + 1 /\ \A i \in 1..Len(q) : a[i] = q[i]
    BY <1>2
  <2>2. a[Len(q) + 1] = r[1]
    BY <1>2
  <2>3. /\ Tail(r) \in Seq(Nat \ {0}) /\ Len(Tail(r)) = Len(r) - 1 /\ Len(r) > 0
        /\ \A i \in 1..(Len(r) - 1) : Tail(r)[i] = r[i + 1]
    BY <1>2
  <2> HIDE DEF a
  <2>4. QED
    BY <2>1, <2>2, <2>3, SMTT(30) DEF a
<1>3. ASSUME NEW i \in Nat \ {0} PROVE q \o Append(r, i) = Append(q \o r, i)
  OBVIOUS
<1>4. q \o <<>> = q
  OBVIOUS
<1>5. QED
  BY <1>1, <1>2, <1>3, <1>4, Zenon

\* The next item makes the first n items the first n + 1.
LEMMA NextItem ==
  ASSUME NEW n \in Nat
  PROVE  /\ FirstItems(n) \in Seq(Nat \ {0}) /\ Len(FirstItems(n)) = n
         /\ Append(FirstItems(n), n + 1) = FirstItems(n + 1)
BY DEF FirstItems

\* A step that moves no item keeps the lines, if it does not let the loop go on
\* while a goroutine has still to send.
LEMMA LinesKept ==
  ASSUME ItemsInv, UNCHANGED <<chan, got, senders, taken>>,
         closed \subseteq closed', timeouts \subseteq timeouts',
         \A s \in Streams : reader'[s] = "ended" => reader[s] = "ended",
         \A s \in Streams \ timeouts' : senders[s] # {} => UNCHANGED <<loop, cur, ack>>
  PROVE  ItemsInv'
<1>1. ASSUME NEW s \in Streams, s \notin timeouts' PROVE InLine(s)'
  <2>1. InLine(s)
    BY <1>1 DEF ItemsInv
  <2>2. CASE senders[s] = {}
    BY <2>1, <2>2, Zenon DEF InLine, Line
  <2>3. CASE senders[s] # {}
    <3>1. UNCHANGED <<loop, cur, ack>>
      BY <1>1, <2>3
    <3>2. QED
      BY <2>1, <2>3, <3>1, Zenon DEF InLine, Line
  <2>4. QED
    BY <2>2, <2>3
<1>2. QED
  BY <1>1 DEF ItemsInv

\* While the loop does not wait for a send, nothing is on its way.
LEMMA NothingOnItsWay ==
  ASSUME ItemsInv, NEW s \in Streams \ timeouts, loop # "send" \/ cur # s \/ ack
  PROVE  senders[s] = {}
BY DEF ItemsInv, InLine

\* The loop takes an item of a stream whose channel is open, or the result of
\* its completion: it is the next one.
LEMMA TakenInLine ==
  ASSUME StreamInv, ItemsInv, NEW s \in Streams, s \notin closed, loop # "send",
         taken' = [taken EXCEPT ![s] = taken[s] + 1],
         senders' = [senders EXCEPT ![s] = senders[s] \cup {taken[s] + 1}],
         loop' = "send", cur' = s, UNCHANGED <<ack, chan, got, closed, reader, timeouts>>
  PROVE  ItemsInv'
<1>1. ~ack
  BY DEF StreamInv, BusyInv
<1>2. ASSUME NEW t \in Streams \ timeouts
      PROVE  InLine(t)' /\ (reader'[t] = "ended" => Len(got'[t]) = taken'[t])
  <2>1. senders[t] = {}
    BY NothingOnItsWay
  <2>2. Line(t) = FirstItems(taken[t]) /\ Line(t)' = Line(t) /\ taken[t] \in Nat
    BY <2>1 DEF ItemsInv, InLine, Line, StreamInv, ItemTypes
  <2>3. CASE t = s
    <3>1. taken'[s] = taken[s] + 1 /\ senders'[s] = {taken[s] + 1} /\ reader[s] # "ended"
      BY <2>1, <2>3 DEF StreamInv, ItemTypes, ItemsInv
    <3>2. taken'[s] > 0 /\ taken'[s] - 1 = taken[s]
      BY <3>1, <2>2, <2>3
    <3>3. QED
      BY <1>1, <2>2, <2>3, <3>1, <3>2 DEF InLine
  <2>4. CASE t # s
    <3>1. taken'[t] = taken[t] /\ senders'[t] = {}
      BY <2>1, <2>4 DEF StreamInv, ItemTypes
    <3>2. QED
      BY <2>2, <3>1 DEF InLine, ItemsInv
  <2>5. QED
    BY <2>3, <2>4
<1>3. QED
  BY <1>2 DEF ItemsInv

\* A goroutine sends: it is that of the last item, and the loop is told.
LEMMA SentInLine ==
  ASSUME StreamInv, ItemsInv, NEW s \in Streams, NEW i \in senders[s], SendItem(s, i)
  PROVE  ItemsInv'
<1> USE DEF loopVars, chanVars, readVars
<1>1. /\ chan' = [chan EXCEPT ![s] = Append(chan[s], i)]
      /\ senders' = [senders EXCEPT ![s] = senders[s] \ {i}]
      /\ UNCHANGED <<loop, cur, taken, closed, got, reader, timeouts>>
  BY DEF SendItem
<1>2. ack' = (ack \/ (loop = "send" /\ cur = s /\ i = taken[s]))
  BY DEF SendItem
<1>3. ASSUME NEW t \in Streams \ timeouts
      PROVE  InLine(t)' /\ (reader'[t] = "ended" => Len(got'[t]) = taken'[t])
  <2>1. CASE t = s
    <3>1. /\ senders[s] = {taken[s]} /\ loop = "send" /\ cur = s /\ taken[s] > 0
          /\ Line(s) = FirstItems(taken[s] - 1) /\ i = taken[s]
      BY <2>1 DEF ItemsInv, InLine
    <3>2. /\ got'[s] = got[s] /\ chan'[s] = Append(chan[s], taken[s]) /\ senders'[s] = {}
          /\ taken[s] \in Nat \ {0} /\ taken[s] - 1 \in Nat
          /\ got[s] \in Seq(Nat \ {0}) /\ chan[s] \in Seq(Nat \ {0})
      BY <1>1, <3>1 DEF StreamInv, ItemTypes
    <3>3. Line(s)' = Append(Line(s), taken[s])
      <4>1. got[s] \o Append(chan[s], taken[s]) = Append(got[s] \o chan[s], taken[s])
        <5>1. \A q, r \in Seq(Nat \ {0}) : \A k \in Nat \ {0} : q \o Append(r, k) = Append(q \o r, k)
          BY Lines
        <5>2. got[s] \in Seq(Nat \ {0}) /\ chan[s] \in Seq(Nat \ {0}) /\ taken[s] \in Nat \ {0}
          BY <3>2
        <5>3. QED
          BY <5>1, <5>2, Zenon
      <4>2. QED
        BY <3>2, <4>1 DEF Line
    <3>4. Append(FirstItems(taken[s] - 1), taken[s]) = FirstItems(taken[s])
      <4>1. (taken[s] - 1) + 1 = taken[s]
        BY <3>2
      <4>2. Append(FirstItems(taken[s] - 1), (taken[s] - 1) + 1) = FirstItems((taken[s] - 1) + 1)
        BY <3>2, NextItem, Zenon
      <4>3. QED
        BY <4>1, <4>2
    <3>5. InLine(s)'
      BY <1>1, <3>1, <3>2, <3>3, <3>4 DEF InLine
    <3>6. QED
      BY <2>1, <1>1, <3>2, <3>5 DEF ItemsInv
  <2>2. CASE t # s
    <3>1. chan'[t] = chan[t] /\ senders'[t] = senders[t]
      BY <1>1, <2>2 DEF StreamInv, ItemTypes
    <3>2. senders[t] # {} => ~ack'
      <4>1. ASSUME senders[t] # {} PROVE cur # s /\ ~ack
        BY <4>1, <2>2 DEF ItemsInv, InLine
      <4>2. QED
        BY <1>2, <4>1, Zenon
    <3>3. QED
      BY <1>1, <3>1, <3>2, Zenon DEF InLine, Line, ItemsInv
  <2>3. QED
    BY <2>1, <2>2
<1>4. QED
  BY <1>1, <1>3 DEF ItemsInv

\* The reader takes the head of the buffer, so the line is the same.
LEMMA ReadInLine ==
  ASSUME StreamInv, ItemsInv, NEW s \in Streams, ReadItem(s)
  PROVE  ItemsInv'
<1> USE DEF loopVars, chanVars, readVars
<1>1. /\ chan' = [chan EXCEPT ![s] = Tail(chan[s])]
      /\ got' = [got EXCEPT ![s] = Append(got[s], Head(chan[s]))]
      /\ UNCHANGED <<loop, cur, ack, senders, taken, closed, reader, timeouts>>
      /\ reader[s] = "reading" /\ chan[s] # <<>>
  BY DEF ReadItem
<1>2. ASSUME NEW t \in Streams PROVE Line(t)' = Line(t)
  <2>1. CASE t = s
    <3>1. /\ got[s] \in Seq(Nat \ {0}) /\ chan[s] \in Seq(Nat \ {0})
          /\ chan \in [Streams -> Seq(Nat \ {0})] /\ got \in [Streams -> Seq(Nat \ {0})]
      BY DEF StreamInv, ItemTypes
    <3>2. got'[s] = Append(got[s], Head(chan[s])) /\ chan'[s] = Tail(chan[s])
      BY <1>1, <3>1, Zenon
    <3>3. Append(got[s], Head(chan[s])) \o Tail(chan[s]) = got[s] \o chan[s]
      <4>1. \A q, r \in Seq(Nat \ {0}) : r # <<>> => Append(q, Head(r)) \o Tail(r) = q \o r
        BY Lines, Zenon
      <4>2. QED
        BY <1>1, <3>1, <4>1, Zenon
    <3>4. QED
      BY <2>1, <3>2, <3>3, Zenon DEF Line
  <2>2. CASE t # s
    <3>1. got'[t] = got[t] /\ chan'[t] = chan[t]
      BY <1>1, <2>2, Zenon DEF StreamInv, ItemTypes
    <3>2. QED
      BY <3>1, Zenon DEF Line
  <2>3. QED
    BY <2>1, <2>2
<1>3. ASSUME NEW t \in Streams, reader'[t] = "ended" PROVE got'[t] = got[t]
  BY <1>1, <1>3 DEF StreamInv, ItemTypes
<1>4. QED
  BY <1>1, <1>2, <1>3 DEF ItemsInv, InLine

\* A reader that finds its channel closed and empty has had every item: no
\* goroutine has still to send, because the loop waits only for a stream that is
\* registered, and its channel is open.
LEMMA EndInLine ==
  ASSUME StreamInv, ItemsInv, NEW s \in Streams, ReadClosed(s)
  PROVE  ItemsInv'
<1> USE DEF loopVars, chanVars, readVars
<1>1. /\ reader' = [reader EXCEPT ![s] = "ended"]
      /\ UNCHANGED <<loop, cur, ack, senders, taken, closed, chan, got, timeouts>>
      /\ chan[s] = <<>> /\ s \in closed
  BY DEF ReadClosed
<1>2. loop # "send" \/ cur # s
  BY <1>1 DEF StreamInv, LoopTypes, CloseInv
<1>3. ASSUME s \notin timeouts PROVE Len(got[s]) = taken[s]
  <2>1. Line(s) = FirstItems(taken[s])
    BY <1>2, <1>3, NothingOnItsWay DEF ItemsInv, InLine
  <2>2. Line(s) = got[s]
    BY <1>1, Lines DEF Line, StreamInv, ItemTypes
  <2>3. QED
    BY <2>1, <2>2, NextItem, Zenon DEF StreamInv, ItemTypes
<1>4. QED
  BY <1>1, <1>3, Zenon DEF ItemsInv, InLine, Line, StreamInv, CallTypes

\* Every step of the loop, of its callers, goroutines and readers keeps the
\* items in line.
LEMMA ItemsStep ==
  ASSUME StreamInv, ItemsInv, Next
  PROVE  ItemsInv'
<1> USE DEF loopVars, busyVars, chanVars, peerVars, callVars, readVars
<1>1. ASSUME LoopStep PROVE ItemsInv'
  <2>1. CASE ItemSent
    <3>1. /\ UNCHANGED <<chan, got, senders, taken, closed, timeouts, reader>> /\ ack
      BY <2>1 DEF ItemSent
    <3>2. QED
      BY <3>1, LinesKept, NothingOnItsWay, Zenon
  <2>2. CASE ItemTimeout
    <3>1. UNCHANGED <<chan, got, senders, taken, closed, reader>> /\ timeouts' = timeouts \cup {cur}
      BY <2>2 DEF ItemTimeout
    <3>2. \A s \in Streams \ timeouts' : senders[s] = {}
      BY <3>1, NothingOnItsWay
    <3>3. QED
      BY <3>1, <3>2, LinesKept
  <2>3. CASE CompletionResult
    <3>1. CASE cur \in running \/ cur \notin upstream
      <4>1. UNCHANGED <<chan, got, senders, taken, closed, reader, timeouts>> /\ loop = "result"
        BY <2>3, <3>1 DEF CompletionResult
      <4>2. QED
        BY <4>1, LinesKept, NothingOnItsWay
    <3>2. CASE ~(cur \in running \/ cur \notin upstream)
      <4>1. /\ taken' = [taken EXCEPT ![cur] = taken[cur] + 1]
            /\ senders' = [senders EXCEPT ![cur] = senders[cur] \cup {taken[cur] + 1}]
            /\ loop = "result" /\ loop' = "send" /\ cur' = cur
            /\ UNCHANGED <<ack, chan, got, closed, reader, timeouts>>
        BY <2>3, <3>2 DEF CompletionResult
      <4>2. cur \in Streams /\ cur \notin closed
        BY <3>2, <4>1 DEF StreamInv, LoopTypes, CloseInv
      <4>3. QED
        BY <4>1, <4>2, TakenInLine, Zenon
    <3>3. QED
      BY <3>1, <3>2
  <2>4. CASE receiveCompletionItem \/ CloseChannel \/ DeleteStream \/ cancelAllInvokes \/ Abort
    <3>1. /\ UNCHANGED <<chan, got, senders, taken, reader, timeouts>> /\ closed \subseteq closed'
          /\ loop # "send"
      BY <2>4 DEF receiveCompletionItem, CloseChannel, DeleteStream, cancelAllInvokes, Abort
    <3>2. QED
      BY <3>1, LinesKept, NothingOnItsWay
  <2>5. QED
    BY <1>1, <2>1, <2>2, <2>3, <2>4 DEF LoopStep
<1>2. ASSUME LoopEnds \/ ConnectionCanceled PROVE ItemsInv'
  <2>1. /\ UNCHANGED <<chan, got, senders, taken, reader, timeouts, closed>>
        /\ loop # "send" \/ UNCHANGED <<loop, cur, ack>>
    BY <1>2 DEF LoopEnds, ConnectionCanceled
  <2>2. QED
    BY <2>1, LinesKept, NothingOnItsWay
<1>3. ASSUME NEW p \in Pulls, PullStep(p) PROVE ItemsInv'
  <2>1. /\ UNCHANGED <<chan, got, senders, taken, timeouts, loop, cur, ack>>
        /\ closed \subseteq closed'
        /\ UNCHANGED reader \/ reader' = [reader EXCEPT ![p] = "reading"]
                            \/ reader' = [reader EXCEPT ![p] = "failed"]
    BY <1>3 DEF PullStep, newInvocation, newUpstreamChannel, WriteInvocation, SendStreamInvocation,
                SendFails, deleteUpstreamChannel, deleteInvocation
  <2>2. \A s \in Streams : reader'[s] = "ended" => reader[s] = "ended"
    BY <2>1 DEF StreamInv, CallTypes
  <2>3. QED
    BY <2>1, <2>2, LinesKept
<1>4. ASSUME NEW S \in SUBSET Uploads,
             buildMethodArguments(S) \/ \E R \in SUBSET S : RejectArguments(S, R)
      PROVE  ItemsInv'
  <2>1. /\ UNCHANGED <<chan, got, senders, taken, timeouts, loop, cur, ack, closed>>
        /\ \/ UNCHANGED reader
           \/ reader' = [u \in Streams |-> IF u \in S THEN "reading" ELSE reader[u]]
    BY <1>4 DEF buildMethodArguments, RejectArguments
  <2>2. \A s \in Streams : reader'[s] = "ended" => reader[s] = "ended"
    BY <2>1
  <2>3. QED
    BY <2>1, <2>2, LinesKept
<1>5. ASSUME NEW s \in Streams,
             HubStopsReading(s) \/ (s \in Pulls /\ ReadError(s))
      PROVE  ItemsInv'
  <2>1. /\ UNCHANGED <<chan, got, senders, taken, timeouts, loop, cur, ack, closed>>
        /\ \A t \in Streams : reader'[t] = "ended" => reader[t] = "ended"
    BY <1>5 DEF HubStopsReading, ReadError, StreamInv, CallTypes
  <2>2. QED
    BY <2>1, LinesKept
<1>6. ASSUME NEW s \in Streams, receiveStreamItem(s) PROVE ItemsInv'
  <2>1. /\ taken' = [taken EXCEPT ![s] = taken[s] + 1]
        /\ senders' = [senders EXCEPT ![s] = senders[s] \cup {taken[s] + 1}]
        /\ loop = "receive" /\ loop' = "send" /\ cur' = s /\ s \in upstream
        /\ UNCHANGED <<ack, chan, got, closed, reader, timeouts>>
    BY <1>6 DEF receiveStreamItem
  <2>2. s \notin closed
    BY <2>1 DEF StreamInv, CloseInv
  <2>3. QED
    BY <2>1, <2>2, TakenInLine, Zenon
<1>7. ASSUME NEW s \in Streams, BadStreamItem(s) \/ UnknownStreamItem(s)
             \/ \E k \in {"ok", "error", "result"} : handleCompletionMessage(s, k)
      PROVE  ItemsInv'
  <2>1. UNCHANGED <<chan, got, senders, taken, timeouts, closed, reader>> /\ loop # "send"
    BY <1>7 DEF BadStreamItem, UnknownStreamItem, handleCompletionMessage
  <2>2. QED
    BY <2>1, LinesKept, NothingOnItsWay
<1>8. ASSUME NEW s \in Streams, NEW i \in senders[s], SendItemPanics(s, i) PROVE ItemsInv'
  <2>1. /\ senders' = [senders EXCEPT ![s] = senders[s] \ {i}] /\ s \in closed
        /\ UNCHANGED <<chan, got, taken, timeouts, closed, reader, loop, cur, ack>>
    BY <1>8 DEF SendItemPanics
  <2>2. s \in timeouts
    BY <2>1 DEF StreamInv, LoopTypes, CloseInv, ItemsInv, InLine
  <2>3. \A t \in Streams \ timeouts : senders'[t] = senders[t]
    BY <2>1, <2>2 DEF StreamInv, ItemTypes
  <2>4. QED
    BY <2>1, <2>3, Zenon DEF ItemsInv, InLine, Line
<1>9. \A u \in Uploads : u \in Streams
  BY DEF Streams
<1>10. QED
  BY <1>1, <1>2, <1>3, <1>4, <1>5, <1>6, <1>7, <1>8, <1>9, SentInLine, ReadInLine, EndInLine, ZenonT(30)
     DEF Next, ReaderStep

\* Without a timeout the reader gets every item in order, none lost and none
\* twice, and at the end it has had them all (streamclient.go:68-154), for
\* every number of streams and items and every capacity.
THEOREM ItemsArriveInOrder == Spec => []ItemsInOrder
<1>1. Init => ItemsInv
  <2> SUFFICES ASSUME Init, NEW s \in Streams PROVE InLine(s) /\ reader[s] = "none"
    BY DEF ItemsInv
  <2>1. <<>> \o <<>> = <<>>
    BY Lines, ItemSeqs
  <2>2. FirstItems(0) = <<>>
    BY DEF FirstItems
  <2>3. QED
    BY <2>1, <2>2 DEF Init, InLine, Line
<1>2. StreamInv /\ ItemsInv /\ [Next]_vars => ItemsInv'
  <2>1. ASSUME ItemsInv, UNCHANGED vars PROVE ItemsInv'
    BY <2>1, Zenon DEF ItemsInv, InLine, Line, vars, loopVars, chanVars, readVars
  <2>2. QED
    BY <2>1, ItemsStep
<1>3. StreamInv /\ ItemsInv => ItemsInOrder
  <2> SUFFICES ASSUME StreamInv, ItemsInv, NEW s \in Streams \ timeouts
               PROVE  /\ Line(s) = [i \in 1 .. Len(Line(s)) |-> i]
                      /\ taken[s] - Len(Line(s)) = Cardinality(senders[s])
                      /\ senders[s] # {} => loop = "send" /\ cur = s
                      /\ reader[s] = "ended" => Len(got[s]) = taken[s]
    BY Zenon DEF ItemsInOrder, Line
  <2>1. taken[s] \in Nat
    BY DEF StreamInv, ItemTypes
  <2>2. CASE senders[s] = {} /\ Line(s) = FirstItems(taken[s])
    <3>1. Len(Line(s)) = taken[s] /\ Cardinality({}) = 0
      BY <2>1, <2>2, NextItem, FS_EmptySet, Zenon
    <3>2. QED
      BY <2>1, <2>2, <3>1 DEF FirstItems, ItemsInv
  <2>3. CASE /\ senders[s] = {taken[s]} /\ loop = "send" /\ cur = s
             /\ taken[s] > 0 /\ Line(s) = FirstItems(taken[s] - 1)
    <3>1. Len(Line(s)) = taken[s] - 1 /\ Cardinality({taken[s]}) = 1
      <4>1. taken[s] - 1 \in Nat
        BY <2>1, <2>3
      <4>2. QED
        BY <2>3, <4>1, NextItem, FS_Singleton, Zenon
    <3>2. QED
      BY <2>1, <2>3, <3>1 DEF FirstItems, ItemsInv
  <2>4. QED
    BY <2>2, <2>3 DEF ItemsInv, InLine
<1>4. QED
  BY <1>1, <1>2, <1>3, StreamInvariant, PTL DEF Spec
=============================================================================
