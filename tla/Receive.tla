------------------------------- MODULE Receive --------------------------------
(***************************************************************************)
(* How bytes of a connection become messages of the loop: the goroutines   *)
(* of defaultHubConnection.Receive (one reads the connection, one parses,  *)
(* one closes the pipe between them), the JSON framing, the goroutine of   *)
(* loop.Run that forwards results, and the select of loop.Run.             *)
(*                                                                         *)
(* The peer sends the messages 1 .. Len(Sizes).  Message k is Sizes[k]     *)
(* bytes k and the record separator, written 0.  What a message does in    *)
(* its handler is not told apart, only whether the loop goes on after it.  *)
(***************************************************************************)
EXTENDS Naturals, Sequences, FiniteSets, SequencesExt

CONSTANTS Sizes,     \* the payload sizes of the messages the peer sends
          MaxSize,   \* maximumReceiveMessageSize
          ReadSize,  \* the buffer of readJSONFrames (32768 in the code)
          RecvCap    \* capacity of recvChan (20 in the code)

ASSUME SizesAssumption == Sizes \in Seq(Nat \ {0})
ASSUME LimitsAssumption == {MaxSize, ReadSize, RecvCap} \subseteq Nat \ {0}

VARIABLES
  bad,      \* messages that cannot be unmarshalled
  pos,      \* number of bytes read from the connection
  reader,   \* control state of the goroutine that reads the connection
  chunk,    \* the bytes it has read and not yet handed to the pipe
  pipe,     \* bytes of the Write under way that are not taken yet
  shut,     \* both ends of the pipe are closed
  parser,   \* control state of the parsing goroutine
  buf,      \* the bytes of an incomplete frame: remainBuf between two calls
  out,      \* results the parser has still to send
  recvChan, \* results on their way to the forwarding goroutine
  forwarder,\* control state of the forwarding goroutine of loop.Run
  held,     \* the result it holds, if any
  ch,       \* results on their way to the loop
  loop,     \* "run", "ending" or "ended"
  handled,  \* messages the loop has handled
  ctxDone   \* hubConn.ctx is done

vars == <<bad, pos, reader, chunk, pipe, shut, parser, buf, out, recvChan, forwarder,
          held, ch, loop, handled, ctxDone>>
readerVars == <<pos, reader, chunk>>
parserVars == <<parser, buf, out>>
forwardVars == <<forwarder, held>>
loopVars == <<ch, loop, handled>>

Messages == 1 .. Len(Sizes)
Payload(k) == [i \in 1 .. Sizes[k] |-> k]
Sep == 0

\* The bytes of the connection.
Bytes == FlattenSeq([k \in Messages |-> Append(Payload(k), Sep)])

\* A result is the number of a message, or Err.
Err == 0
Results == Messages \cup {Err}

Init ==
  /\ bad \in SUBSET Messages
  /\ pos = 0 /\ reader = "check" /\ chunk = <<>>
  /\ pipe = <<>> /\ shut = FALSE
  /\ parser = "check" /\ buf = <<>> /\ out = <<>>
  /\ recvChan = <<>> /\ forwarder = "recv" /\ held = <<>> /\ ch = <<>>
  /\ loop = "run" /\ handled = <<>>
  /\ ctxDone = FALSE

-----------------------------------------------------------------------------
(* The goroutine that reads the connection *)

\* The first select of its loop.
CheckReader ==
  /\ reader = "check"
  /\ reader' = IF ctxDone THEN "done" ELSE "read"
  /\ UNCHANGED <<bad, pos, chunk, pipe, shut, parserVars, recvChan, forwardVars, loopVars, ctxDone>>

\* connection.Read returns n bytes, an error, or both.
Read(n, fails) ==
  /\ reader = "read"
  /\ n <= MaxSize /\ pos + n <= Len(Bytes)
  /\ pos' = pos + n
  /\ chunk' = SubSeq(Bytes, pos + 1, pos + n)
  /\ reader' = IF fails THEN "error" ELSE IF n > 0 THEN "write" ELSE "check"
  /\ UNCHANGED <<bad, pipe, shut, parserVars, recvChan, forwardVars, loopVars, ctxDone>>

\* The error is sent; the bytes that came with it are handed on after it.
SendReadError ==
  /\ reader = "error"
  /\ Len(recvChan) < RecvCap
  /\ recvChan' = Append(recvChan, Err)
  /\ reader' = IF chunk # <<>> THEN "write" ELSE "check"
  /\ UNCHANGED <<bad, pos, chunk, pipe, shut, parserVars, forwardVars, loopVars, ctxDone>>

\* writer.Write offers the bytes, unless the pipe is closed.
Write ==
  /\ reader = "write"
  /\ chunk' = <<>>
  /\ IF shut THEN reader' = "error" /\ UNCHANGED pipe
             ELSE reader' = "writing" /\ pipe' = chunk
  /\ UNCHANGED <<bad, pos, shut, parserVars, recvChan, forwardVars, loopVars, ctxDone>>

\* It returns when the parser has taken all of them ...
WriteDone ==
  /\ reader = "writing" /\ pipe = <<>>
  /\ reader' = "check"
  /\ UNCHANGED <<bad, pos, chunk, pipe, shut, parserVars, recvChan, forwardVars, loopVars, ctxDone>>

\* ... or with an error when the pipe is closed.
WriteFails ==
  /\ reader = "writing" /\ pipe # <<>> /\ shut
  /\ pipe' = <<>>
  /\ reader' = "error"
  /\ UNCHANGED <<bad, pos, chunk, shut, parserVars, recvChan, forwardVars, loopVars, ctxDone>>

\* An error need not be sent when the context is done.
ReaderCanceled ==
  /\ reader = "error" /\ ctxDone
  /\ reader' = "done" /\ chunk' = <<>>
  /\ UNCHANGED <<bad, pos, pipe, shut, parserVars, recvChan, forwardVars, loopVars, ctxDone>>

-----------------------------------------------------------------------------
(* The goroutine that closes the pipe *)

\* Mutation: the pipe stays open.
ClosePipe_Forgets ==
  FALSE /\ UNCHANGED vars

ClosePipe ==
  /\ ctxDone /\ ~shut
  /\ shut' = TRUE
  /\ UNCHANGED <<bad, readerVars, pipe, parserVars, recvChan, forwardVars, loopVars, ctxDone>>

-----------------------------------------------------------------------------
(* The parsing goroutine *)

\* Where the separators are in b, in their order.
Separators(b) == SetToSortSeq({i \in 1 .. Len(b) : b[i] = Sep}, <)

\* The complete frames in b.
parseJSONFrames(b) ==
  LET cuts == Separators(b) IN
    [j \in DOMAIN cuts |-> SubSeq(b, (IF j = 1 THEN 0 ELSE cuts[j - 1]) + 1, cuts[j] - 1)]

\* Mutation: what follows the last complete frame is dropped.
Remaining_None(b) ==
  IF parseJSONFrames(b) = <<>> THEN b ELSE <<>>

\* What readJSONFrames leaves in the buffer: all bytes but those of the frames.
Remaining(b) ==
  LET n == FoldLeft(LAMBDA sum, frame : sum + Len(frame) + 1, 0, parseJSONFrames(b)) IN
    SubSeq(b, n + 1, Len(b))

\* json.Unmarshal and parseMessage: only the payload of a message is one.
Parse(frame) ==
  IF \E k \in Messages \ bad : frame = Payload(k)
  THEN CHOOSE k \in Messages \ bad : frame = Payload(k)
  ELSE Err

\* The results of ParseMessages: the messages of all frames, or one error.
ParseMessages(frames) ==
  LET results == [j \in DOMAIN frames |-> Parse(frames[j])] IN
    IF \E j \in DOMAIN results : results[j] = Err THEN <<Err>> ELSE results

CheckParser ==
  /\ parser = "check"
  /\ parser' = IF ctxDone \/ reader = "done" THEN "done" ELSE "read"
  /\ UNCHANGED <<bad, readerVars, pipe, shut, buf, out, recvChan, forwardVars, loopVars, ctxDone>>

\* Mutation: the buffer is filled before it is looked at.
readJSONFrames_Full ==
  /\ parser = "read" /\ Len(pipe) >= ReadSize /\ ~shut
  /\ LET b == buf \o SubSeq(pipe, 1, ReadSize) IN
         /\ pipe' = SubSeq(pipe, ReadSize + 1, Len(pipe))
         /\ IF Len(b) > MaxSize
            THEN buf' = <<>> /\ out' = <<Err>>
            ELSE buf' = Remaining(b) /\ out' = ParseMessages(parseJSONFrames(b))
         /\ parser' = IF out' = <<>> THEN "read" ELSE "send"
  /\ UNCHANGED <<bad, readerVars, shut, recvChan, forwardVars, loopVars, ctxDone>>

\* reader.Read returns bytes of the pipe.  readJSONFrames reads on until there
\* is a frame; the limit is applied to all bytes in its buffer.
readJSONFrames ==
  /\ parser = "read" /\ pipe # <<>> /\ ~shut
  /\ LET n == IF Len(pipe) < ReadSize THEN Len(pipe) ELSE ReadSize
         b == buf \o SubSeq(pipe, 1, n)
     IN  /\ pipe' = SubSeq(pipe, n + 1, Len(pipe))
         /\ IF Len(b) > MaxSize
            THEN buf' = <<>> /\ out' = <<Err>>
            ELSE buf' = Remaining(b) /\ out' = ParseMessages(parseJSONFrames(b))
         /\ parser' = IF out' = <<>> THEN "read" ELSE "send"
  /\ UNCHANGED <<bad, readerVars, shut, recvChan, forwardVars, loopVars, ctxDone>>

\* It returns the error the pipe was closed with; the bytes of an incomplete
\* frame are lost.
ReadShut ==
  /\ parser = "read" /\ shut
  /\ buf' = <<>> /\ out' = <<Err>>
  /\ parser' = "send"
  /\ UNCHANGED <<bad, readerVars, pipe, shut, recvChan, forwardVars, loopVars, ctxDone>>

\* A result is sent, and after the last one the parser starts over.
SendResult ==
  /\ parser = "send"
  /\ Len(recvChan) < RecvCap
  /\ recvChan' = Append(recvChan, Head(out))
  /\ out' = Tail(out)
  /\ parser' = IF out' = <<>> THEN "check" ELSE "send"
  /\ UNCHANGED <<bad, readerVars, pipe, shut, buf, forwardVars, loopVars, ctxDone>>

ParserCanceled ==
  /\ parser = "send" /\ (ctxDone \/ reader = "done")
  /\ parser' = "done" /\ out' = <<>>
  /\ UNCHANGED <<bad, readerVars, pipe, shut, buf, recvChan, forwardVars, loopVars, ctxDone>>

-----------------------------------------------------------------------------
(* The forwarding goroutine of loop.Run *)

Forward ==
  /\ forwarder = "recv" /\ recvChan # <<>>
  /\ forwarder' = "send"
  /\ held' = <<Head(recvChan)>>
  /\ recvChan' = Tail(recvChan)
  /\ UNCHANGED <<bad, readerVars, pipe, shut, parserVars, loopVars, ctxDone>>

\* ch has room for one result.
Deliver ==
  /\ forwarder = "send" /\ ch = <<>>
  /\ ch' = held
  /\ forwarder' = "recv" /\ held' = <<>>
  /\ UNCHANGED <<bad, readerVars, pipe, shut, parserVars, recvChan, loop, handled, ctxDone>>

ForwardCanceled ==
  /\ forwarder # "done" /\ ctxDone
  /\ forwarder' = "done" /\ held' = <<>>
  /\ UNCHANGED <<bad, readerVars, pipe, shut, parserVars, recvChan, loopVars, ctxDone>>

-----------------------------------------------------------------------------
(* The loop *)

\* An error ends the loop.
ReceiveError ==
  /\ loop = "run" /\ ch = <<Err>>
  /\ ch' = <<>>
  /\ loop' = "ending"
  /\ UNCHANGED <<bad, readerVars, pipe, shut, parserVars, recvChan, forwardVars, handled, ctxDone>>

\* So does a close message, or a message whose handler returns an error.
HandleMessage(goesOn) ==
  /\ loop = "run" /\ ch # <<>> /\ ch # <<Err>>
  /\ handled' = handled \o ch
  /\ ch' = <<>>
  /\ loop' = IF goesOn THEN "run" ELSE "ending"
  /\ UNCHANGED <<bad, readerVars, pipe, shut, parserVars, recvChan, forwardVars, ctxDone>>

\* The other cases of the select: the timeout, a canceled party or connection.
LoopBreaks ==
  /\ loop = "run"
  /\ loop' = "ending"
  /\ UNCHANGED <<bad, readerVars, pipe, shut, parserVars, recvChan, forwardVars, ch, handled, ctxDone>>

\* onDisconnected, the close message and cancelAllInvokes; then Abort.
Abort ==
  /\ loop = "ending"
  /\ loop' = "ended"
  /\ ctxDone' = TRUE
  /\ UNCHANGED <<bad, readerVars, pipe, shut, parserVars, recvChan, forwardVars, ch, handled>>

\* The connection's context ends, or a write of a ping or by another goroutine
\* fails and aborts.
ConnectionCanceled ==
  /\ ~ctxDone
  /\ ctxDone' = TRUE
  /\ UNCHANGED <<bad, readerVars, pipe, shut, parserVars, recvChan, forwardVars, loopVars>>

-----------------------------------------------------------------------------

ReaderStep ==
  \/ CheckReader
  \/ SendReadError
  \/ Write
  \/ WriteDone
  \/ WriteFails
  \/ ReaderCanceled

ParserStep ==
  \/ CheckParser
  \/ readJSONFrames
  \/ ReadShut
  \/ SendResult
  \/ ParserCanceled

ForwardStep == Forward \/ Deliver \/ ForwardCanceled

LoopStep == ReceiveError \/ Abort \/ \E goesOn \in BOOLEAN : HandleMessage(goesOn)

Next ==
  \/ ReaderStep
  \/ \E n \in 0 .. MaxSize, fails \in BOOLEAN : Read(n, fails)
  \/ ClosePipe
  \/ ParserStep
  \/ ForwardStep
  \/ LoopStep
  \/ LoopBreaks
  \/ ConnectionCanceled

Spec == Init /\ [][Next]_vars

\* The goroutines and the loop go on when they can.  connection.Read need not
\* return.
FairSpec ==
  /\ Spec
  /\ WF_vars(ReaderStep)
  /\ WF_vars(ClosePipe)
  /\ WF_vars(ParserStep)
  /\ WF_vars(ForwardStep)
  /\ WF_vars(LoopStep)

-----------------------------------------------------------------------------
(* Properties *)

\* Every variable has its type; channels hold no more than their capacity, and
\* the bytes kept for the next call of ParseMessages hold no complete frame and
\* never exceed the limit.
TypeOK ==
  /\ bad \subseteq Messages
  /\ pos \in 0 .. Len(Bytes)
  /\ reader \in {"check", "read", "error", "write", "writing", "done"}
  /\ parser \in {"check", "read", "send", "done"}
  /\ forwarder \in {"recv", "send", "done"}
  /\ loop \in {"run", "ending", "ended"}
  /\ chunk \in Seq(Messages \cup {Sep}) /\ Len(chunk) <= MaxSize
  /\ pipe \in Seq(Messages \cup {Sep}) /\ Len(pipe) <= MaxSize
  /\ buf \in Seq(Messages) /\ Len(buf) <= MaxSize
  /\ out \in Seq(Results) /\ (out # <<>> <=> parser = "send")
  /\ recvChan \in Seq(Results) /\ Len(recvChan) <= RecvCap
  /\ held \in Seq(Results) /\ Len(held) = IF forwarder = "send" THEN 1 ELSE 0
  /\ ch \in Seq(Results) /\ Len(ch) <= 1
  /\ handled \in Seq(Messages)
  /\ shut \in BOOLEAN /\ ctxDone \in BOOLEAN

\* The results on their way to the loop.
InFlight == ch \o held \o recvChan \o out

\* The loop handles a beginning of what the peer has sent, whatever errors the
\* reading or the parsing goroutine meets.  And however the connection cuts the
\* stream of bytes, unless there was an error the messages handled and on their
\* way and the bytes behind them are exactly what was read: nothing is lost,
\* repeated or reordered (hubconnection.go:90-168, jsonhubprotocol.go:156-201,
\* loop.go:53-112).
HandledAsSent ==
  LET results == handled \o InFlight
      front == FlattenSeq([j \in DOMAIN results |-> Append(Payload(results[j]), Sep)])
  IN  /\ handled = [j \in 1 .. Len(handled) |-> j]
      /\ loop = "run" /\ ~ctxDone /\ reader # "error" /\ Err \notin Range(results)
           => front \o buf \o pipe \o chunk = SubSeq(Bytes, 1, pos)

\* A message that was read completely reaches the loop while the loop runs and
\* its connection lasts.
Delivered ==
  \A k \in Messages :
    pos >= Len(FlattenSeq([j \in 1 .. k |-> Append(Payload(j), Sep)]))
      ~> (k \in Range(handled) \/ loop # "run" \/ ctxDone)

\* When the loop has ended its goroutines end too, whatever they were waiting
\* for; only a call of connection.Read may outlast it (hubconnection.go:96-100,
\* loop.go:64-74).
GoroutinesEnd ==
  loop = "ended" ~>
    [](parser = "done" /\ forwarder = "done" /\ reader \in {"read", "done"})

\* jsonhubprotocol.go:157: "maxSize is the maximum number of bytes that may
\* accumulate before a delimiter".
LimitIsPerFrame ==
  (\A k \in Messages : Sizes[k] < MaxSize) /\ bad = {} /\ ~ctxDone /\ reader # "error"
    => out # <<Err>>
=============================================================================
