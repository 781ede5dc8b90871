---------------------------- MODULE InvokeClient ----------------------------
(***************************************************************************)
(* Invocations of one client over one connection: the callers of           *)
(* client.Invoke, PushStreams and Send (client.go), the registry of        *)
(* pending invocations (invokeclient.go), the goroutine that merges the    *)
(* result and error channels (Invokeresult.go), hubConnection.writeMessage *)
(* and the part of loop.Run that receives completions and ends the loop.   *)
(*                                                                         *)
(* Every goroutine is a process; a step is what runs between two points    *)
(* where another goroutine can interfere (a mutex section, a channel       *)
(* operation, an atomic operation).  A call makes its pair of channels     *)
(* once, so a call names its channels.                                     *)
(***************************************************************************)
EXTENDS Naturals, Sequences, FiniteSets

CONSTANTS Calls,          \* goroutines started by Invoke, PushStreams or Send
          Senders,        \* those started by Send: nobody reads their resultChan
          None,           \* no call
          MaxCompletions  \* bound on the completions the server sends

ASSUME CallsAssumption == Senders \subseteq Calls /\ None \notin Calls
ASSUME CompletionsAssumption == MaxCompletions \in Nat

VARIABLES
  lastID,       \* loop.lastID
  pc,           \* control state of each call
  id,           \* invocation id of each call, 0 before GetNewID returned
  resultChans,  \* invokeClient.resultChans: id |-> call owning the channels
  resultChan,   \* per call: the channel made by newInvocation, capacity 1
  errChan,      \* per call: the channel made by newInvocation, capacity 1
  merge,        \* per call: the goroutine of newInvokeResultChan
  irCh,         \* per call: the channel returned by newInvokeResultChan
  out,          \* per call: items put into the channel the user reads
  outClosed,    \* per call: that channel is closed
  writer,       \* per call: the goroutine started by writeMessage
  wire,         \* invocation messages that reached the server
  incoming,     \* completions on their way to the loop
  answers,      \* number of completions sent by the server
  ctxDone,      \* hubConn.ctx is canceled
  partyDone,    \* the client's context is canceled
  loop,         \* control state of loop.Run
  completion,   \* the completion being handled by the loop
  verdict,      \* where the loop goes after the deferred deleteInvocation
  sender,       \* goroutine of receiveCompletionItem: its sends still to do
  canceler,     \* per call: goroutine started by cancelAllInvokes
  panicked      \* reason of a panic that ended the process

callVars  == <<lastID, pc, id>>
chanVars  == <<resultChans, resultChan, errChan>>
outVars   == <<merge, irCh, out, outClosed>>
connVars  == <<writer, wire, incoming, answers, ctxDone, partyDone>>
loopVars  == <<loop, completion, verdict, sender, canceler>>
vars == <<callVars, chanVars, outVars, connVars, loopVars, panicked>>

Kinds   == {"error", "value", "bad", "void"}
Origins == Calls \cup {None}
Items   == [kind : {"value", "nil", "error", "ended", "client"}, origin : Origins]
Chan    == [buf : Seq(Items), closed : BOOLEAN]
NewChan == [buf |-> <<>>, closed |-> FALSE]
Item(k, o) == [kind |-> k, origin |-> o]
NoItem  == Item("client", None)
Idle    == [at |-> "off", item |-> NoItem, res |-> FALSE, err |-> FALSE]

\* A buffered channel of capacity 1 accepts an item when it is empty.
HasRoom(ch) == Len(ch.buf) < 1
Put(ch, x)  == [ch EXCEPT !.buf = Append(@, x)]
Get(ch)     == [ch EXCEPT !.buf = Tail(@)]
Close(ch)   == [ch EXCEPT !.closed = TRUE]

\* A panic in any goroutine ends the process.
Alive == panicked = "no"

-----------------------------------------------------------------------------
Init ==
  /\ lastID = 0
  /\ pc = [c \in Calls |-> "start"]
  /\ id = [c \in Calls |-> 0]
  /\ resultChans = [i \in {} |-> None]
  /\ resultChan = [c \in Calls |-> NewChan]
  /\ errChan = [c \in Calls |-> NewChan]
  /\ merge = [c \in Calls |-> Idle]
  /\ irCh = [c \in Calls |-> NewChan]
  /\ out = [c \in Calls |-> <<>>]
  /\ outClosed = [c \in Calls |-> FALSE]
  /\ writer = [c \in Calls |-> "none"]
  /\ wire = {}
  /\ incoming = <<>>
  /\ answers = 0
  /\ ctxDone = FALSE
  /\ partyDone = FALSE
  /\ loop = "receive"
  /\ completion = [id |-> 0, kind |-> "void", origin |-> None]
  /\ verdict = "receive"
  /\ sender = [call |-> None, todo |-> <<>>]
  /\ canceler = [c \in Calls |-> "none"]
  /\ panicked = "no"

-----------------------------------------------------------------------------
(* The registry.                                                           *)

\* Mutation: the map entry survives the close.
deleteInvocation_KeepsEntry(i) ==
  IF i \in DOMAIN resultChans
  THEN LET d == resultChans[i] IN
       /\ resultChans' = resultChans
       /\ resultChan' = [resultChan EXCEPT ![d] = Close(@)]
       /\ errChan' = [errChan EXCEPT ![d] = Close(@)]
       /\ panicked' = IF resultChan[d].closed \/ errChan[d].closed
                      THEN "close of closed channel" ELSE panicked
  ELSE UNCHANGED <<chanVars, panicked>>

\* Runs under invokeClient.mx.
deleteInvocation(i) ==
  IF i \in DOMAIN resultChans
  THEN LET d == resultChans[i] IN
       /\ resultChans' = [j \in DOMAIN resultChans \ {i} |-> resultChans[j]]
       /\ resultChan' = [resultChan EXCEPT ![d] = Close(@)]
       /\ errChan' = [errChan EXCEPT ![d] = Close(@)]
       /\ panicked' = IF resultChan[d].closed \/ errChan[d].closed
                      THEN "close of closed channel" ELSE panicked
  ELSE UNCHANGED <<chanVars, panicked>>

\* invokeClient.newInvocation and, except for Send, newInvokeResultChan.
newInvocation(c) ==
  /\ Alive /\ pc[c] = "register"
  /\ pc' = [pc EXCEPT ![c] = "check"]
  /\ resultChans' = [j \in DOMAIN resultChans \cup {id[c]} |->
                       IF j = id[c] THEN c ELSE resultChans[j]]
  /\ resultChan' = [resultChan EXCEPT ![c] = NewChan]
  /\ errChan' = [errChan EXCEPT ![c] = NewChan]
  /\ merge' = IF c \in Senders THEN merge
              ELSE [merge EXCEPT ![c] = [Idle EXCEPT !.at = "select"]]
  /\ UNCHANGED <<lastID, id, irCh, out, outClosed, connVars, loopVars, panicked>>

-----------------------------------------------------------------------------
(* The caller.                                                             *)

\* GetNewID is two atomic operations: the counter is advanced, then read.
AddUint64(c) ==
  /\ Alive /\ pc[c] = "start"
  /\ pc' = [pc EXCEPT ![c] = "load"]
  /\ lastID' = lastID + 1
  /\ UNCHANGED <<id, chanVars, outVars, connVars, loopVars, panicked>>

LoadUint64(c) ==
  /\ Alive /\ pc[c] = "load"
  /\ pc' = [pc EXCEPT ![c] = "register"]
  /\ id' = [id EXCEPT ![c] = lastID]
  /\ UNCHANGED <<lastID, chanVars, outVars, connVars, loopVars, panicked>>

\* writeMessage: the check of ctx.Err and the start of the writing goroutine.
writeMessage(c) ==
  /\ Alive /\ pc[c] = "check"
  /\ IF ctxDone
     THEN /\ pc' = [pc EXCEPT ![c] = "delete"]
          /\ UNCHANGED writer
     ELSE /\ pc' = [pc EXCEPT ![c] = "select"]
          /\ writer' = [writer EXCEPT ![c] = "running"]
  /\ UNCHANGED <<lastID, id, chanVars, outVars, wire, incoming, answers,
                 ctxDone, partyDone, loopVars, panicked>>

\* The writing goroutine; it goes on when its caller has given up.
WriteOk(c) ==
  /\ Alive /\ writer[c] = "running"
  /\ writer' = [writer EXCEPT ![c] = "ok"]
  /\ wire' = wire \cup {[id |-> id[c], call |-> c]}
  /\ UNCHANGED <<callVars, chanVars, outVars, incoming, answers, ctxDone,
                 partyDone, loopVars, panicked>>

WriteError(c) ==
  /\ Alive /\ writer[c] = "running"
  /\ writer' = [writer EXCEPT ![c] = "err"]
  /\ UNCHANGED <<callVars, chanVars, outVars, wire, incoming, answers, ctxDone,
                 partyDone, loopVars, panicked>>

\* writeMessage: the select between ctx.Done and the result of the write.
SelectCanceled(c) ==
  /\ Alive /\ pc[c] = "select" /\ ctxDone
  /\ pc' = [pc EXCEPT ![c] = "delete"]
  /\ UNCHANGED <<lastID, id, chanVars, outVars, connVars, loopVars, panicked>>

SelectWritten(c) ==
  /\ Alive /\ pc[c] = "select" /\ writer[c] \in {"ok", "err"}
  /\ pc' = [pc EXCEPT ![c] = IF writer[c] = "ok" THEN "sent" ELSE "delete"]
  /\ ctxDone' = (ctxDone \/ writer[c] = "err")
  /\ UNCHANGED <<lastID, id, chanVars, outVars, writer, wire, incoming, answers,
                 partyDone, loopVars, panicked>>

\* The error path of the caller: drop the invocation and report the error.
SendFailed(c) ==
  /\ Alive /\ pc[c] = "delete"
  /\ pc' = [pc EXCEPT ![c] = "failed"]
  /\ deleteInvocation(id[c])
  /\ out' = [out EXCEPT ![c] = Append(@, Item("client", None))]
  /\ outClosed' = [outClosed EXCEPT ![c] = TRUE]
  /\ UNCHANGED <<lastID, id, merge, irCh, connVars, loopVars>>

-----------------------------------------------------------------------------
(* newInvokeResultChan and the goroutine that forwards its items.          *)

SetMerge(c, at, x) == merge' = [merge EXCEPT ![c] = [@ EXCEPT !.at = at, !.item = x]]

MergeResult(c) ==
  /\ Alive /\ merge[c].at = "select" /\ resultChan[c].buf # <<>>
  /\ SetMerge(c, "push", Head(resultChan[c].buf))
  /\ resultChan' = [resultChan EXCEPT ![c] = Get(@)]
  /\ UNCHANGED <<callVars, resultChans, errChan, irCh, out, outClosed, connVars,
                 loopVars, panicked>>

MergeErr(c) ==
  /\ Alive /\ merge[c].at = "select" /\ errChan[c].buf # <<>>
  /\ SetMerge(c, "push", Head(errChan[c].buf))
  /\ errChan' = [errChan EXCEPT ![c] = Get(@)]
  /\ UNCHANGED <<callVars, resultChans, resultChan, irCh, out, outClosed,
                 connVars, loopVars, panicked>>

MergePush(c) ==
  /\ Alive /\ merge[c].at = "push" /\ HasRoom(irCh[c])
  /\ irCh' = [irCh EXCEPT ![c] = Put(@, merge[c].item)]
  /\ SetMerge(c, "select", NoItem)
  /\ UNCHANGED <<callVars, chanVars, out, outClosed, connVars, loopVars, panicked>>

\* A receive from a closed, empty channel; the loop ends when both are closed.
MergeClosed(c) ==
  /\ Alive /\ merge[c].at = "select"
  /\ \/ /\ resultChan[c].closed /\ resultChan[c].buf = <<>> /\ ~merge[c].res
        /\ merge' = [merge EXCEPT ![c] = [@ EXCEPT !.res = TRUE,
                                 !.at = IF merge[c].err THEN "off" ELSE "select"]]
     \/ /\ errChan[c].closed /\ errChan[c].buf = <<>> /\ ~merge[c].err
        /\ merge' = [merge EXCEPT ![c] = [@ EXCEPT !.err = TRUE,
                                 !.at = IF merge[c].res THEN "off" ELSE "select"]]
  /\ irCh' = IF merge'[c].at = "off" THEN [irCh EXCEPT ![c] = Close(@)] ELSE irCh
  /\ UNCHANGED <<callVars, chanVars, out, outClosed, connVars, loopVars, panicked>>

MergeCanceled(c) ==
  /\ Alive /\ merge[c].at = "select" /\ partyDone
  /\ SetMerge(c, "off", NoItem)
  /\ irCh' = [irCh EXCEPT ![c] = Close(@)]
  /\ UNCHANGED <<callVars, chanVars, out, outClosed, connVars, loopVars, panicked>>

\* The channel the forwarding goroutine of Invoke or Send ranges over.
Source(c) == IF c \in Senders THEN errChan[c] ELSE irCh[c]

Forward(c) ==
  /\ Alive /\ pc[c] = "sent" /\ Source(c).buf # <<>>
  /\ out' = [out EXCEPT ![c] = Append(@, Head(Source(c).buf))]
  /\ IF c \in Senders
     THEN errChan' = [errChan EXCEPT ![c] = Get(@)] /\ UNCHANGED irCh
     ELSE irCh' = [irCh EXCEPT ![c] = Get(@)] /\ UNCHANGED errChan
  /\ UNCHANGED <<callVars, resultChans, resultChan, merge, outClosed, connVars,
                 loopVars, panicked>>

ForwardEnd(c) ==
  /\ Alive /\ pc[c] = "sent" /\ Source(c).buf = <<>> /\ Source(c).closed /\ ~outClosed[c]
  /\ outClosed' = [outClosed EXCEPT ![c] = TRUE]
  /\ UNCHANGED <<callVars, chanVars, merge, irCh, out, connVars, loopVars, panicked>>

-----------------------------------------------------------------------------
(* loop.Run: completions.                                                  *)

\* handleCompletionMessage: the check with handlesInvocationID.
ReceiveCompletion ==
  /\ Alive /\ loop = "receive" /\ incoming # <<>>
  /\ incoming' = Tail(incoming)
  /\ completion' = Head(incoming)
  /\ loop' = IF Head(incoming).id \in DOMAIN resultChans THEN "lookup" ELSE "ending"
  /\ UNCHANGED <<callVars, chanVars, outVars, writer, wire, answers, ctxDone,
                 partyDone, verdict, sender, canceler, panicked>>

\* What the goroutine of receiveCompletionItem sends for completion m.
Sends(m) ==
  IF m.kind = "error" THEN <<Item("error", m.origin)>>
  ELSE IF m.kind = "value" THEN <<Item("value", m.origin), Item("nil", m.origin)>>
  ELSE <<>>

\* Mutation: the answer goes to some pending invocation, whatever its id.
LookupCompletion_AnyPending ==
  /\ Alive /\ loop = "lookup" /\ completion.kind \in {"error", "value"}
  /\ \E i \in DOMAIN resultChans :
       sender' = [call |-> resultChans[i], todo |-> Sends(completion)]
  /\ loop' = "await"
  /\ UNCHANGED <<callVars, chanVars, outVars, connVars, completion, verdict,
                 canceler, panicked>>

\* receiveCompletionItem up to the start of its goroutine.
LookupCompletion ==
  /\ Alive /\ loop = "lookup"
  /\ IF completion.id \in DOMAIN resultChans /\ completion.kind \in {"error", "value"}
     THEN /\ loop' = "await"
          /\ sender' = [call |-> resultChans[completion.id], todo |-> Sends(completion)]
          /\ UNCHANGED verdict
     ELSE /\ loop' = "delete"
          /\ verdict' = IF completion.id \in DOMAIN resultChans /\ completion.kind = "void"
                        THEN "receive" ELSE "ending"
          /\ UNCHANGED sender
  /\ UNCHANGED <<callVars, chanVars, outVars, connVars, completion, canceler, panicked>>

\* The goroutine of receiveCompletionItem: values go to resultChan.
SenderSend ==
  /\ Alive /\ sender.todo # <<>>
  /\ LET c == sender.call
         x == Head(sender.todo)
         toResult == x.kind = "value"
         ch == IF toResult THEN resultChan[c] ELSE errChan[c]
     IN /\ ch.closed \/ HasRoom(ch)
        /\ panicked' = IF ch.closed THEN "send on closed channel" ELSE panicked
        /\ resultChan' = IF toResult THEN [resultChan EXCEPT ![c] = Put(@, x)]
                         ELSE resultChan
        /\ errChan' = IF toResult THEN errChan
                      ELSE [errChan EXCEPT ![c] = Put(@, x)]
  /\ sender' = [sender EXCEPT !.todo = Tail(@)]
  /\ UNCHANGED <<callVars, resultChans, outVars, connVars, loop, completion,
                 verdict, canceler>>

CompletionSent ==
  /\ Alive /\ loop = "await" /\ sender.todo = <<>>
  /\ loop' = "delete" /\ verdict' = "receive"
  /\ UNCHANGED <<callVars, chanVars, outVars, connVars, completion, sender,
                 canceler, panicked>>

\* time.After(chanReceiveTimeout) fires first.
CompletionTimeout ==
  /\ Alive /\ loop = "await"
  /\ loop' = "delete" /\ verdict' = "ending"
  /\ UNCHANGED <<callVars, chanVars, outVars, connVars, completion, sender,
                 canceler, panicked>>

\* Mutation: the deferred deleteInvocation is missing.
CompletionDone_NoDelete ==
  /\ Alive /\ loop = "delete"
  /\ loop' = verdict
  /\ UNCHANGED <<callVars, chanVars, outVars, connVars, completion, verdict,
                 sender, canceler, panicked>>

\* The deferred deleteInvocation of receiveCompletionItem.
CompletionDone ==
  /\ Alive /\ loop = "delete"
  /\ loop' = verdict
  /\ deleteInvocation(completion.id)
  /\ UNCHANGED <<callVars, outVars, connVars, completion, verdict, sender, canceler>>

-----------------------------------------------------------------------------
(* loop.Run: the end of the loop.                                          *)

\* A receive error, a close message, an invalid message or a timeout.
LoopFails ==
  /\ Alive /\ loop = "receive"
  /\ loop' = "ending"
  /\ UNCHANGED <<callVars, chanVars, outVars, connVars, completion, verdict,
                 sender, canceler, panicked>>

LoopCanceled ==
  /\ Alive /\ loop = "receive" /\ (ctxDone \/ partyDone)
  /\ loop' = "ending"
  /\ UNCHANGED <<callVars, chanVars, outVars, connVars, completion, verdict,
                 sender, canceler, panicked>>

Registered == {resultChans[i] : i \in DOMAIN resultChans}

\* Mutation: the error channels are closed along with the result channels,
\* before the goroutines that report the error have run.
cancelAllInvokes_ClosesBoth ==
  /\ Alive /\ loop = "ending"
  /\ loop' = "canceled"
  /\ resultChans' = [i \in {} |-> None]
  /\ resultChan' = [c \in Calls |-> IF c \in Registered THEN Close(resultChan[c])
                                    ELSE resultChan[c]]
  /\ errChan' = [c \in Calls |-> IF c \in Registered THEN Close(errChan[c])
                                 ELSE errChan[c]]
  /\ canceler' = [c \in Calls |-> IF c \in Registered THEN "send" ELSE canceler[c]]
  /\ UNCHANGED <<callVars, outVars, connVars, completion, verdict, sender, panicked>>

\* Mutation: the result channels are not closed.
cancelAllInvokes_LeavesResultChan ==
  /\ Alive /\ loop = "ending"
  /\ loop' = "canceled"
  /\ resultChans' = [i \in {} |-> None]
  /\ canceler' = [c \in Calls |-> IF c \in Registered THEN "send" ELSE canceler[c]]
  /\ UNCHANGED <<callVars, resultChan, errChan, outVars, connVars, completion,
                 verdict, sender, panicked>>

cancelAllInvokes ==
  /\ Alive /\ loop = "ending"
  /\ loop' = "canceled"
  /\ resultChans' = [i \in {} |-> None]
  /\ resultChan' = [c \in Calls |-> IF c \in Registered THEN Close(resultChan[c])
                                    ELSE resultChan[c]]
  /\ canceler' = [c \in Calls |-> IF c \in Registered THEN "send" ELSE canceler[c]]
  /\ panicked' = IF \E c \in Registered : resultChan[c].closed
                 THEN "close of closed channel" ELSE panicked
  /\ UNCHANGED <<callVars, errChan, outVars, connVars, completion, verdict, sender>>

\* The goroutine of cancelAllInvokes.
CancelerSend(c) ==
  /\ Alive /\ canceler[c] = "send"
  /\ errChan[c].closed \/ HasRoom(errChan[c])
  /\ panicked' = IF errChan[c].closed THEN "send on closed channel" ELSE panicked
  /\ errChan' = [errChan EXCEPT ![c] = Put(@, Item("ended", None))]
  /\ canceler' = [canceler EXCEPT ![c] = "close"]
  /\ UNCHANGED <<callVars, resultChans, resultChan, outVars, connVars, loop,
                 completion, verdict, sender>>

CancelerClose(c) ==
  /\ Alive /\ canceler[c] = "close"
  /\ canceler' = [canceler EXCEPT ![c] = "done"]
  /\ errChan' = [errChan EXCEPT ![c] = Close(@)]
  /\ panicked' = IF errChan[c].closed THEN "close of closed channel" ELSE panicked
  /\ UNCHANGED <<callVars, resultChans, resultChan, outVars, connVars, loop,
                 completion, verdict, sender>>

Abort ==
  /\ Alive /\ loop = "canceled"
  /\ loop' = "ended"
  /\ ctxDone' = TRUE
  /\ UNCHANGED <<callVars, chanVars, outVars, writer, wire, incoming, answers,
                 partyDone, completion, verdict, sender, canceler, panicked>>

-----------------------------------------------------------------------------
(* The environment.                                                        *)

\* The server answers an invocation; a panicking hub method answers twice.
ServerAnswers ==
  /\ Alive /\ answers < MaxCompletions
  /\ \E m \in wire, k \in Kinds :
       incoming' = Append(incoming, [id |-> m.id, kind |-> k, origin |-> m.call])
  /\ answers' = answers + 1
  /\ UNCHANGED <<callVars, chanVars, outVars, writer, wire, ctxDone, partyDone,
                 loopVars, panicked>>

\* The context of the connection is canceled, or another write failed.
ConnectionCanceled ==
  /\ Alive /\ ~ctxDone
  /\ ctxDone' = TRUE
  /\ UNCHANGED <<callVars, chanVars, outVars, writer, wire, incoming, answers,
                 partyDone, loopVars, panicked>>

\* The context given to NewClient is canceled or Stop is called.
PartyCanceled ==
  /\ Alive /\ ~partyDone
  /\ partyDone' = TRUE
  /\ UNCHANGED <<callVars, chanVars, outVars, writer, wire, incoming, answers,
                 ctxDone, loopVars, panicked>>

-----------------------------------------------------------------------------
Call(c) == \/ AddUint64(c) \/ LoadUint64(c) \/ newInvocation(c) \/ writeMessage(c)
           \/ SelectCanceled(c) \/ SelectWritten(c) \/ SendFailed(c)
Write(c) == WriteOk(c) \/ WriteError(c)
Merge(c) == \/ MergeResult(c) \/ MergeErr(c) \/ MergePush(c) \/ MergeClosed(c)
            \/ MergeCanceled(c)
Forwarder(c) == Forward(c) \/ ForwardEnd(c)
Canceler(c) == CancelerSend(c) \/ CancelerClose(c)
LoopStep == \/ LookupCompletion \/ CompletionSent \/ CompletionDone \/ LoopCanceled
            \/ cancelAllInvokes \/ Abort
Environment == \/ LoopFails \/ CompletionTimeout \/ ServerAnswers
               \/ ConnectionCanceled \/ PartyCanceled

Next ==
  \/ \E c \in Calls : Call(c) \/ Write(c) \/ Merge(c) \/ Forwarder(c) \/ Canceler(c)
  \/ ReceiveCompletion \/ LoopStep \/ SenderSend \/ Environment

(***************************************************************************)
(* Every goroutine that can go on does so eventually: the Go scheduler     *)
(* runs each runnable goroutine.  Nothing is assumed of the network, of    *)
(* the server or of timers.                                                *)
(***************************************************************************)
Fairness ==
  /\ \A c \in Calls : /\ WF_vars(Call(c)) /\ WF_vars(Merge(c))
                      /\ WF_vars(Forwarder(c)) /\ WF_vars(Canceler(c))
  /\ WF_vars(LoopStep) /\ WF_vars(SenderSend)

Spec == Init /\ [][Next]_vars
FairSpec == Spec /\ Fairness

-----------------------------------------------------------------------------
(* Properties.                                                             *)

Message == [id : Nat, kind : Kinds, origin : Origins]
MergeState == [at : {"off", "select", "push"}, item : Items, res : BOOLEAN, err : BOOLEAN]

CallTypes ==
  /\ lastID \in Nat
  /\ pc \in [Calls -> {"start", "load", "register", "check", "select", "delete",
                       "sent", "failed"}]
  /\ id \in [Calls -> Nat]

ChanTypes ==
  /\ DOMAIN resultChans \subseteq Nat
  /\ resultChans \in [DOMAIN resultChans -> Calls]
  /\ resultChan \in [Calls -> Chan]
  /\ errChan \in [Calls -> Chan]

OutTypes ==
  /\ merge \in [Calls -> MergeState]
  /\ irCh \in [Calls -> Chan]
  /\ out \in [Calls -> Seq(Items)]
  /\ outClosed \in [Calls -> BOOLEAN]

ConnTypes ==
  /\ writer \in [Calls -> {"none", "running", "ok", "err"}]
  /\ wire \subseteq [id : Nat, call : Calls]
  /\ incoming \in Seq(Message)
  /\ answers \in Nat
  /\ ctxDone \in BOOLEAN /\ partyDone \in BOOLEAN

LoopTypes ==
  /\ loop \in {"receive", "lookup", "await", "delete", "ending", "canceled", "ended"}
  /\ completion \in Message
  /\ verdict \in {"receive", "ending"}
  /\ sender \in [call : Origins, todo : Seq(Items)]
  /\ sender.todo # <<>> => sender.call \in Calls
  /\ canceler \in [Calls -> {"none", "send", "close", "done"}]

\* Each variable has its type.
TypeOK ==
  /\ CallTypes /\ ChanTypes /\ OutTypes /\ ConnTypes /\ LoopTypes
  /\ panicked \in {"no", "send on closed channel", "close of closed channel"}

\* The channels of an invocation found in resultChans are open: whoever takes
\* an invocation out of the map (deleteInvocation, cancelAllInvokes) is the
\* only one who closes its channels, so nothing is closed twice however the
\* callers' error paths, the deferred delete of receiveCompletionItem and the
\* end of the loop interleave.
RegisteredOpen ==
  \A i \in DOMAIN resultChans :
    LET c == resultChans[i] IN ~resultChan[c].closed /\ ~errChan[c].closed

\* No goroutine closes a closed channel.
NoDoubleClose == panicked # "close of closed channel"

\* Who may close the channels of call c: while c is in resultChans only the one
\* who takes it out, afterwards only the goroutine of cancelAllInvokes, if there
\* is one.  Inductive together with TypeOK, RegisteredOpen and NoDoubleClose.
Unregistered == {"start", "load", "register"}
CloseOwnership ==
  /\ \A i \in DOMAIN resultChans :
       LET c == resultChans[i] IN
       id[c] = i /\ pc[c] \notin Unregistered /\ canceler[c] = "none"
  /\ \A c \in Calls : canceler[c] # "none" => pc[c] \notin Unregistered
  /\ \A c \in Calls : canceler[c] \in {"send", "close"} => ~errChan[c].closed

\* A send on a closed channel, which ends the process, needs the race of a
\* completion with the error path of the very call it answers (writeMessage
\* gave up although the message had been written), or a completion that was
\* not taken within chanReceiveTimeout (the only way to the verdict "ending"
\* with a goroutine still sending).  In particular the goroutines of
\* cancelAllInvokes never meet a closed channel.
PanicNeedsRace ==
  panicked = "send on closed channel" =>
    verdict = "ending" \/ \E c \in Calls : pc[c] = "failed" /\ id[c] = completion.id

\* A call is answered once: the user reads a value and the nil that follows
\* it in some order, or one error, and never a second answer.
AnsweredOnce ==
  \A c \in Calls :
    LET kinds == [n \in DOMAIN out[c] |-> out[c][n].kind]
    IN \/ Len(kinds) <= 1
       \/ kinds \in {<<"value", "nil">>, <<"nil", "value">>}

\* A call gets the answer to its own invocation message, except when GetNewID
\* gave another call the same id.
OwnAnswer ==
  \A c \in Calls : \A n \in DOMAIN out[c] :
    out[c][n].origin \in {c, None} \/ \E d \in Calls \ {c} : id[d] = id[c]

\* An invocation that is registered when the loop starts to end is told so:
\* its user's channel is closed eventually, whatever the server does.
EndedLoopReleases ==
  \A c \in Calls :
    (loop = "ending" /\ c \in Registered) ~> (outClosed[c] \/ panicked # "no")

\* loop.go:191: "GetNewID returns a new, connection-unique id for invocations
\* and streams".
UniqueIDs ==
  \A c, d \in Calls : c # d /\ id[c] # 0 => id[c] # id[d]

\* README.md: ch := <-c.Invoke("update", data) "ch gets the result of the
\* update operation": the first item of a call that got a value is the value.
FirstItemIsResult ==
  \A c \in Calls \ Senders : out[c] # <<>> => Head(out[c]).kind # "nil"

\* client.go:84: "Invoke ... returns a channel which will return the
\* InvokeResult. When failing, InvokeResult.Error contains the client side
\* error.": when the connection is gone no call waits forever.
SentCallsEnd ==
  \A c \in Calls :
    (pc[c] = "sent" /\ loop = "ended") ~> (outClosed[c] \/ panicked # "no")
=============================================================================
