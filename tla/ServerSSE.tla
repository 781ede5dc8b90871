------------------------------ MODULE ServerSSE ------------------------------
(***************************************************************************)
(* One Server-Sent-Events connection on the server                         *)
(* (serversseconnection.go).  Writes of the hub connection become jobs for *)
(* the HTTP handler of the GET request (handleServerSentEvent), which      *)
(* answers each with a result; POST requests feed a pipe the hub           *)
(* connection reads from; a goroutine closes the job channel when the      *)
(* context of the connection is done.                                      *)
(*                                                                         *)
(* writeMessage does not serialise the writers, so several Writes may run  *)
(* at the same time.  Read is called by one goroutine (Receive).           *)
(***************************************************************************)
EXTENDS Naturals, Sequences, FiniteSets

CONSTANTS Writes,     \* calls of Write
          Posts,      \* POST requests, calls of consumeRequest
          MaxChunks   \* bound on the reads it takes to read one body

\* What the constants are: a Write is not one of the names that mx and handler
\* have when they have no Write.
Bounds ==
  /\ Writes \cap {"free", "closer", "range", "ended"} = {}
  /\ MaxChunks \in Nat \ {0}

VARIABLES
  ctxDone,     \* the connection's context is done
  mx,          \* serverSSEConnection.mx: "free" or who holds it
  write,       \* per Write: its control state or outcome
  jobs,        \* jobChan, a buffer of one
  jobsClosed,  \* jobChan is closed
  results,     \* jobResultChan, a buffer of one: the jobs whose results are in it
  closer,      \* the goroutine that closes jobChan
  handler,     \* the HTTP handler: "range", the job it writes, or "ended"
  answer,      \* the handler has written its job and has to answer
  post,        \* per POST: its control state or status
  chunks,      \* per POST: what is left of its body in the pipe
  postWriting, \* serverSSEConnection.postWriting
  reader,      \* the goroutine that calls Read
  rw,          \* the goroutine ReadWriteWithContext started
  panicked     \* a closed channel was sent to

writeVars == <<write, jobs, results>>
handlerVars == <<jobsClosed, closer, handler, answer>>
postVars == <<post, chunks, postWriting>>
readVars == <<reader, rw>>
vars == <<ctxDone, mx, writeVars, handlerVars, postVars, readVars, panicked>>

Init ==
  /\ ctxDone = FALSE
  /\ mx = "free"
  /\ write = [w \in Writes |-> "new"]
  /\ jobs = <<>> /\ jobsClosed = FALSE /\ results = <<>>
  /\ closer = "waiting"
  /\ handler = "range" /\ answer = FALSE
  /\ post = [p \in Posts |-> "new"]
  /\ chunks = [p \in Posts |-> 0]
  /\ postWriting = FALSE
  /\ reader = "idle" /\ rw = "off"
  /\ panicked = FALSE

ContextDone ==
  /\ ~ctxDone
  /\ ctxDone' = TRUE
  /\ UNCHANGED <<mx, writeVars, handlerVars, postVars, readVars, panicked>>

-----------------------------------------------------------------------------
(* Write *)

Write(w) ==
  /\ write[w] = "new"
  /\ write' = [write EXCEPT ![w] = IF ctxDone THEN "error" ELSE "lock"]
  /\ UNCHANGED <<ctxDone, mx, jobs, results, handlerVars, postVars, readVars, panicked>>

\* Mutation: the context is not looked at again with the lock held.
WriteLocks_NoCheck(w) ==
  /\ write[w] = "lock"
  /\ mx = "free"
  /\ mx' = w
  /\ write' = [write EXCEPT ![w] = "send"]
  /\ UNCHANGED <<ctxDone, jobs, results, handlerVars, postVars, readVars, panicked>>

\* With the lock the context is looked at again; when it is done Write returns
\* and the lock stays locked.
WriteLocks(w) ==
  /\ write[w] = "lock"
  /\ mx = "free"
  /\ mx' = w
  /\ write' = [write EXCEPT ![w] = IF ctxDone THEN "error" ELSE "send"]
  /\ UNCHANGED <<ctxDone, jobs, results, handlerVars, postVars, readVars, panicked>>

\* The send to jobChan blocks with the lock held while the buffer is full.
SendJob(w) ==
  /\ write[w] = "send"
  /\ jobs = <<>> \/ jobsClosed
  /\ panicked' = jobsClosed
  /\ jobs' = IF jobsClosed THEN jobs ELSE <<w>>
  /\ mx' = "free"
  /\ write' = [write EXCEPT ![w] = "wait"]
  /\ UNCHANGED <<ctxDone, results, handlerVars, postVars, readVars>>

\* The first result in the channel is taken, or the context ends the wait.  The
\* handler closes the channel when it has answered every job, so no Write that
\* still waits finds it closed and empty.
WriteResult(w) ==
  /\ write[w] = "wait"
  /\ results # <<>>
  /\ results' = Tail(results)
  /\ write' = [write EXCEPT ![w] = "done"]
  /\ UNCHANGED <<ctxDone, mx, jobs, handlerVars, postVars, readVars, panicked>>

WriteCanceled(w) ==
  /\ write[w] = "wait"
  /\ ctxDone
  /\ write' = [write EXCEPT ![w] = "error"]
  /\ UNCHANGED <<ctxDone, mx, jobs, results, handlerVars, postVars, readVars, panicked>>

-----------------------------------------------------------------------------
(* The goroutine that closes jobChan, and the HTTP handler *)

CloserLocks ==
  /\ closer = "waiting"
  /\ ctxDone
  /\ mx = "free"
  /\ mx' = "closer"
  /\ closer' = "close"
  /\ UNCHANGED <<ctxDone, writeVars, jobsClosed, handler, answer, postVars, readVars, panicked>>

CloseJobs ==
  /\ closer = "close"
  /\ jobsClosed' = TRUE
  /\ mx' = "free"
  /\ closer' = "ended"
  /\ UNCHANGED <<ctxDone, writeVars, handler, answer, postVars, readVars, panicked>>

TakeJob ==
  /\ handler = "range"
  /\ jobs # <<>>
  /\ handler' = Head(jobs)
  /\ jobs' = <<>>
  /\ UNCHANGED <<ctxDone, mx, write, results, jobsClosed, closer, answer, postVars,
                 readVars, panicked>>

\* writer.Write, with or without an error.
WriteResponse ==
  /\ handler \in Writes /\ ~answer
  /\ answer' = TRUE
  /\ UNCHANGED <<ctxDone, mx, writeVars, jobsClosed, closer, handler, postVars, readVars, panicked>>

SendResult ==
  /\ answer
  /\ results = <<>>
  /\ results' = <<handler>>
  /\ answer' = FALSE /\ handler' = "range"
  /\ UNCHANGED <<ctxDone, mx, write, jobs, jobsClosed, closer, postVars, readVars, panicked>>

HandlerEnds ==
  /\ handler = "range"
  /\ jobs = <<>> /\ jobsClosed
  /\ handler' = "ended"
  /\ UNCHANGED <<ctxDone, mx, writeVars, jobsClosed, closer, answer, postVars, readVars, panicked>>

-----------------------------------------------------------------------------
(* consumeRequest *)

consumeRequest(p) ==
  /\ post[p] = "new"
  /\ post' = [post EXCEPT ![p] = IF ctxDone THEN "410" ELSE "lock"]
  /\ UNCHANGED <<ctxDone, mx, writeVars, handlerVars, chunks, postWriting, readVars, panicked>>

PostLocks(p) ==
  /\ post[p] = "lock"
  /\ mx = "free"
  /\ post' = [post EXCEPT ![p] = IF postWriting THEN "409" ELSE "body"]
  /\ postWriting' = TRUE
  /\ UNCHANGED <<ctxDone, mx, writeVars, handlerVars, chunks, readVars, panicked>>

\* The body is read; it takes c reads from the pipe to hand it over.
ReadBody(p, c) ==
  /\ post[p] = "body"
  /\ post' = [post EXCEPT ![p] = "pipe"]
  /\ chunks' = [chunks EXCEPT ![p] = c]
  /\ UNCHANGED <<ctxDone, mx, writeVars, handlerVars, postWriting, readVars, panicked>>

\* The body cannot be read, it is too long for example.
ReadBodyFails(p) ==
  /\ post[p] = "body"
  /\ post' = [post EXCEPT ![p] = "400"]
  /\ UNCHANGED <<ctxDone, mx, writeVars, handlerVars, chunks, postWriting, readVars, panicked>>

\* A read from the pipe takes one chunk of the body.
PipeChunk(p) ==
  /\ post[p] = "pipe"
  /\ chunks[p] > 0
  /\ rw = "reading"
  /\ rw' = "result"
  /\ chunks' = [chunks EXCEPT ![p] = @ - 1]
  /\ UNCHANGED <<ctxDone, mx, writeVars, handlerVars, post, postWriting, reader, panicked>>

PostDone(p) ==
  /\ post[p] = "pipe"
  /\ chunks[p] = 0
  /\ mx = "free"
  /\ postWriting' = FALSE
  /\ post' = [post EXCEPT ![p] = "200"]
  /\ UNCHANGED <<ctxDone, mx, writeVars, handlerVars, chunks, readVars, panicked>>

-----------------------------------------------------------------------------
(* Read, through ReadWriteWithContext *)

Read ==
  /\ reader = "idle"
  /\ IF ctxDone THEN reader' = "ended" /\ UNCHANGED rw
     ELSE reader' = "select" /\ rw' = "reading"
  /\ UNCHANGED <<ctxDone, mx, writeVars, handlerVars, postVars, panicked>>

ReadResult ==
  /\ reader = "select"
  /\ rw = "result"
  /\ reader' = "idle" /\ rw' = "off"
  /\ UNCHANGED <<ctxDone, mx, writeVars, handlerVars, postVars, panicked>>

ReadCanceled ==
  /\ reader = "select"
  /\ ctxDone
  /\ reader' = "unblock"
  /\ UNCHANGED <<ctxDone, mx, writeVars, handlerVars, postVars, rw, panicked>>

\* unblockRW writes to the pipe: a pending read takes it.
UnblockRead ==
  /\ reader = "unblock"
  /\ rw = "reading"
  /\ rw' = "result"
  /\ reader' = "ended"
  /\ UNCHANGED <<ctxDone, mx, writeVars, handlerVars, postVars, panicked>>

-----------------------------------------------------------------------------

WriteStep(w) ==
  \/ Write(w)
  \/ WriteLocks(w)
  \/ SendJob(w)
  \/ WriteResult(w)
  \/ WriteCanceled(w)

HandlerStep ==
  \/ TakeJob
  \/ WriteResponse
  \/ SendResult
  \/ HandlerEnds

PostStep(p) ==
  \/ consumeRequest(p)
  \/ PostLocks(p)
  \/ \E c \in 1 .. MaxChunks : ReadBody(p, c)
  \/ ReadBodyFails(p)
  \/ PipeChunk(p)
  \/ PostDone(p)

ReadStep == Read \/ ReadResult \/ ReadCanceled \/ UnblockRead

Next ==
  \/ ContextDone
  \/ CloserLocks
  \/ CloseJobs
  \/ HandlerStep
  \/ ReadStep
  \/ \E w \in Writes : WriteStep(w)
  \/ \E p \in Posts : PostStep(p)

Spec == Init /\ [][Next]_vars

\* All goroutines go on when they can; the context need never be done.
FairSpec ==
  /\ Spec
  /\ WF_vars(CloserLocks) /\ WF_vars(CloseJobs)
  /\ WF_vars(HandlerStep) /\ WF_vars(ReadStep)
  /\ \A w \in Writes : WF_vars(WriteStep(w))
  /\ \A p \in Posts : WF_vars(PostStep(p))

-----------------------------------------------------------------------------
(* Properties *)

\* Every variable has its type; the lock is held exactly by the Write that
\* sends, by the closing goroutine, or by a Write that returned without
\* unlocking.
TypeOK ==
  /\ ctxDone \in BOOLEAN /\ panicked \in BOOLEAN
  /\ mx \in Writes \cup {"free", "closer"}
  /\ write \in [Writes -> {"new", "lock", "send", "wait", "done", "error"}]
  /\ \A w \in Writes : (write[w] = "send" => mx = w) /\ (mx = w => write[w] \in {"send", "error"})
  /\ mx = "closer" <=> closer = "close"
  /\ jobs \in Seq(Writes) /\ Len(jobs) <= 1
  /\ results \in Seq(Writes) /\ Len(results) <= 1
  /\ jobsClosed \in BOOLEAN
  /\ closer \in {"waiting", "close", "ended"}
  /\ handler \in Writes \cup {"range", "ended"}
  /\ answer \in BOOLEAN
  /\ post \in [Posts -> {"new", "lock", "body", "pipe", "200", "400", "409", "410"}]
  /\ chunks \in [Posts -> 0 .. MaxChunks]
  /\ postWriting \in BOOLEAN
  /\ reader \in {"idle", "select", "unblock", "ended"}
  /\ rw \in {"off", "reading", "result"}

\* "prevent race with goroutine closing the jobChan" (serversseconnection.go:84):
\* no Write sends to the closed channel, whenever the context is canceled.
NoSendOnClosed == ~panicked

\* serversseconnection.go:84: there is a "goroutine closing the jobChan" when
\* the context is done, which ends the handler of the GET request.
JobChanCloses == ctxDone ~> jobsClosed

\* connectionbase.go:47: "ReadWriteWithContext will return when either the
\* Read/Write operation has ended or ctx has been canceled".
ReadReturns == ctxDone ~> reader = "ended"
=============================================================================
