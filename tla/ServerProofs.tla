---------------------------- MODULE ServerProofs ----------------------------
(***************************************************************************)
(* Proofs about three parts of a Go server: the lifetime manager           *)
(* (HubLifetime), an SSE connection (ServerSSE) and the HTTP entry         *)
(* (HttpMux), each for its own specification and for any number of         *)
(* connections, groups, calls, writes and requests.                        *)
(***************************************************************************)
EXTENDS MCServer, Sequences, TLAPS

-----------------------------------------------------------------------------
(* The lifetime manager *)

\* Who is left to visit: an OnDisconnected that has not begun its Range has
\* visited no group.
RangeInv ==
  /\ \A c \in Conns : visited[c] # {} => conn[c] \in {"ranging", "off"}
  /\ L!MembersAccounted

\* A send that was started is over or pending unless its connection is aborted,
\* and an InvokeAll ends when it has started one to each client it found.
SendsInv ==
  \A o \in Calls :
    /\ sent[o] \subseteq received[o] \cup pending[o] \cup aborted
    /\ pc[o] \in {"idle", "add"} => targets[o] = {}
    /\ pc[o] = "done" => targets[o] \cap clients \subseteq sent[o]
    /\ \A c \in targets[o] : conn[c] # "new"

\* The types of the lifetime manager hold in its initial states, and every step
\* keeps them.
LEMMA LifetimeInit == L!Init => L!TypeOK /\ RangeInv /\ SendsInv
<1> SUFFICES ASSUME L!Init PROVE L!TypeOK /\ RangeInv /\ SendsInv
  OBVIOUS
<1>1. L!TypeOK
  BY DEF L!Init, L!TypeOK
<1>2. RangeInv
  BY DEF L!Init, RangeInv, L!MembersAccounted
<1>3. SendsInv
  BY DEF L!Init, SendsInv
<1> QED
  BY <1>1, <1>2, <1>3

\* The steps of the lifetime manager keep the types of its sets and records.
LEMMA LifetimeTypes == L!TypeOK /\ [L!Next]_(L!vars) => L!TypeOK'
<1> SUFFICES ASSUME L!TypeOK, [L!Next]_(L!vars) PROVE L!TypeOK'
  OBVIOUS
<1> USE DEF L!TypeOK, L!connVars, L!groupVars, L!sendVars
<1>1. ASSUME NEW c \in Conns, L!OnConnected(c) PROVE L!TypeOK'
  BY <1>1 DEF L!OnConnected
<1>2. ASSUME NEW c \in Conns, L!Abort(c) PROVE L!TypeOK'
  BY <1>2 DEF L!Abort
<1>3. ASSUME NEW c \in Conns, L!OnDisconnected(c) PROVE L!TypeOK'
  BY <1>3 DEF L!OnDisconnected
<1>4. ASSUME NEW c \in Conns, L!RangeGroups(c) PROVE L!TypeOK'
  BY <1>4 DEF L!RangeGroups
<1>5. ASSUME NEW c \in Conns, L!DisconnectedDone(c) PROVE L!TypeOK'
  BY <1>5 DEF L!DisconnectedDone
<1>6. ASSUME NEW c \in Conns, NEW g \in Groups, L!VisitGroup(c, g) PROVE L!TypeOK'
  BY <1>6 DEF L!VisitGroup
<1>7. ASSUME NEW o \in Calls, L!InvokeAll(o) PROVE L!TypeOK'
  BY <1>7 DEF L!InvokeAll
<1>8. ASSUME NEW o \in Calls, L!InvokeAllDone(o) PROVE L!TypeOK'
  BY <1>8 DEF L!InvokeAllDone
<1>9. ASSUME NEW o \in Calls, NEW g \in Groups, L!InvokeGroup(o, g) PROVE L!TypeOK'
  BY <1>9 DEF L!InvokeGroup
<1>10. ASSUME NEW o \in Calls, NEW c \in Conns, L!VisitClient(o, c) PROVE L!TypeOK'
  BY <1>10 DEF L!VisitClient
<1>11. ASSUME NEW o \in Calls, NEW c \in Conns, L!InvokeClient(o, c) PROVE L!TypeOK'
  BY <1>11 DEF L!InvokeClient
<1>12. ASSUME NEW o \in Calls, NEW c \in Conns, L!SendInvocation(o, c) PROVE L!TypeOK'
  BY <1>12 DEF L!SendInvocation
<1>13. ASSUME NEW o \in Calls, NEW c \in Conns, NEW g \in Groups, L!AddToGroup(o, g, c)
       PROVE  L!TypeOK'
  BY <1>13 DEF L!AddToGroup
<1>14. ASSUME NEW o \in Calls, NEW c \in Conns, NEW g \in Groups, L!AddMember(o, g, c)
       PROVE  L!TypeOK'
  BY <1>14 DEF L!AddMember
<1>15. ASSUME NEW o \in Calls, NEW c \in Conns, NEW g \in Groups, L!RemoveFromGroup(o, g, c)
       PROVE  L!TypeOK'
  BY <1>15 DEF L!RemoveFromGroup
<1>16. CASE UNCHANGED L!vars
  BY <1>16 DEF L!vars
<1> QED
  BY <1>1, <1>2, <1>3, <1>4, <1>5, <1>6, <1>7, <1>8, <1>9, <1>10, <1>11, <1>12, <1>13, <1>14,
     <1>15, <1>16, Zenon DEF L!Next

\* A member that is neither a client nor about to be removed is a late one after
\* every step.
LEMMA RangeStep ==
  ASSUME L!TypeOK, RangeInv, [L!Next]_(L!vars)
  PROVE  RangeInv'
<1> USE DEF L!TypeOK, RangeInv, L!MembersAccounted, L!connVars, L!groupVars, L!sendVars
<1>1. ASSUME NEW c \in Conns, L!OnConnected(c)
      PROVE  RangeInv'
  BY <1>1 DEF L!OnConnected
<1>2. ASSUME NEW c \in Conns, L!Abort(c)
      PROVE  RangeInv'
  BY <1>2 DEF L!Abort
<1>3. ASSUME NEW c \in Conns, L!OnDisconnected(c)
      PROVE  RangeInv'
  BY <1>3 DEF L!OnDisconnected
<1>4. ASSUME NEW c \in Conns, L!RangeGroups(c)
      PROVE  RangeInv'
  BY <1>4 DEF L!RangeGroups
<1>5. ASSUME NEW c \in Conns, L!DisconnectedDone(c)
      PROVE  RangeInv'
  BY <1>5 DEF L!DisconnectedDone
<1>6. ASSUME NEW c \in Conns, NEW g \in Groups, L!VisitGroup(c, g)
      PROVE  RangeInv'
  BY <1>6 DEF L!VisitGroup
<1>7. ASSUME NEW o \in Calls, L!InvokeAll(o)
      PROVE  RangeInv'
  BY <1>7 DEF L!InvokeAll
<1>8. ASSUME NEW o \in Calls, L!InvokeAllDone(o)
      PROVE  RangeInv'
  BY <1>8 DEF L!InvokeAllDone
<1>9. ASSUME NEW o \in Calls, NEW g \in Groups, L!InvokeGroup(o, g)
      PROVE  RangeInv'
  BY <1>9 DEF L!InvokeGroup
<1>10. ASSUME NEW o \in Calls, NEW c \in Conns, L!VisitClient(o, c)
      PROVE  RangeInv'
  BY <1>10 DEF L!VisitClient
<1>11. ASSUME NEW o \in Calls, NEW c \in Conns, L!InvokeClient(o, c)
      PROVE  RangeInv'
  BY <1>11 DEF L!InvokeClient
<1>12. ASSUME NEW o \in Calls, NEW c \in Conns, L!SendInvocation(o, c)
      PROVE  RangeInv'
  BY <1>12 DEF L!SendInvocation
<1>13. ASSUME NEW o \in Calls, NEW g \in Groups, NEW c \in Conns, L!AddToGroup(o, g, c)
      PROVE  RangeInv'
  BY <1>13 DEF L!AddToGroup
<1>14. ASSUME NEW o \in Calls, NEW g \in Groups, NEW c \in Conns, L!AddMember(o, g, c)
      PROVE  RangeInv'
  BY <1>14 DEF L!AddMember
<1>15. ASSUME NEW o \in Calls, NEW g \in Groups, NEW c \in Conns, L!RemoveFromGroup(o, g, c)
      PROVE  RangeInv'
  BY <1>15 DEF L!RemoveFromGroup
<1>16. CASE UNCHANGED L!vars
  BY <1>16 DEF L!vars
<1> QED
  BY <1>1, <1>2, <1>3, <1>4, <1>5, <1>6, <1>7, <1>8, <1>9, <1>10, <1>11, <1>12, <1>13, <1>14, <1>15, <1>16, Zenon
     DEF L!Next

\* Every step keeps the account of the sends.
LEMMA SendsStep ==
  ASSUME L!TypeOK, SendsInv, [L!Next]_(L!vars)
  PROVE  SendsInv'
<1> USE DEF L!TypeOK, SendsInv, L!connVars, L!groupVars, L!sendVars
<1>1. ASSUME NEW c \in Conns, L!OnConnected(c)
      PROVE  SendsInv'
  BY <1>1 DEF L!OnConnected
<1>2. ASSUME NEW c \in Conns, L!Abort(c)
      PROVE  SendsInv'
  BY <1>2 DEF L!Abort
<1>3. ASSUME NEW c \in Conns, L!OnDisconnected(c)
      PROVE  SendsInv'
  BY <1>3 DEF L!OnDisconnected
<1>4. ASSUME NEW c \in Conns, L!RangeGroups(c)
      PROVE  SendsInv'
  BY <1>4 DEF L!RangeGroups
<1>5. ASSUME NEW c \in Conns, L!DisconnectedDone(c)
      PROVE  SendsInv'
  BY <1>5 DEF L!DisconnectedDone
<1>6. ASSUME NEW c \in Conns, NEW g \in Groups, L!VisitGroup(c, g)
      PROVE  SendsInv'
  BY <1>6 DEF L!VisitGroup
<1>7. ASSUME NEW o \in Calls, L!InvokeAll(o)
      PROVE  SendsInv'
  BY <1>7 DEF L!InvokeAll
<1>8. ASSUME NEW o \in Calls, L!InvokeAllDone(o)
      PROVE  SendsInv'
  BY <1>8 DEF L!InvokeAllDone
<1>9. ASSUME NEW o \in Calls, NEW g \in Groups, L!InvokeGroup(o, g)
      PROVE  SendsInv'
  BY <1>9 DEF L!InvokeGroup
<1>10. ASSUME NEW o \in Calls, NEW c \in Conns, L!VisitClient(o, c)
      PROVE  SendsInv'
  BY <1>10 DEF L!VisitClient
<1>11. ASSUME NEW o \in Calls, NEW c \in Conns, L!InvokeClient(o, c)
      PROVE  SendsInv'
  BY <1>11 DEF L!InvokeClient
<1>12. ASSUME NEW o \in Calls, NEW c \in Conns, L!SendInvocation(o, c)
      PROVE  SendsInv'
  BY <1>12 DEF L!SendInvocation
<1>13. ASSUME NEW o \in Calls, NEW g \in Groups, NEW c \in Conns, L!AddToGroup(o, g, c)
      PROVE  SendsInv'
  BY <1>13 DEF L!AddToGroup
<1>14. ASSUME NEW o \in Calls, NEW g \in Groups, NEW c \in Conns, L!AddMember(o, g, c)
      PROVE  SendsInv'
  BY <1>14 DEF L!AddMember
<1>15. ASSUME NEW o \in Calls, NEW g \in Groups, NEW c \in Conns, L!RemoveFromGroup(o, g, c)
      PROVE  SendsInv'
  BY <1>15 DEF L!RemoveFromGroup
<1>16. CASE UNCHANGED L!vars
  BY <1>16 DEF L!vars
<1> QED
  BY <1>1, <1>2, <1>3, <1>4, <1>5, <1>6, <1>7, <1>8, <1>9, <1>10, <1>11, <1>12, <1>13, <1>14, <1>15, <1>16, Zenon
     DEF L!Next

\* The lifetime manager keeps its types and both accounts.
LEMMA LifetimeInvariant == L!Spec => [](L!TypeOK /\ RangeInv /\ SendsInv)
<1>1. L!TypeOK /\ RangeInv /\ SendsInv /\ [L!Next]_(L!vars) => (L!TypeOK /\ RangeInv /\ SendsInv)'
  BY LifetimeTypes, RangeStep, SendsStep
<1> QED
  BY LifetimeInit, <1>1, PTL DEF L!Spec

\* Whoever is a member of a group is connected, is about to be removed by its
\* OnDisconnected, or was added by an AddToGroup that had loaded it before
\* (hublifetimemanager.go:74-80 and 110-115), for any number of connections,
\* groups and calls.
THEOREM GroupsAccounted == L!Spec => []MembersAccounted
<1>1. RangeInv => MembersAccounted
  BY DEF RangeInv, MembersAccounted
<1> QED
  BY LifetimeInvariant, <1>1, PTL

\* InvokeAll misses no client that is connected from its beginning to its end
\* (hublifetimemanager.go:82-89), whatever clients come and go meanwhile.
THEOREM AllReached == L!Spec => []AllReceive
<1>1. SendsInv => AllReceive
  BY DEF SendsInv, AllReceive, L!AllReceive
<1> QED
  BY LifetimeInvariant, <1>1, PTL

-----------------------------------------------------------------------------
(* An SSE connection *)

\* The handler answers a job it has taken; the goroutine that closes jobChan
\* holds the lock for it and does so after the context is done; a Write that is
\* about to send has the lock and has found the context not done with it.
JobsInv ==
  /\ answer => handler \in Writes
  /\ jobsClosed => closer = "ended"
  /\ closer # "waiting" => ctxDone
  /\ \A w \in Writes : write[w] = "send" => ~jobsClosed
  /\ ~panicked

\* The job channel of a new connection is open.
LEMMA SSEInit == E!Init => E!TypeOK /\ JobsInv
<1> SUFFICES ASSUME E!Init PROVE E!TypeOK /\ JobsInv
  OBVIOUS
<1>1. <<>> \in Seq(Writes) /\ Len(<<>>) <= 1
  OBVIOUS
<1>2. chunks \in [Bodies -> 0 .. MaxChunks] /\ body = [p \in Bodies |-> "new"]
  BY SSEAssumption DEF E!Init, E!Bounds
<1>3. mx = "free" /\ "free" \notin Writes
  BY SSEAssumption DEF E!Init, E!Bounds
<1>4. E!TypeOK
  BY <1>1, <1>2, <1>3, Zenon DEF E!Init, E!TypeOK
<1>5. JobsInv
  BY DEF E!Init, JobsInv
<1> QED
  BY <1>4, <1>5

\* Every variable keeps its type, and the lock has the holder its state says.
LEMMA SSETypes ==
  ASSUME E!TypeOK, JobsInv, [E!Next]_(E!vars)
  PROVE  E!TypeOK'
<1> USE SSEAssumption
    DEF E!Bounds, E!TypeOK, JobsInv, E!writeVars, E!handlerVars, E!postVars, E!readVars
<1>1. CASE E!ContextDone
  BY <1>1 DEF E!ContextDone
<1>2. CASE E!CloserLocks
  BY <1>2 DEF E!CloserLocks
<1>3. CASE E!CloseJobs
  BY <1>3 DEF E!CloseJobs
<1>4. CASE E!TakeJob
  BY <1>4 DEF E!TakeJob
<1>5. CASE E!WriteResponse
  BY <1>5 DEF E!WriteResponse
<1>6. CASE E!SendResult
  <2>1. results' \in Seq(Writes) /\ Len(results') <= 1
    BY <1>6 DEF E!SendResult
  <2> QED
    BY <1>6, <2>1, Zenon DEF E!SendResult
<1>7. CASE E!HandlerEnds
  BY <1>7 DEF E!HandlerEnds
<1>8. CASE E!Read
  BY <1>8 DEF E!Read
<1>9. CASE E!ReadResult
  BY <1>9 DEF E!ReadResult
<1>10. CASE E!ReadCanceled
  BY <1>10 DEF E!ReadCanceled
<1>11. CASE E!UnblockRead
  BY <1>11 DEF E!UnblockRead
<1>12. ASSUME NEW w \in Writes, E!Write(w)
      PROVE  E!TypeOK'
  BY <1>12 DEF E!Write
<1>13. ASSUME NEW w \in Writes, E!WriteLocks(w)
      PROVE  E!TypeOK'
  BY <1>13 DEF E!WriteLocks
<1>14. ASSUME NEW w \in Writes, E!SendJob(w)
      PROVE  E!TypeOK'
  BY <1>14 DEF E!SendJob
<1>15. ASSUME NEW w \in Writes, E!WriteResult(w)
      PROVE  E!TypeOK'
  BY <1>15 DEF E!WriteResult
<1>16. ASSUME NEW w \in Writes, E!WriteCanceled(w)
      PROVE  E!TypeOK'
  BY <1>16 DEF E!WriteCanceled
<1>17. ASSUME NEW p \in Bodies, E!consumeRequest(p)
      PROVE  E!TypeOK'
  BY <1>17 DEF E!consumeRequest
<1>18. ASSUME NEW p \in Bodies, E!PostLocks(p)
      PROVE  E!TypeOK'
  BY <1>18 DEF E!PostLocks
<1>19. ASSUME NEW p \in Bodies, NEW c \in 1 .. MaxChunks, E!ReadBody(p, c)
      PROVE  E!TypeOK'
  BY <1>19 DEF E!ReadBody
<1>20. ASSUME NEW p \in Bodies, E!ReadBodyFails(p)
      PROVE  E!TypeOK'
  BY <1>20 DEF E!ReadBodyFails
<1>21. ASSUME NEW p \in Bodies, E!PipeChunk(p)
      PROVE  E!TypeOK'
  BY <1>21 DEF E!PipeChunk
<1>22. ASSUME NEW p \in Bodies, E!PostDone(p)
      PROVE  E!TypeOK'
  BY <1>22, Zenon DEF E!PostDone
<1>23. CASE UNCHANGED E!vars
  BY <1>23 DEF E!vars
<1> QED
  BY <1>1, <1>2, <1>3, <1>4, <1>5, <1>6, <1>7, <1>8, <1>9, <1>10, <1>11, <1>12, <1>13, <1>14, <1>15, <1>16, <1>17, <1>18, <1>19, <1>20, <1>21, <1>22, <1>23, Zenon
     DEF E!Next, E!WriteStep, E!HandlerStep, E!PostStep, E!ReadStep

\* No step closes jobChan under a Write that is about to send.
LEMMA JobsStep ==
  ASSUME E!TypeOK, JobsInv, [E!Next]_(E!vars)
  PROVE  JobsInv'
<1> USE SSEAssumption
    DEF E!Bounds, E!TypeOK, JobsInv, E!writeVars, E!handlerVars, E!postVars, E!readVars
<1>1. CASE E!ContextDone
  BY <1>1 DEF E!ContextDone
<1>2. CASE E!CloserLocks
  BY <1>2 DEF E!CloserLocks
<1>3. CASE E!CloseJobs
  BY <1>3 DEF E!CloseJobs
<1>4. CASE E!TakeJob
  BY <1>4 DEF E!TakeJob
<1>5. CASE E!WriteResponse
  BY <1>5 DEF E!WriteResponse
<1>6. CASE E!SendResult
  BY <1>6 DEF E!SendResult
<1>7. CASE E!HandlerEnds
  BY <1>7 DEF E!HandlerEnds
<1>8. CASE E!Read
  BY <1>8 DEF E!Read
<1>9. CASE E!ReadResult
  BY <1>9 DEF E!ReadResult
<1>10. CASE E!ReadCanceled
  BY <1>10 DEF E!ReadCanceled
<1>11. CASE E!UnblockRead
  BY <1>11 DEF E!UnblockRead
<1>12. ASSUME NEW w \in Writes, E!Write(w)
      PROVE  JobsInv'
  BY <1>12 DEF E!Write
<1>13. ASSUME NEW w \in Writes, E!WriteLocks(w)
      PROVE  JobsInv'
  BY <1>13 DEF E!WriteLocks
<1>14. ASSUME NEW w \in Writes, E!SendJob(w)
      PROVE  JobsInv'
  BY <1>14 DEF E!SendJob
<1>15. ASSUME NEW w \in Writes, E!WriteResult(w)
      PROVE  JobsInv'
  BY <1>15 DEF E!WriteResult
<1>16. ASSUME NEW w \in Writes, E!WriteCanceled(w)
      PROVE  JobsInv'
  BY <1>16 DEF E!WriteCanceled
<1>17. ASSUME NEW p \in Bodies, E!consumeRequest(p)
      PROVE  JobsInv'
  BY <1>17 DEF E!consumeRequest
<1>18. ASSUME NEW p \in Bodies, E!PostLocks(p)
      PROVE  JobsInv'
  BY <1>18 DEF E!PostLocks
<1>19. ASSUME NEW p \in Bodies, NEW c \in 1 .. MaxChunks, E!ReadBody(p, c)
      PROVE  JobsInv'
  BY <1>19 DEF E!ReadBody
<1>20. ASSUME NEW p \in Bodies, E!ReadBodyFails(p)
      PROVE  JobsInv'
  BY <1>20 DEF E!ReadBodyFails
<1>21. ASSUME NEW p \in Bodies, E!PipeChunk(p)
      PROVE  JobsInv'
  BY <1>21 DEF E!PipeChunk
<1>22. ASSUME NEW p \in Bodies, E!PostDone(p)
      PROVE  JobsInv'
  BY <1>22 DEF E!PostDone
<1>23. CASE UNCHANGED E!vars
  BY <1>23 DEF E!vars
<1> QED
  BY <1>1, <1>2, <1>3, <1>4, <1>5, <1>6, <1>7, <1>8, <1>9, <1>10, <1>11, <1>12, <1>13, <1>14, <1>15, <1>16, <1>17, <1>18, <1>19, <1>20, <1>21, <1>22, <1>23, Zenon
     DEF E!Next, E!WriteStep, E!HandlerStep, E!PostStep, E!ReadStep

\* "prevent race with goroutine closing the jobChan" (serversseconnection.go:84):
\* no Write sends to the closed channel, for any number of writes and requests.
THEOREM JobChanOpen == E!Spec => []NoSendOnClosed
<1>1. E!TypeOK /\ JobsInv /\ [E!Next]_(E!vars) => (E!TypeOK /\ JobsInv)'
  BY SSETypes, JobsStep
<1>2. JobsInv => NoSendOnClosed
  BY DEF JobsInv, NoSendOnClosed, E!NoSendOnClosed
<1> QED
  BY SSEInit, <1>1, <1>2, PTL DEF E!Spec

-----------------------------------------------------------------------------
(* The HTTP entry *)

\* The types of what the requests use; a request that has not come, and one that
\* is over, has no key.
MuxTypes ==
  /\ entry \in [Keys -> {"none", "negotiate", "sse", "websocket"}]
  /\ get \in [Gets -> {"idle", "lookup", "refused", "store", "serve", "ended"}]
  /\ transport \in [Gets -> {"sse", "websocket"}]
  /\ DOMAIN key = Gets
  /\ \A r \in Gets : get[r] \in {"lookup", "store", "serve"} => key[r] \in Keys
  /\ post \in [Posts -> {"idle", "look", "sleep", "consumed", "404", "409", "425"}]
  /\ DOMAIN postKey = Posts
  /\ \A p \in Posts : post[p] # "idle" => postKey[p] \in Keys
  /\ early \subseteq Posts

\* The key of a POST that found a negotiation has an entry for as long as the
\* request goes on, unless it was released.
GapInv ==
  \A p \in early :
    /\ post[p] # "idle"
    /\ post[p] \in {"look", "sleep"} => entry[postKey[p]] # "none" \/ postKey[p] \in released
    /\ post[p] = "404" => postKey[p] \in released

\* Both hold before the first request.
LEMMA MuxInit == Init => MuxTypes /\ GapInv
  BY DEF Init, MuxTypes, GapInv

\* Every step keeps the types.
LEMMA MuxStep ==
  ASSUME MuxTypes, [Next]_vars
  PROVE  MuxTypes'
<1> USE DEF MuxTypes, getVars, postVars
<1>1. ASSUME NEW n \in Sessions, NEW k \in Keys, negotiate(n, k)
      PROVE  MuxTypes'
  BY <1>1 DEF negotiate
<1>2. ASSUME NEW k \in Keys, Expire(k)
      PROVE  MuxTypes'
  BY <1>2 DEF Expire
<1>3. CASE reaperLoop
  BY <1>3 DEF reaperLoop, Pending
<1>4. CASE ServerCanceled
  BY <1>4 DEF ServerCanceled
<1>5. ASSUME NEW r \in Gets, NEW k \in Keys, NEW t \in {"sse", "websocket"}, handleGet(r, k, t)
      PROVE  MuxTypes'
  BY <1>5 DEF handleGet
<1>6. ASSUME NEW r \in Gets, NEW n \in Sessions, DirectWebsocket(r, n)
      PROVE  MuxTypes'
  BY <1>6 DEF DirectWebsocket, ID, Keys
<1>7. ASSUME NEW r \in Gets, Lookup(r)
      PROVE  MuxTypes'
  BY <1>7 DEF Lookup, Answered
<1>8. ASSUME NEW r \in Gets, StoreConnection(r)
      PROVE  MuxTypes'
  BY <1>8, Zenon DEF StoreConnection, ConnectionID, ID
<1>9. ASSUME NEW r \in Gets, RemoveConnection(r)
      PROVE  MuxTypes'
  BY <1>9, Zenon DEF RemoveConnection, Answered, ConnectionID, ID
<1>10. ASSUME NEW p \in Posts, NEW k \in Keys, handlePost(p, k)
      PROVE  MuxTypes'
  BY <1>10 DEF handlePost
<1>11. ASSUME NEW p \in Posts, PostRound(p)
      PROVE  MuxTypes'
  BY <1>11 DEF PostRound
<1>12. ASSUME NEW p \in Posts, PostSleeps(p)
      PROVE  MuxTypes'
  BY <1>12 DEF PostSleeps
<1>13. ASSUME NEW p \in Posts, PostTimeout(p)
      PROVE  MuxTypes'
  BY <1>13 DEF PostTimeout
<1>14. CASE UNCHANGED vars
  BY <1>14 DEF vars
<1>15. ASSUME NEW n \in Sessions, NEW t \in {"id", "token"}
      PROVE  <<t, n>> \in Keys
  BY <1>15 DEF Keys
<1> QED
  BY <1>1, <1>2, <1>3, <1>4, <1>5, <1>6, <1>7, <1>8, <1>9, <1>10, <1>11, <1>12, <1>13, <1>14, <1>15, Zenon
     DEF Next

\* No step takes an entry away under a POST without releasing its key.
LEMMA GapStep ==
  ASSUME MuxTypes, GapInv, [Next]_vars
  PROVE  GapInv'
<1> USE DEF MuxTypes, GapInv, getVars, postVars
<1>1. ASSUME NEW n \in Sessions, NEW k \in Keys, negotiate(n, k)
      PROVE  GapInv'
  BY <1>1 DEF negotiate
<1>2. ASSUME NEW k \in Keys, Expire(k)
      PROVE  GapInv'
  BY <1>2 DEF Expire
<1>3. CASE reaperLoop
  BY <1>3 DEF reaperLoop, Pending
<1>4. CASE ServerCanceled
  BY <1>4 DEF ServerCanceled
<1>5. ASSUME NEW r \in Gets, NEW k \in Keys, NEW t \in {"sse", "websocket"}, handleGet(r, k, t)
      PROVE  GapInv'
  BY <1>5 DEF handleGet
<1>6. ASSUME NEW r \in Gets, NEW n \in Sessions, DirectWebsocket(r, n)
      PROVE  GapInv'
  BY <1>6 DEF DirectWebsocket, ID, Keys
<1>7. ASSUME NEW r \in Gets, Lookup(r)
      PROVE  GapInv'
  BY <1>7 DEF Lookup, Answered
<1>8. ASSUME NEW r \in Gets, StoreConnection(r)
      PROVE  GapInv'
  BY <1>8 DEF StoreConnection, ConnectionID, ID
<1>9. ASSUME NEW r \in Gets, RemoveConnection(r)
      PROVE  GapInv'
  BY <1>9 DEF RemoveConnection, Answered, ConnectionID, ID
<1>10. ASSUME NEW p \in Posts, NEW k \in Keys, handlePost(p, k)
      PROVE  GapInv'
  BY <1>10 DEF handlePost
<1>11. ASSUME NEW p \in Posts, PostRound(p)
      PROVE  GapInv'
  BY <1>11 DEF PostRound
<1>12. ASSUME NEW p \in Posts, PostSleeps(p)
      PROVE  GapInv'
  BY <1>12 DEF PostSleeps
<1>13. ASSUME NEW p \in Posts, PostTimeout(p)
      PROVE  GapInv'
  BY <1>13 DEF PostTimeout
<1>14. CASE UNCHANGED vars
  BY <1>14 DEF vars
<1>15. ASSUME NEW n \in Sessions, NEW t \in {"id", "token"}
      PROVE  <<t, n>> \in Keys
  BY <1>15 DEF Keys
<1> HIDE DEF MuxTypes, GapInv, getVars, postVars
<1> QED
  BY <1>1, <1>2, <1>3, <1>4, <1>5, <1>6, <1>7, <1>8, <1>9, <1>10, <1>11, <1>12, <1>13, <1>14, <1>15, Zenon
     DEF Next

\* A POST that comes after the negotiation and races the GET of its own
\* connection never finds the key unknown (httpmux.go:75-93 and 302-305), for any
\* number of sessions and requests and every limit of negotiations.
THEOREM NeverUnknown == Spec => []NoGap
<1>1. MuxTypes /\ GapInv /\ [Next]_vars => (MuxTypes /\ GapInv)'
  BY MuxStep, GapStep
<1>2. GapInv => NoGap
  BY DEF GapInv, NoGap
<1> QED
  BY MuxInit, <1>1, <1>2, PTL DEF Spec

\* What a step may do to the entry of a served connection.
LEMMA ServedStep ==
  ASSUME MuxTypes, [Next]_vars, NEW x \in Keys,
         entry[x] \in {"sse", "websocket"}, entry'[x] = "none"
  PROVE  \E r \in Gets : get[r] = "serve" /\ get'[r] = "ended" /\ ConnectionID(r) = x
<1> DEFINE Goal == \E r \in Gets : get[r] = "serve" /\ get'[r] = "ended" /\ ConnectionID(r) = x
<1> USE DEF MuxTypes, getVars, postVars
<1>1. ASSUME NEW n \in Sessions, NEW k \in Keys, negotiate(n, k)
      PROVE  Goal
  BY <1>1 DEF negotiate
<1>2. ASSUME NEW k \in Keys, Expire(k)
      PROVE  Goal
  BY <1>2 DEF Expire
<1>3. CASE reaperLoop
  BY <1>3 DEF reaperLoop, Pending
<1>4. CASE ServerCanceled
  BY <1>4 DEF ServerCanceled
<1>5. ASSUME NEW r \in Gets, NEW k \in Keys, NEW t \in {"sse", "websocket"}, handleGet(r, k, t)
      PROVE  Goal
  BY <1>5 DEF handleGet
<1>6. ASSUME NEW r \in Gets, NEW n \in Sessions, DirectWebsocket(r, n)
      PROVE  Goal
  BY <1>6 DEF DirectWebsocket, ID, Keys
<1>7. ASSUME NEW r \in Gets, Lookup(r)
      PROVE  Goal
  BY <1>7 DEF Lookup, Answered
<1>8. ASSUME NEW r \in Gets, StoreConnection(r)
      PROVE  Goal
  BY <1>8 DEF StoreConnection, ConnectionID, ID
<1>9. ASSUME NEW r \in Gets, RemoveConnection(r)
      PROVE  Goal
  BY <1>9 DEF RemoveConnection, Answered, ConnectionID, ID
<1>10. ASSUME NEW p \in Posts, NEW k \in Keys, handlePost(p, k)
      PROVE  Goal
  BY <1>10 DEF handlePost
<1>11. ASSUME NEW p \in Posts, PostRound(p)
      PROVE  Goal
  BY <1>11 DEF PostRound
<1>12. ASSUME NEW p \in Posts, PostSleeps(p)
      PROVE  Goal
  BY <1>12 DEF PostSleeps
<1>13. ASSUME NEW p \in Posts, PostTimeout(p)
      PROVE  Goal
  BY <1>13 DEF PostTimeout
<1>14. CASE UNCHANGED vars
  BY <1>14 DEF vars
<1>15. ASSUME NEW n \in Sessions, NEW t \in {"id", "token"}
      PROVE  <<t, n>> \in Keys
  BY <1>15 DEF Keys
<1> QED
  BY <1>1, <1>2, <1>3, <1>4, <1>5, <1>6, <1>7, <1>8, <1>9, <1>10, <1>11, <1>12, <1>13, <1>14, <1>15, Zenon
     DEF Next

\* A connection that is served leaves the map only when a connection of the same
\* id has ended (httpmux.go:43-49 and 307-309).
THEOREM ServedUntilEnd == Spec => ServedStay
<1>1. MuxTypes /\ [Next]_vars => MuxTypes'
  BY MuxStep
<1>2. MuxTypes /\ [Next]_vars =>
        [\A k \in Keys :
           entry[k] \in {"sse", "websocket"} /\ entry'[k] = "none"
             => \E r \in Gets : get[r] = "serve" /\ get'[r] = "ended" /\ ConnectionID(r) = k]_vars
  BY ServedStep
<1> QED
  BY MuxInit, <1>1, <1>2, PTL DEF Spec, ServedStay
=============================================================================
