---------------------------- MODULE JsLowerProofs ----------------------------
(***************************************************************************)
(* Proofs about what the connection of the JavaScript client is built on.  *)
(* The transports (JsTransports) keep the safety part of the contract of   *)
(* ITransport, for any number of sends and messages.  A promise (JsPromise) *)
(* settles once, for every number of promises, calls and thenables: each   *)
(* function of the source is shown to keep what has settled, from the      *)
(* functions it calls, and an action is one of them applied to the heap.   *)
(***************************************************************************)
EXTENDS JsTransports, Sequences, TLAPS

\* connect has its three phases, and settles in the last one.
ConnectInv ==
  /\ result = "none" <=> connect = "off"
  /\ result = "pending" <=> connect \in {"token", "dial"}
  /\ closes \in {0, 1}

\* What is of the other kind of transport is not used.
KindInv ==
  /\ kind = "lp" => socket = "none" /\ ~field /\ ~opened
  /\ kind # "lp" => ~running /\ ~aborted /\ get = "none" /\ poll = "off" /\ stop = "off"

\* A socket that has not been closed has not called onclose; it is in the field
\* webSocket or eventSource only while it is open or closing.
SocketInv ==
  kind # "lp" =>
    /\ connect \in {"off", "token"} => socket = "none"
    /\ connect = "dial" => socket = "connecting"
    /\ socket = "none" => ~opened
    /\ socket = "connecting" => ~opened /\ result \in {"pending", "rejected"}
    /\ kind = "ws" /\ socket \in {"connecting", "open"} => result # "rejected"
    /\ socket = "open" => opened
    /\ opened => result \in {"resolved", "rejected"}
    /\ result = "resolved" => opened
    /\ socket # "closed" => closes = 0
    /\ field => opened /\ socket \in {"open", "closing"}

\* Who calls onclose of a long polling transport: the loop that ends by itself,
\* or stop when it is through.
PollInv ==
  kind = "lp" =>
    /\ aborted <=> stop # "off"
    /\ poll = "off" => closes = 0 /\ stop = "off" /\ result # "resolved"
    /\ poll # "off" => result = "resolved"
    /\ poll \in {"token", "request"} => closes = 0 /\ stop \in {"off", "receiving"}
    /\ poll \in {"done", "threw"} /\ stop = "off" => closes = 1
    /\ stop \in {"receiving", "token", "delete"} => closes = 0
    /\ stop \in {"token", "delete", "done"} => poll \in {"done", "threw"}
    /\ get # "none" => connect = "dial" \/ poll = "request"

Inv == TypeOK /\ ConnectInv /\ KindInv /\ SocketInv /\ PollInv

\* Init establishes the invariant.
LEMMA InitInv == Init => Inv
<1> SUFFICES ASSUME Init PROVE Inv
  OBVIOUS
<1>1. FlagsOK
  BY Zenon DEF Init, FlagsOK
<1>2. ValuesOK
  BY MessagesAssumption DEF Init, ValuesOK
<1>3. ConnectInv /\ KindInv
  BY DEF Init, ConnectInv, KindInv
<1>4. SocketInv
  BY DEF Init, SocketInv
<1>5. PollInv
  BY DEF Init, PollInv
<1>6. QED
  BY <1>1, <1>2, <1>3, <1>4, <1>5 DEF Inv, TypeOK

\* Every step keeps it.
LEMMA NextInv == Inv /\ [Next]_vars => Inv'
<1> SUFFICES ASSUME Inv, [Next]_vars PROVE Inv'
  OBVIOUS
<1> USE MessagesAssumption
    DEF Inv, TypeOK, FlagsOK, ValuesOK, ConnectInv, KindInv, SocketInv, PollInv,
        vars, config, sockVars, pollVars, outVars
<1>1. CASE Connect
  BY <1>1 DEF Connect, dial
<1>2. CASE ConnectToken
  BY <1>2 DEF ConnectToken, dial, firstPoll
<1>3. CASE ConnectTokenFails
  BY <1>3 DEF ConnectTokenFails, settle
<1>4. CASE OnOpen
  BY <1>4 DEF OnOpen, settle
<1>5. CASE OnSocketError
  BY <1>5 DEF OnSocketError, settle
<1>6. CASE OnSocketClose
  <2>1. kind # "lp" /\ closes = 0
    BY <1>6 DEF OnSocketClose, settle, close
  <2>2. FlagsOK'
    BY <1>6, Zenon DEF OnSocketClose, settle, close
  <2>3. ValuesOK'
    BY <1>6, <2>1 DEF OnSocketClose, settle, close
  <2>4. ConnectInv' /\ KindInv' /\ PollInv'
    BY <1>6, <2>1 DEF OnSocketClose, settle, close
  <2>5. SocketInv'
    BY <1>6, <2>1 DEF OnSocketClose, settle, close
  <2>6. QED
    BY <2>2, <2>3, <2>4, <2>5
<1>7. CASE OnSourceError
  <2>1. kind # "lp" /\ closes = 0
    BY <1>7 DEF OnSourceError, settle, close
  <2>2. FlagsOK'
    BY <1>7, Zenon DEF OnSourceError, settle, close
  <2>3. ValuesOK'
    BY <1>7, <2>1 DEF OnSourceError, settle, close
  <2>4. ConnectInv' /\ KindInv' /\ PollInv'
    BY <1>7, <2>1 DEF OnSourceError, settle, close
  <2>5. SocketInv'
    BY <1>7, <2>1 DEF OnSourceError, settle, close
  <2>6. QED
    BY <2>2, <2>3, <2>4, <2>5
<1>8. CASE OnMessage
  <2>1. kind # "lp" /\ closes = 0
    BY <1>8 DEF OnMessage
  <2>2. /\ UNCHANGED <<config, connect, result, pollVars, stop, post>>
        /\ received' \in 0..MaxMessages
    BY <1>8 DEF OnMessage
  <2>3. FlagsOK'
    BY <1>8, Zenon DEF OnMessage, close
  <2>4. CASE close
    <3>1. socket' = "closed" /\ field' = FALSE /\ opened' = opened /\ closes' = 1
      BY <2>1, <2>4 DEF close
    <3>2. ValuesOK'
      BY <2>2, <3>1
    <3>3. ConnectInv' /\ KindInv' /\ PollInv'
      BY <2>1, <2>2, <3>1
    <3>4. SocketInv'
      BY <2>1, <2>2, <2>4, <3>1, <1>8 DEF OnMessage
    <3>5. QED
      BY <2>3, <3>2, <3>3, <3>4
  <2>5. CASE UNCHANGED <<sockVars, closes>>
    <3>1. ValuesOK'
      BY <2>2, <2>5
    <3>2. QED
      BY <2>1, <2>2, <2>3, <2>5, <3>1
  <2>6. QED
    BY <1>8, <2>4, <2>5 DEF OnMessage
<1>9. CASE GetHeaders
  BY <1>9 DEF GetHeaders
<1>10. CASE FirstPollFails
  BY <1>10 DEF FirstPollFails, settle, Failed
<1>11. ASSUME NEW ok \in BOOLEAN, FirstPollAnswered(ok) PROVE Inv'
  BY <1>11 DEF FirstPollAnswered, settle, Answered, pollEnds
<1>12. ASSUME NEW ok \in BOOLEAN, NEW n \in {0, 1}, PollAnswered(ok, n) PROVE Inv'
  BY <1>12 DEF PollAnswered, Answered, pollAgain, pollEnds
<1>13. ASSUME NEW timeout \in BOOLEAN, PollFails(timeout) PROVE Inv'
  BY <1>13 DEF PollFails, Failed, pollAgain, pollEnds
<1>14. CASE PollToken
  BY <1>14 DEF PollToken, pollEnds
<1>15. CASE PollTokenFails
  BY <1>15 DEF PollTokenFails, pollEnds
<1>16. ASSUME NEW s \in Sends, Send(s) PROVE Inv'
  BY <1>16 DEF Send, sendResult, sendMessage
<1>17. ASSUME NEW s \in Sends, NEW ok \in BOOLEAN, PostToken(s, ok) PROVE Inv'
  BY <1>17 DEF PostToken
<1>18. ASSUME NEW s \in Sends, NEW ok \in BOOLEAN, PostAnswered(s, ok) PROVE Inv'
  BY <1>18 DEF PostAnswered
<1>19. CASE StopSocket
  <2>1. kind # "lp" /\ closes = 0
    BY <1>19 DEF StopSocket, mayStop
  <2>2. /\ UNCHANGED <<config, connect, result, pollVars, stop, post>>
        /\ received' \in 0..MaxMessages
    BY <1>19 DEF StopSocket, mayStop
  <2>3. FlagsOK'
    BY <1>19, Zenon DEF StopSocket, mayStop, close
  <2>4. CASE field /\ close
    <3>1. socket' = "closed" /\ field' = FALSE /\ opened' = opened /\ closes' = 1
      BY <2>1, <2>4 DEF close
    <3>2. ValuesOK'
      BY <2>2, <3>1
    <3>3. ConnectInv' /\ KindInv' /\ PollInv'
      BY <2>1, <2>2, <3>1
    <3>4. SocketInv'
      BY <2>1, <2>2, <2>4, <3>1, <1>19 DEF StopSocket, mayStop
    <3>5. QED
      BY <2>3, <3>2, <3>3, <3>4
  <2>5. CASE UNCHANGED <<sockVars, closes>>
    <3>1. ValuesOK'
      BY <2>2, <2>5
    <3>2. QED
      BY <2>1, <2>2, <2>3, <2>5, <3>1
  <2>6. QED
    BY <1>19, <2>4, <2>5 DEF StopSocket
<1>20. CASE StopPolling
  BY <1>20, Zenon DEF StopPolling, mayStop, abort
<1>21. CASE StopReceived
  BY <1>21 DEF StopReceived, stopEnds
<1>22. CASE StopToken
  BY <1>22 DEF StopToken
<1>23. CASE StopTokenFails
  BY <1>23 DEF StopTokenFails, stopEnds
<1>24. CASE DeleteAnswered
  BY <1>24 DEF DeleteAnswered, stopEnds
<1>25. CASE UNCHANGED vars
  BY <1>25
<1>26. QED
  BY <1>1, <1>2, <1>3, <1>4, <1>5, <1>6, <1>7, <1>8, <1>9, <1>10, <1>11, <1>12, <1>13,
       <1>14, <1>15, <1>16, <1>17, <1>18, <1>19, <1>20, <1>21, <1>22, <1>23, <1>24, <1>25, Zenon
       DEF Next, ConnectStep, SocketStep, GetStep, PollStep, StopStep, PostStep

\* The invariant holds always.
LEMMA Invariant == Spec => []Inv
BY InitInv, NextInv, PTL DEF Spec

\* Every step is a step of the contract, or one it does not see.
LEMMA NextContract == Inv /\ [Next]_vars => [C!Next]_(C!vars)
<1> SUFFICES ASSUME Inv, [Next]_vars PROVE [C!Next]_(C!vars)
  OBVIOUS
<1> USE DEF Inv, TypeOK, FlagsOK, ValuesOK, ConnectInv, KindInv, SocketInv, PollInv,
        vars, config, sockVars, pollVars, outVars, C!vars, C!Live, C!Next,
        C!Connect, C!Resolve, C!Reject, C!Revive, C!Receive, C!Close, C!Stop
<1>1. CASE Connect
  BY <1>1 DEF Connect, dial
<1>2. CASE ConnectToken
  BY <1>2 DEF ConnectToken, dial, firstPoll
<1>3. CASE ConnectTokenFails
  BY <1>3 DEF ConnectTokenFails, settle
<1>4. CASE OnOpen
  BY <1>4 DEF OnOpen, settle
<1>5. CASE OnSocketError
  BY <1>5 DEF OnSocketError, settle
<1>6. CASE OnSocketClose
  BY <1>6 DEF OnSocketClose, settle, close
<1>7. CASE OnSourceError
  BY <1>7 DEF OnSourceError, settle, close
<1>8. CASE OnMessage
  BY <1>8 DEF OnMessage, close
<1>9. CASE GetHeaders
  BY <1>9 DEF GetHeaders
<1>10. CASE FirstPollFails
  BY <1>10 DEF FirstPollFails, settle, Failed
<1>11. ASSUME NEW ok \in BOOLEAN, FirstPollAnswered(ok) PROVE [C!Next]_(C!vars)
  BY <1>11 DEF FirstPollAnswered, settle, Answered, pollEnds
<1>12. ASSUME NEW ok \in BOOLEAN, NEW n \in {0, 1}, PollAnswered(ok, n) PROVE [C!Next]_(C!vars)
  BY <1>12 DEF PollAnswered, Answered, pollAgain, pollEnds
<1>13. ASSUME NEW timeout \in BOOLEAN, PollFails(timeout) PROVE [C!Next]_(C!vars)
  BY <1>13 DEF PollFails, Failed, pollAgain, pollEnds
<1>14. CASE PollToken
  BY <1>14 DEF PollToken, pollEnds
<1>15. CASE PollTokenFails
  BY <1>15 DEF PollTokenFails, pollEnds
<1>16. ASSUME NEW s \in Sends, Send(s) PROVE [C!Next]_(C!vars)
  BY <1>16 DEF Send, sendResult, sendMessage
<1>17. ASSUME NEW s \in Sends, NEW ok \in BOOLEAN, PostToken(s, ok) PROVE [C!Next]_(C!vars)
  BY <1>17 DEF PostToken
<1>18. ASSUME NEW s \in Sends, NEW ok \in BOOLEAN, PostAnswered(s, ok) PROVE [C!Next]_(C!vars)
  BY <1>18 DEF PostAnswered
<1>19. CASE StopSocket
  <2>1. /\ result = "resolved" /\ result' = "resolved"
        /\ closes = 0 /\ ~stopped /\ received' = received
    BY <1>19 DEF StopSocket, mayStop
  <2>2. CASE field /\ close
    <3>1. closes' = 1
      BY <2>1, <2>2 DEF close
    <3>2. stopped' = TRUE
      BY <1>19 DEF StopSocket
    <3>3. QED
      BY <2>1, <3>1, <3>2, Zenon
  <2>3. CASE UNCHANGED <<sockVars, closes>>
    BY <1>19, <2>1, <2>3, Zenon DEF StopSocket
  <2>4. QED
    BY <1>19, <2>2, <2>3, Zenon DEF StopSocket
<1>20. CASE StopPolling
  BY <1>20, Zenon DEF StopPolling, mayStop, abort
<1>21. CASE StopReceived
  BY <1>21 DEF StopReceived, stopEnds
<1>22. CASE StopToken
  BY <1>22 DEF StopToken
<1>23. CASE StopTokenFails
  BY <1>23 DEF StopTokenFails, stopEnds
<1>24. CASE DeleteAnswered
  BY <1>24 DEF DeleteAnswered, stopEnds
<1>25. CASE UNCHANGED vars
  BY <1>25
<1>26. QED
  BY <1>1, <1>2, <1>3, <1>4, <1>5, <1>6, <1>7, <1>8, <1>9, <1>10, <1>11, <1>12, <1>13,
       <1>14, <1>15, <1>16, <1>17, <1>18, <1>19, <1>20, <1>21, <1>22, <1>23, <1>24, <1>25, Zenon
       DEF Next, ConnectStep, SocketStep, GetStep, PollStep, StopStep, PostStep

\* The WebSocket, server-sent events and long polling transports keep the safety
\* part of the contract HttpConnection relies on (ITransport): onclose is called
\* at most once and nothing is delivered after it.
THEOREM KeepsContract == Spec => C!Safe
<1>1. Init => C!Init
  BY DEF Init, C!Init
<1>. QED
  BY <1>1, Invariant, NextContract, PTL DEF Spec, C!Safe

\* LongPollingTransport.stop sends its DELETE only when the polling loop has
\* ended, whatever is aborted, answered or thrown in between.
THEOREM DeleteAfterPolls == Spec => []PollsEndBeforeDelete
<1>1. Inv => PollsEndBeforeDelete
  BY DEF Inv, TypeOK, ValuesOK, ConnectInv, KindInv, PollInv, PollsEndBeforeDelete
<1>. QED
  BY <1>1, Invariant, PTL

\* No WebSocket stays open behind a connect that failed, and no socket of any
\* kind behind an onclose.
THEOREM SocketsOwned == Spec => []NoOrphanSocket
<1>1. Inv => NoOrphanSocket
  BY DEF Inv, TypeOK, ValuesOK, ConnectInv, KindInv, SocketInv, NoOrphanSocket
<1>. QED
  BY <1>1, Invariant, PTL

-----------------------------------------------------------------------------
(* Promises.                                                               *)

CONSTANTS MaxPromises, MaxCalls, MaxThenables
VARIABLES made, promiseKind, state, promiseResult, subscribers, foreign, queue, scheduled, index,
          remaining, entries, parent, called, calls, follows

P == INSTANCE JsPromise WITH kind <- promiseKind, result <- promiseResult

Fields == {"made", "kind", "state", "result", "subscribers", "foreign", "queue", "scheduled",
           "remaining", "called", "follows"}

IsHeap(s) == DOMAIN s = Fields /\ DOMAIN s.state = P!Promises /\ DOMAIN s.result = P!Promises

\* t is a heap in which every promise that has settled in s is as in s.
Keeps(s, t) ==
  /\ IsHeap(t)
  /\ \A p \in P!Promises : s.state[p] # "pending" => t.state[p] = s.state[p] /\ t.result[p] = s.result[p]

\* What is kept by two functions is kept by one after the other.
LEMMA KeepsTrans ==
  ASSUME NEW s, NEW t, NEW u, Keeps(s, t), Keeps(t, u)
  PROVE  Keeps(s, u)
  BY DEF Keeps

\* A change of the other fields keeps what has settled.
LEMMA KeepsSame ==
  ASSUME NEW s, NEW t, IsHeap(s), DOMAIN t = Fields, t.state = s.state, t.result = s.result
  PROVE  Keeps(s, t)
  BY DEF Keeps, IsHeap

\* asap changes the queue only.
LEMMA AsapKeeps ==
  ASSUME NEW s, NEW job, IsHeap(s)
  PROVE  Keeps(s, P!asap(s, job))
  BY DEF Keeps, IsHeap, Fields, P!asap

\* What a function has kept, asap keeps after it.
LEMMA AsapAfter ==
  ASSUME NEW s, NEW t, NEW job, Keeps(s, t)
  PROVE  Keeps(s, P!asap(t, job))
<1>1. Keeps(t, P!asap(t, job))
  BY AsapKeeps DEF Keeps
<1> QED
  BY <1>1, KeepsTrans

\* fulfill changes a pending promise only.
LEMMA FulfillKeeps ==
  ASSUME NEW s, NEW p, NEW v, IsHeap(s)
  PROVE  Keeps(s, P!fulfill(s, p, v))
<1>1. CASE s.state[p] # "pending"
  BY <1>1, KeepsSame DEF IsHeap, P!fulfill
<1>2. CASE s.state[p] = "pending"
  <2> DEFINE t == [s EXCEPT !.state[p] = "fulfilled", !.result[p] = v]
  <2>1. Keeps(s, t)
    BY <1>2 DEF Keeps, IsHeap, Fields
  <2>2. Keeps(s, P!asap(t, P!Job("publish", p, 0)))
    <3> HIDE DEF t
    <3> QED BY <2>1, AsapAfter
  <2> QED
    BY <1>2, <2>1, <2>2 DEF P!fulfill
<1> QED
  BY <1>1, <1>2

\* reject changes a pending promise only.
LEMMA RejectKeeps ==
  ASSUME NEW s, NEW p, NEW v, IsHeap(s)
  PROVE  Keeps(s, P!reject(s, p, v))
<1>1. CASE s.state[p] # "pending"
  BY <1>1, KeepsSame DEF IsHeap, P!reject
<1>2. CASE s.state[p] = "pending"
  <2> DEFINE t == [s EXCEPT !.state[p] = "rejected", !.result[p] = v]
  <2>1. Keeps(s, t)
    BY <1>2 DEF Keeps, IsHeap, Fields
  <2>2. Keeps(s, P!asap(t, P!Job("publish", p, 0)))
    <3> HIDE DEF t
    <3> QED BY <2>1, AsapAfter
  <2> QED
    BY <1>2, <2>2 DEF P!reject
<1> QED
  BY <1>1, <1>2

\* subscribe settles nothing.
LEMMA SubscribeKeeps ==
  ASSUME NEW s, NEW p, NEW b, IsHeap(s)
  PROVE  Keeps(s, P!subscribe(s, p, b))
<1> DEFINE t == [s EXCEPT !.subscribers[p] = Append(@, b)]
<1>1. Keeps(s, t)
  BY DEF Keeps, IsHeap, Fields
<1>2. Keeps(s, P!asap(t, P!Job("publish", p, 0)))
  <2> HIDE DEF t
  <2> QED BY <1>1, AsapAfter
<1> QED
  BY <1>1, <1>2 DEF P!subscribe

\* Passing an outcome on changes a pending promise only.
LEMMA SettleAsKeeps ==
  ASSUME NEW s, NEW p, NEW q, IsHeap(s)
  PROVE  Keeps(s, P!settleAs(s, p, q))
  BY FulfillKeeps, RejectKeeps DEF P!settleAs

\* And so does adopting the outcome of another promise.
LEMMA OwnThenableKeeps ==
  ASSUME NEW s, NEW p, NEW q, IsHeap(s)
  PROVE  Keeps(s, P!handleOwnThenable(s, p, q))
  BY SettleAsKeeps, SubscribeKeeps DEF P!handleOwnThenable

\* A foreign thenable is called later.
LEMMA ForeignThenableKeeps ==
  ASSUME NEW s, NEW p, IsHeap(s)
  PROVE  Keeps(s, P!handleForeignThenable(s, p))
<1> DEFINE t == [s EXCEPT !.foreign[p] = "queued"]
<1>1. Keeps(s, t)
  BY DEF Keeps, IsHeap, Fields
<1>2. Keeps(s, P!asap(t, P!Job("foreign", p, 0)))
  <2> HIDE DEF t
  <2> QED BY <1>1, AsapAfter
<1> QED
  BY <1>2 DEF P!handleForeignThenable

\* resolve changes a pending promise only, whatever it is called with.
LEMMA ResolveKeeps ==
  ASSUME NEW s, NEW p, NEW q, IsHeap(s)
  PROVE  Keeps(s, P!resolve(s, p, q))
<1> DEFINE t == [s EXCEPT !.follows[p] = IF @ = 0 THEN q ELSE @]
<1>1. Keeps(s, t)
  BY DEF Keeps, IsHeap, Fields
<1>2. Keeps(s, P!handleOwnThenable(t, p, q))
  <2> HIDE DEF t
  <2>1. Keeps(t, P!handleOwnThenable(t, p, q))
    BY <1>1, OwnThenableKeeps DEF Keeps
  <2> QED
    BY <1>1, <2>1, KeepsTrans
<1>3. Keeps(s, P!fulfill(s, p, p)) /\ Keeps(s, P!reject(s, p, p))
  BY FulfillKeeps, RejectKeeps
<1> QED
  BY <1>2, <1>3 DEF P!resolve

\* The call of a callback settles the promise of then at most.
LEMMA InvokeCallbackKeeps ==
  ASSUME NEW s, NEW p, NEW c, NEW out, IsHeap(s)
  PROVE  Keeps(s, P!invokeCallback(s, p, c, out))
<1> DEFINE t == [s EXCEPT !.called[c] = @ + 1]
<1>1. Keeps(s, t)
  BY DEF Keeps, IsHeap, Fields
<1>2. /\ Keeps(s, P!settleAs(t, c, p))
      /\ Keeps(s, P!reject(t, c, c))
      /\ Keeps(s, P!resolve(t, c, out.with))
  <2> HIDE DEF t
  <2>1. IsHeap(t)
    BY <1>1 DEF Keeps
  <2>2. /\ Keeps(t, P!settleAs(t, c, p))
        /\ Keeps(t, P!reject(t, c, c))
        /\ Keeps(t, P!resolve(t, c, out.with))
    BY <2>1, SettleAsKeeps, RejectKeeps, ResolveKeeps
  <2> QED
    BY <1>1, <2>2, KeepsTrans
<1> QED
  BY <1>2 DEF P!invokeCallback

\* An entry of Promise.all that settles changes the promise of all at most.
LEMMA SettledAtKeeps ==
  ASSUME NEW s, NEW a, NEW st, NEW v, IsHeap(s)
  PROVE  Keeps(s, P!settledAt(s, a, st, v))
<1> DEFINE u == [s EXCEPT !.remaining[a] = @ - 1]
           t == IF s.state[a] # "pending"
                THEN s
                ELSE IF st = "rejected" THEN P!reject(u, a, v) ELSE u
<1>1. Keeps(s, u)
  BY DEF Keeps, IsHeap, Fields
<1>2. Keeps(s, s)
  BY DEF Keeps
<1>3. Keeps(s, P!reject(u, a, v))
  <2> HIDE DEF u
  <2>1. Keeps(u, P!reject(u, a, v))
    BY <1>1, RejectKeeps DEF Keeps
  <2> QED
    BY <1>1, <2>1, KeepsTrans
<1>4. Keeps(s, t)
  <2> HIDE DEF u
  <2> QED BY <1>1, <1>2, <1>3
<1>5. Keeps(s, P!fulfill(t, a, a))
  <2> HIDE DEF t
  <2>1. Keeps(t, P!fulfill(t, a, a))
    BY <1>4, FulfillKeeps DEF Keeps
  <2> QED
    BY <1>4, <2>1, KeepsTrans
<1>6. P!settledAt(s, a, st, v) = IF t.remaining[a] = 0 THEN P!fulfill(t, a, a) ELSE t
  BY DEF P!settledAt
<1> QED
  <2> HIDE DEF t
  <2> QED BY <1>4, <1>5, <1>6

\* An entry that is pending gets a promise of its own.
LEMMA EachEntryKeeps ==
  ASSUME NEW s, NEW a, NEW q, IsHeap(s)
  PROVE  Keeps(s, P!eachEntry(s, a, q))
<1> DEFINE m == s.made + 1
           t == [P!makePromise(s, "entry") EXCEPT !.follows[m] = q]
           u == P!handleOwnThenable(t, m, q)
<1>1. Keeps(s, t)
  BY DEF Keeps, IsHeap, Fields, P!makePromise
<1>2. Keeps(s, u)
  <2> HIDE DEF t, m
  <2>1. Keeps(t, u)
    BY <1>1, OwnThenableKeeps DEF Keeps
  <2> QED
    BY <1>1, <2>1, KeepsTrans
<1>3. Keeps(s, P!willSettleAt(u, a, m))
  <2> HIDE DEF u, m
  <2>1. Keeps(u, P!willSettleAt(u, a, m))
    BY <1>2, SubscribeKeeps DEF Keeps, P!willSettleAt
  <2> QED
    BY <1>2, <2>1, KeepsTrans
<1>4. Keeps(s, P!settledAt(s, a, s.state[q], s.result[q]))
  BY SettledAtKeeps
<1> QED
  BY <1>3, <1>4 DEF P!eachEntry

\* Promise.all settles its own promise at most.
LEMMA EnumerateKeeps ==
  ASSUME NEW s, NEW a, NEW input, IsHeap(s)
  PROVE  Keeps(s, P!enumerate(s, a, input))
<1> DEFINE t == [s EXCEPT !.remaining[a] = 2]
           u == P!eachEntry(t, a, input[1])
           w == P!eachEntry(u, a, input[2])
<1>1. Keeps(s, t)
  BY DEF Keeps, IsHeap, Fields
<1>2. Keeps(s, u)
  <2> HIDE DEF t
  <2>1. Keeps(t, u)
    BY <1>1, EachEntryKeeps DEF Keeps
  <2> QED
    BY <1>1, <2>1, KeepsTrans
<1>3. Keeps(s, w)
  <2> HIDE DEF u
  <2>1. Keeps(u, w)
    BY <1>2, EachEntryKeeps DEF Keeps
  <2> QED
    BY <1>2, <2>1, KeepsTrans
<1>4. Keeps(s, P!fulfill(w, a, a))
  <2> HIDE DEF w
  <2>1. Keeps(w, P!fulfill(w, a, a))
    BY <1>3, FulfillKeeps DEF Keeps
  <2> QED
    BY <1>3, <2>1, KeepsTrans
<1>5. P!enumerate(s, a, input) = IF w.remaining[a] = 0 THEN P!fulfill(w, a, a) ELSE w
  BY DEF P!enumerate
<1> QED
  <2> HIDE DEF w
  <2> QED BY <1>3, <1>4, <1>5

\* What publish does for a subscriber changes pending promises only.
LEMMA NotifyKeeps ==
  ASSUME NEW s, NEW p, NEW b, NEW out, IsHeap(s)
  PROVE  Keeps(s, P!notify(s, p, b, out))
<1>1. /\ Keeps(s, P!invokeCallback(s, p, b.to, out))
      /\ Keeps(s, P!settleAs(s, b.to, p))
      /\ Keeps(s, P!settledAt(s, b.to, s.state[p], s.result[p]))
  BY InvokeCallbackKeeps, SettleAsKeeps, SettledAtKeeps
<1> QED
  BY <1>1 DEF P!notify

\* The end of a callback settles nothing.
LEMMA RanAfter ==
  ASSUME NEW s, NEW t, Keeps(s, t)
  PROVE  Keeps(s, P!ran(t))
<1>1. Keeps(t, P!ran(t))
  BY DEF Keeps, IsHeap, Fields, P!ran
<1> QED
  BY <1>1, KeepsTrans

-----------------------------------------------------------------------------

Domains == DOMAIN state = P!Promises /\ DOMAIN promiseResult = P!Promises

Settled == \A p \in P!Promises : state[p] # "pending" => state'[p] = state[p] /\ promiseResult'[p] = promiseResult[p]

\* A step to a heap that keeps what the current one has settled.
LEMMA BecomesKeeps ==
  ASSUME NEW s, Keeps(P!heap, s), P!Becomes(s)
  PROVE  Domains' /\ Settled
  BY DEF Keeps, IsHeap, P!Becomes, P!heap, Domains, Settled

\* Every step keeps what has settled: one step of the proof per action.
LEMMA StepKeeps ==
  ASSUME Domains, P!Next
  PROVE  Domains' /\ Settled
<1>1. IsHeap(P!heap)
  BY DEF Domains, IsHeap, P!heap, Fields
<1>2. ASSUME NEW k PROVE Keeps(P!heap, P!makePromise(P!heap, k))
  <2> DEFINE h == P!heap
  <2>1. IsHeap(h)
    BY <1>1
  <2> HIDE DEF h
  <2>2. Keeps(h, P!makePromise(h, k))
    BY <2>1 DEF Keeps, IsHeap, Fields, P!makePromise
  <2> QED
    BY <2>2 DEF h
<1>3. CASE P!Construct
  BY <1>2, <1>3, BecomesKeeps DEF P!Construct
<1>4. ASSUME NEW p, NEW q, P!resolvePromise(p, q) PROVE Domains' /\ Settled
  BY <1>1, <1>4, ResolveKeeps, BecomesKeeps DEF P!resolvePromise
<1>5. ASSUME NEW p, P!resolveWithThenable(p) PROVE Domains' /\ Settled
  BY <1>1, <1>5, ForeignThenableKeeps, BecomesKeeps DEF P!resolveWithThenable
<1>6. ASSUME NEW p, P!rejectPromise(p) PROVE Domains' /\ Settled
  BY <1>1, <1>6, RejectKeeps, BecomesKeeps DEF P!rejectPromise
<1>7. ASSUME NEW p, P!then(p) PROVE Domains' /\ Settled
  <2> DEFINE c == made + 1
             s == P!makePromise(P!heap, "then")
             t == P!asap(s, P!Job("invoke", p, c))
             u == P!subscribe(s, p, P!Subscriber("then", c))
  <2>1. Keeps(P!heap, s)
    BY <1>2
  <2>2. Keeps(P!heap, t) /\ Keeps(P!heap, u)
    <3> HIDE DEF s, c
    <3>1. Keeps(s, u)
      BY <2>1, SubscribeKeeps DEF Keeps
    <3> QED
      BY <2>1, <3>1, AsapAfter, KeepsTrans
  <2>3. P!Becomes(IF state[p] # "pending" THEN t ELSE u)
    BY <1>7 DEF P!then
  <2> HIDE DEF t, u
  <2> QED
    BY <2>2, <2>3, BecomesKeeps
<1>8. ASSUME NEW input, P!all(input) PROVE Domains' /\ Settled
  <2> DEFINE a == made + 1
             s == P!makePromise(P!heap, "all")
  <2>1. Keeps(P!heap, s)
    BY <1>2
  <2>2. Keeps(P!heap, P!enumerate(s, a, input))
    <3> HIDE DEF s, a
    <3>1. Keeps(s, P!enumerate(s, a, input))
      BY <2>1, EnumerateKeeps DEF Keeps
    <3> QED
      BY <2>1, <3>1, KeepsTrans
  <2>3. P!Becomes(P!enumerate(s, a, input))
    BY <1>8 DEF P!all
  <2> QED
    BY <2>2, <2>3, BecomesKeeps
<1>9. ASSUME NEW p, NEW x PROVE Keeps(P!heap, [P!heap EXCEPT !.foreign[p] = x])
  <2> DEFINE h == P!heap
  <2>1. IsHeap(h)
    BY <1>1
  <2> HIDE DEF h
  <2>2. Keeps(h, [h EXCEPT !.foreign[p] = x])
    BY <2>1 DEF Keeps, IsHeap, Fields
  <2> QED
    BY <2>2 DEF h
<1>10. ASSUME NEW p, P!ThenableSettles(p) PROVE Domains' /\ Settled
  <2> DEFINE s == [P!heap EXCEPT !.foreign[p] = "sealed"]
  <2>1. Keeps(P!heap, s)
    BY <1>9
  <2>2. (\E q \in 0..made : P!Becomes(P!resolve(s, p, q))) \/ P!Becomes(P!reject(s, p, p))
    BY <1>10 DEF P!ThenableSettles
  <2> HIDE DEF s
  <2>3. ASSUME NEW q PROVE Keeps(P!heap, P!resolve(s, p, q)) /\ Keeps(P!heap, P!reject(s, p, p))
    <3>1. Keeps(s, P!resolve(s, p, q)) /\ Keeps(s, P!reject(s, p, p))
      BY <2>1, ResolveKeeps, RejectKeeps DEF Keeps
    <3> QED
      BY <2>1, <3>1, KeepsTrans
  <2> QED
    BY <2>2, <2>3, BecomesKeeps
<1>11. ASSUME NEW out, P!publish(out) PROVE Domains' /\ Settled
  <2> DEFINE p == Head(queue).p
             s == P!notify(P!heap, p, subscribers[p][index + 1], out)
             t == [s EXCEPT !.subscribers[p] = <<>>]
  <2>1. Keeps(P!heap, P!heap) /\ Keeps(P!heap, s)
    <3>1. Keeps(P!heap, P!heap)
      BY <1>1 DEF Keeps
    <3>2. Keeps(P!heap, s)
      BY <1>1, NotifyKeeps, Zenon
    <3> QED
      BY <3>1, <3>2
  <2>2. P!Becomes(P!ran(P!heap)) \/ P!Becomes(s) \/ P!Becomes(P!ran(t))
    BY <1>11 DEF P!publish
  <2>3. Keeps(P!heap, t)
    <3> HIDE DEF s, p
    <3>1. Keeps(s, t)
      BY <2>1 DEF Keeps, IsHeap, Fields
    <3> QED
      BY <2>1, <3>1, KeepsTrans
  <2> HIDE DEF s, t
  <2>4. Keeps(P!heap, P!ran(P!heap)) /\ Keeps(P!heap, P!ran(t))
    BY <2>1, <2>3, RanAfter
  <2> QED
    BY <2>1, <2>2, <2>4, BecomesKeeps
<1>12. ASSUME NEW out, P!InvokeLater(out) PROVE Domains' /\ Settled
  <2> DEFINE s == P!invokeCallback(P!heap, Head(queue).p, Head(queue).c, out)
  <2>1. Keeps(P!heap, s)
    BY <1>1, InvokeCallbackKeeps
  <2>2. P!Becomes(P!ran(s))
    BY <1>12 DEF P!InvokeLater
  <2> HIDE DEF s
  <2> QED
    BY <2>1, <2>2, RanAfter, BecomesKeeps
<1>13. ASSUME P!CallThenable PROVE Domains' /\ Settled
  <2> DEFINE p == Head(queue).p
             s == P!ran(P!heap)
             t == [s EXCEPT !.foreign[p] = "open"]
             u == [s EXCEPT !.foreign[p] = "sealed"]
  <2>1. Keeps(P!heap, s)
    BY <1>1, RanAfter DEF Keeps
  <2>2. P!Becomes(t) \/ P!Becomes(P!reject(u, p, p))
    BY <1>13 DEF P!CallThenable
  <2>3. Keeps(P!heap, t) /\ Keeps(P!heap, u)
    <3> HIDE DEF s, p
    <3>1. Keeps(s, t) /\ Keeps(s, u)
      BY <2>1 DEF Keeps, IsHeap, Fields
    <3> QED
      BY <2>1, <3>1, KeepsTrans
  <2> HIDE DEF t, u, p
  <2>4. Keeps(u, P!reject(u, p, p))
    BY <2>3, RejectKeeps DEF Keeps
  <2> QED
    BY <2>2, <2>3, <2>4, KeepsTrans, BecomesKeeps
<1> QED
  BY <1>3, <1>4, <1>5, <1>6, <1>7, <1>8, <1>10, <1>11, <1>12, <1>13, Zenon DEF P!Next, P!flush

\* A promise that has settled keeps its state and its result, whatever its resolver,
\* the callbacks, the foreign thenables and the promises it waits for do later
\* (fulfill and reject, signalr.js:515-536).
THEOREM SettledForGood == P!Spec => P!SettledOnce
<1>1. P!Init => Domains
  BY DEF P!Init, Domains
<1>2. Domains /\ [P!Next]_(P!vars) => Domains' /\ [Settled]_(P!vars)
  <2>1. CASE P!Next
    BY <2>1, StepKeeps
  <2>2. CASE P!vars' = P!vars
    BY <2>2 DEF P!vars, Domains
  <2> QED
    BY <2>1, <2>2
<1> QED
  BY <1>1, <1>2, PTL DEF P!Spec, P!SettledOnce, Settled
=============================================================================
