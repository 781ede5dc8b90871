---------------------------- MODULE JsCallsProofs ----------------------------
(***************************************************************************)
(* Proofs about the calls of the JavaScript client (JsCalls), for every     *)
(* number of calls, of items, of disposals and of connections.             *)
(*                                                                         *)
(* The methods work on a heap, so the lemmas are about heaps: what a method *)
(* does to one, and that the three parts of the invariant hold of the heap  *)
(* that a step leaves.  RegInv is about ids and callbacks, ForgetInv about *)
(* the calls that are pending, StrandInv about the queues.                 *)
(***************************************************************************)
EXTENDS JsCalls, TLAPS

-----------------------------------------------------------------------------
(* What the methods do to the heap.                                        *)

CallState == [op : Ops, id : Nat, promise : {"none", "pending", "resolved", "rejected", "disposed"},
              answer : Calls \cup {NoCall}, late : BOOLEAN,
              msg : {"none", "pending", "resolved", "rejected", "done"},
              upload : {"none", "open", "ended"}, links : Nat, run : Nat,
              link : {"waits", "resolved", "pending", "rejected"},
              disposals : Nat, cancels : Nat]

Sendable == {m \in [c : Calls, what : {"call", "item", "end", "cancel"}, n : Nat] : m.what = "call" => m.n = 0}

QueueState == [at : {"none", "waits", "sends", "delivered", "ended"}, executing : BOOLEAN,
               signaled : BOOLEAN, buffer : Seq(Sendable), batch : Seq(Sendable)]

Heap == [callbacks : [Ids -> Calls \cup {NoCall}], call : [Calls -> CallState],
         queue : [Connections -> QueueState], ids : Nat]

\* HttpConnection.send changes nothing but the queue of the connection.
LEMMA SendEffect ==
  ASSUME NEW s \in Heap, NEW m \in Sendable, g \in Connections
  PROVE  /\ send(s, m) \in Heap
         /\ send(s, m).callbacks = s.callbacks /\ send(s, m).call = s.call /\ send(s, m).ids = s.ids
<1>1. ASSUME NEW q \in QueueState PROVE queueSend(q, m) \in QueueState
  <2>1. Append(q.buffer, m) \in Seq(Sendable)
    BY DEF QueueState
  <2>2. QED
    BY <2>1, Zenon DEF queueSend, QueueState
<1>2. s.queue[g] \in QueueState
  BY DEF Heap
<1>3. queueSend(s.queue[g], m) \in QueueState
  BY <1>1, <1>2
<1>4. QED
  BY <1>3 DEF send, Heap

\* delete callbacks[id] changes nothing but the entry of the call.
LEMMA UnregisterEffect ==
  ASSUME NEW s \in Heap, NEW c \in Calls
  PROVE  /\ unregister(s, c) \in Heap
         /\ unregister(s, c).call = s.call /\ unregister(s, c).queue = s.queue
         /\ unregister(s, c).ids = s.ids
         /\ unregister(s, c).callbacks = [s.callbacks EXCEPT ![s.call[c].id] = NoCall]
BY DEF unregister, Heap

\* A batch that settles tells the calls whose message is in it, and changes neither
\* their ids nor their results.
LEMMA SettleEffect ==
  ASSUME NEW s \in Heap, NEW batch \in Seq(Sendable), NEW r \in {"resolved", "rejected"}
  PROVE  /\ settle(s, batch, r) \in Heap
         /\ settle(s, batch, r).callbacks = s.callbacks /\ settle(s, batch, r).queue = s.queue
         /\ settle(s, batch, r).ids = s.ids
         /\ \A c \in Calls : LET new == settle(s, batch, r).call[c] IN
              /\ new.op = s.call[c].op /\ new.id = s.call[c].id /\ new.promise = s.call[c].promise
              /\ new.answer = s.call[c].answer /\ new.late = s.call[c].late
              /\ new.msg = IF Message(c, "call", 0) \in Range(batch) THEN r ELSE s.call[c].msg
<1> DEFINE has(c, whats) == \E i \in DOMAIN batch : batch[i].c = c /\ batch[i].what \in whats
           new(c) == [s.call[c] EXCEPT !.msg  = IF has(c, {"call"}) THEN r ELSE @,
                                       !.link = IF has(c, {"item", "end"}) THEN r ELSE @]
<1>1. settle(s, batch, r) = [s EXCEPT !.call = [c \in Calls |-> new(c)]]
  BY DEF settle
<1>2. ASSUME NEW c \in Calls PROVE has(c, {"call"}) <=> Message(c, "call", 0) \in Range(batch)
  BY DEF Message, Range, Sendable
<1> HIDE DEF has
<1>3. ASSUME NEW c \in Calls
      PROVE  /\ new(c) \in CallState
             /\ new(c).op = s.call[c].op /\ new(c).id = s.call[c].id /\ new(c).promise = s.call[c].promise
             /\ new(c).answer = s.call[c].answer /\ new(c).late = s.call[c].late
             /\ new(c).msg = IF Message(c, "call", 0) \in Range(batch) THEN r ELSE s.call[c].msg
  <2>1. s.call[c] \in CallState
    BY DEF Heap
  <2>2. QED
    BY <1>2, <2>1, Zenon DEF CallState
<1> HIDE DEF new
<1>4. s = [callbacks |-> s.callbacks, call |-> s.call, queue |-> s.queue, ids |-> s.ids]
  BY DEF Heap
<1>5. settle(s, batch, r) = [callbacks |-> s.callbacks, call |-> [c \in Calls |-> new(c)],
                             queue |-> s.queue, ids |-> s.ids]
  BY <1>1, <1>4
<1>6. [c \in Calls |-> new(c)] \in [Calls -> CallState]
  BY <1>3
<1>7. QED
  BY <1>3, <1>5, <1>6 DEF Heap

\* cancelCallbacksWithError empties callbacks, and ends every pending call that was there.
LEMMA CancelEffect ==
  ASSUME NEW s \in Heap
  PROVE  /\ cancelCallbacksWithError(s) \in Heap
         /\ cancelCallbacksWithError(s).queue = s.queue /\ cancelCallbacksWithError(s).ids = s.ids
         /\ cancelCallbacksWithError(s).callbacks = [i \in Ids |-> NoCall]
         /\ \A c \in Calls : LET new == cancelCallbacksWithError(s).call[c] IN
              /\ new.op = s.call[c].op /\ new.id = s.call[c].id /\ new.msg = s.call[c].msg
              /\ new.answer = s.call[c].answer /\ new.late = s.call[c].late
              /\ new.promise = "pending" => /\ s.call[c].promise = "pending"
                                            /\ \A i \in Ids : s.callbacks[i] # c
<1> DEFINE new(c) == IF \E i \in Ids : s.callbacks[i] = c /\ s.call[c].promise = "pending"
                     THEN [s.call[c] EXCEPT !.promise = "rejected"] ELSE s.call[c]
<1>1. ASSUME NEW c \in Calls
      PROVE  /\ new(c) \in CallState
             /\ new(c).op = s.call[c].op /\ new(c).id = s.call[c].id /\ new(c).msg = s.call[c].msg
             /\ new(c).answer = s.call[c].answer /\ new(c).late = s.call[c].late
             /\ new(c).promise = "pending" => /\ s.call[c].promise = "pending"
                                              /\ \A i \in Ids : s.callbacks[i] # c
  BY DEF Heap, CallState
<1>2. cancelCallbacksWithError(s) =
        [s EXCEPT !.callbacks = [i \in Ids |-> NoCall], !.call = [c \in Calls |-> new(c)]]
  BY DEF cancelCallbacksWithError
<1> HIDE DEF new
<1>3. s = [callbacks |-> s.callbacks, call |-> s.call, queue |-> s.queue, ids |-> s.ids]
  BY DEF Heap
<1>4. cancelCallbacksWithError(s) = [callbacks |-> [i \in Ids |-> NoCall], call |-> [c \in Calls |-> new(c)],
                                     queue |-> s.queue, ids |-> s.ids]
  BY <1>2, <1>3, Zenon
<1>5. [c \in Calls |-> new(c)] \in [Calls -> CallState]
  BY <1>1
<1>6. QED
  BY <1>1, <1>4, <1>5 DEF Heap

\* A step that has computed a heap makes it the next one.
LEMMA BecomesHeap ==
  ASSUME NEW s \in Heap, Becomes(s)
  PROVE  heap' = s
BY DEF Becomes, heap, Heap

-----------------------------------------------------------------------------
(* Ids and callbacks.                                                      *)

Expecting == {"invoke", "stream"}

\* Ids are taken from one counter and not used again; who is in callbacks waits
\* under its own id, and a stream there has not ended.
RegInv(s) ==
  /\ \A c \in Calls : s.call[c].op \in Expecting => s.call[c].id \in Ids /\ s.call[c].id < s.ids
  /\ \A c, d \in Calls : s.call[c].op \in Expecting /\ s.call[d].op \in Expecting
                           /\ s.call[c].id = s.call[d].id => c = d
  /\ \A i \in Ids : s.callbacks[i] # NoCall =>
       /\ s.call[s.callbacks[i]].op \in Expecting /\ s.call[s.callbacks[i]].id = i
       /\ s.call[s.callbacks[i]].op = "stream" => s.call[s.callbacks[i]].promise = "pending"
  /\ \A c \in Calls : s.call[c].answer \in {c, NoCall} /\ ~s.call[c].late

\* A step that changes no id, no callback and no promise of a registered stream
\* keeps the invariant.
LEMMA RegKept ==
  ASSUME NEW s \in Heap, NEW t \in Heap, RegInv(s), t.ids = s.ids,
         \A i \in Ids : t.callbacks[i] \in {s.callbacks[i], NoCall},
         \A c \in Calls :
           /\ t.call[c].op = s.call[c].op /\ t.call[c].id = s.call[c].id
           /\ t.call[c].answer \in {c, NoCall} /\ ~t.call[c].late
           /\ t.call[c].op = "stream" /\ t.call[c].promise # s.call[c].promise
                => \A i \in Ids : t.callbacks[i] # c
  PROVE  RegInv(t)
<1>2. \A i \in Ids : t.callbacks[i] # NoCall => t.callbacks[i] = s.callbacks[i] /\ t.callbacks[i] \in Calls
  BY DEF Heap
<1>3. ASSUME NEW i \in Ids, t.callbacks[i] # NoCall
      PROVE  /\ t.call[t.callbacks[i]].op \in Expecting /\ t.call[t.callbacks[i]].id = i
             /\ t.call[t.callbacks[i]].op = "stream" => t.call[t.callbacks[i]].promise = "pending"
  BY <1>2, <1>3 DEF RegInv
<1>4. QED
  BY <1>3 DEF RegInv

\* An invoke or stream that is pending is in callbacks and there is a connection,
\* unless its invocation was just not sent and CallSettled ends it next.
ForgetInv(s, st) ==
  \A c \in Calls :
    s.call[c].op \in Expecting /\ s.call[c].promise = "pending"
      => \/ s.callbacks[s.call[c].id] = c /\ st # "Disconnected"
         \/ s.call[c].msg = "rejected"

Invocation(c) == Message(c, "call", 0)

\* Only a loop that is sending has a batch; what is queued belongs to a call that
\* was made, and what is pending is queued.
StrandInv(s) ==
  /\ \A k \in Connections : s.queue[k].at \in {"none", "waits", "ended"} => s.queue[k].batch = <<>>
  /\ \A k \in Connections, c \in Calls :
       Invocation(c) \in Range(s.queue[k].batch) \cup Range(s.queue[k].buffer) => s.call[c].op # "none"
  /\ \A c \in Calls : s.call[c].op = "none" => s.call[c].msg = "none"
  /\ \A c \in Calls : s.call[c].msg = "pending" =>
       \E k \in Connections :
         \/ Invocation(c) \in Range(s.queue[k].batch)
         \/ Invocation(c) \in Range(s.queue[k].buffer) /\ s.queue[k].signaled

CallsInv ==
  /\ heap \in Heap /\ g \in Connections
  /\ RegInv(heap) /\ ForgetInv(heap, state) /\ StrandInv(heap)

-----------------------------------------------------------------------------
(* The queues.                                                             *)

\* What is appended is in the sequence, with what was there.
LEMMA AppendSet ==
  ASSUME NEW S, NEW q \in Seq(S), NEW m \in S
  PROVE  Range(Append(q, m)) = Range(q) \cup {m}
<1>1. /\ Append(q, m) \in Seq(S) /\ Len(Append(q, m)) = Len(q) + 1
      /\ \A i \in 1..Len(q) : Append(q, m)[i] = q[i]
      /\ Append(q, m)[Len(q) + 1] = m /\ Len(q) \in Nat
  OBVIOUS
<1>2. ASSUME NEW x \in Range(Append(q, m)) PROVE x \in Range(q) \cup {m}
  BY <1>1 DEF Range
<1>3. ASSUME NEW x \in Range(q) PROVE x \in Range(Append(q, m))
  BY <1>1 DEF Range
<1>4. m \in Range(Append(q, m))
  BY <1>1 DEF Range
<1>5. QED
  BY <1>2, <1>3, <1>4

\* A step that leaves the queues alone and makes no message pending strands nothing.
LEMMA StrandKept ==
  ASSUME NEW s \in Heap, NEW t \in Heap, StrandInv(s), t.queue = s.queue,
         \A c \in Calls : /\ t.call[c].op = s.call[c].op
                          /\ t.call[c].msg = "pending" => s.call[c].msg = "pending"
                          /\ s.call[c].msg = "none" => t.call[c].msg = "none"
  PROVE  StrandInv(t)
BY DEF StrandInv

\* So does a stop, which only signals the loop.
LEMMA StrandSame ==
  ASSUME NEW s, NEW t, StrandInv(s),
         \A k \in Connections :
           /\ t.queue[k].batch = s.queue[k].batch /\ t.queue[k].buffer = s.queue[k].buffer
           /\ t.queue[k].at = s.queue[k].at
           /\ s.queue[k].signaled => t.queue[k].signaled,
         \A c \in Calls : t.call[c].op = s.call[c].op /\ t.call[c].msg = s.call[c].msg
  PROVE  StrandInv(t)
<1>1. \A k \in Connections : t.queue[k].at \in {"none", "waits", "ended"} => t.queue[k].batch = <<>>
  BY DEF StrandInv
<1>2. \A k \in Connections, c \in Calls :
        Invocation(c) \in Range(t.queue[k].batch) \cup Range(t.queue[k].buffer) => t.call[c].op # "none"
  BY DEF StrandInv
<1>3. \A c \in Calls : t.call[c].op = "none" => t.call[c].msg = "none"
  BY DEF StrandInv
<1>4. ASSUME NEW c \in Calls, t.call[c].msg = "pending"
      PROVE  \E k \in Connections :
               \/ Invocation(c) \in Range(t.queue[k].batch)
               \/ Invocation(c) \in Range(t.queue[k].buffer) /\ t.queue[k].signaled
  BY <1>4 DEF StrandInv
<1>5. QED
  BY <1>1, <1>2, <1>3, <1>4 DEF StrandInv

\* TransportSendQueue.send signals the loop with the message: what becomes pending
\* with it is not stranded.
LEMMA StrandSend ==
  ASSUME NEW s \in Heap, NEW m \in Sendable, g \in Connections,
         \A k \in Connections : s.queue[k].at \in {"none", "waits", "ended"} => s.queue[k].batch = <<>>,
         \A k \in Connections, c \in Calls :
           Invocation(c) \in Range(s.queue[k].batch) \cup Range(s.queue[k].buffer) => s.call[c].op # "none",
         \A c \in Calls : s.call[c].op = "none" => s.call[c].msg = "none",
         \A c \in Calls : m = Invocation(c) => s.call[c].op # "none",
         \A c \in Calls : s.call[c].msg = "pending" =>
           \/ state = "Connected" /\ m = Invocation(c)
           \/ \E k \in Connections :
                \/ Invocation(c) \in Range(s.queue[k].batch)
                \/ Invocation(c) \in Range(s.queue[k].buffer) /\ s.queue[k].signaled
  PROVE  StrandInv(send(s, m))
<1> DEFINE t == send(s, m)
<1>1. t \in Heap /\ t.call = s.call
  BY SendEffect
<1>2. CASE state # "Connected"
  <2>1. t = s
    BY <1>2 DEF send
  <2>2. QED
    BY <1>2, <2>1 DEF StrandInv
<1>3. CASE state = "Connected"
  <2>1. s.queue[g] \in QueueState /\ s.queue[g].buffer \in Seq(Sendable)
    BY DEF Heap, QueueState
  <2>2. t.queue = [s.queue EXCEPT ![g] = queueSend(s.queue[g], m)]
    BY <1>3 DEF send, Heap
  <2>3. ASSUME NEW k \in Connections, k # g PROVE t.queue[k] = s.queue[k]
    BY <2>2, <2>3 DEF Heap
  <2>4. t.queue[g] = queueSend(s.queue[g], m)
    BY <2>2 DEF Heap
  <2>5. /\ t.queue[g].batch = s.queue[g].batch /\ t.queue[g].signaled
        /\ t.queue[g].buffer = Append(s.queue[g].buffer, m)
        /\ t.queue[g].at \in {"none", "waits", "ended"} => s.queue[g].at \in {"none", "waits", "ended"}
    BY <2>1, <2>4 DEF queueSend, QueueState
  <2>6. Range(t.queue[g].buffer) = Range(s.queue[g].buffer) \cup {m}
    BY <2>1, <2>5, AppendSet
  <2> HIDE DEF t
  <2>7. \A k \in Connections : t.queue[k].at \in {"none", "waits", "ended"} => t.queue[k].batch = <<>>
    BY <2>3, <2>5
  <2>8. ASSUME NEW k \in Connections, NEW c \in Calls,
               Invocation(c) \in Range(t.queue[k].batch) \cup Range(t.queue[k].buffer)
        PROVE  t.call[c].op # "none"
    BY <1>1, <2>3, <2>5, <2>6, <2>8, Zenon
  <2>9. ASSUME NEW c \in Calls, t.call[c].msg = "pending"
        PROVE  \E k \in Connections :
                 \/ Invocation(c) \in Range(t.queue[k].batch)
                 \/ Invocation(c) \in Range(t.queue[k].buffer) /\ t.queue[k].signaled
    <3>1. s.call[c].msg = "pending"
      BY <1>1, <2>9
    <3>2. CASE m = Invocation(c)
      BY <3>2, <2>5, <2>6, Zenon
    <3>3. CASE \E k \in Connections :
                 \/ Invocation(c) \in Range(s.queue[k].batch)
                 \/ Invocation(c) \in Range(s.queue[k].buffer) /\ s.queue[k].signaled
      BY <3>3, <2>3, <2>5, <2>6, Zenon
    <3>4. QED
      BY <3>1, <3>2, <3>3
  <2>10. QED
    BY <1>1, <2>7, <2>8, <2>9 DEF StrandInv, t
<1>4. QED
  BY <1>2, <1>3

\* A message of an upload, or a cancelation, strands no invocation.
LEMMA StrandOther ==
  ASSUME NEW s \in Heap, StrandInv(s), g \in Connections, NEW c \in Calls, NEW n \in Nat,
         NEW what \in {"item", "end", "cancel"}
  PROVE  /\ Message(c, what, n) \in Sendable
         /\ StrandInv(send(s, Message(c, what, n)))
<1>1. Message(c, what, n) \in Sendable
  BY DEF Message, Sendable
<1>2. \A d \in Calls : Message(c, what, n) # Invocation(d)
  BY DEF Message, Invocation
<1>3. QED
  BY <1>1, <1>2, StrandSend DEF StrandInv

\* A batch that settles leaves pending only what is in another one.
LEMMA StrandSettle ==
  ASSUME NEW s \in Heap, NEW k \in Connections, StrandInv(s), NEW r \in {"resolved", "rejected"},
         NEW batch \in Seq(Sendable), NEW q \in QueueState,
         q.at \in {"none", "waits", "ended"} => q.batch = <<>>,
         Range(q.batch) \subseteq Range(s.queue[k].batch),
         q.buffer = s.queue[k].buffer, q.signaled = s.queue[k].signaled,
         Range(s.queue[k].batch) \subseteq Range(q.batch) \cup Range(batch),
         Range(batch) \subseteq Range(s.queue[k].batch) \cup Range(s.queue[k].buffer),
         NEW u \in Heap, u.queue = [s.queue EXCEPT ![k] = q], u.call = s.call
  PROVE  StrandInv(settle(u, batch, r))
<1> DEFINE t == settle(u, batch, r)
<1>1. /\ t \in Heap /\ t.queue = u.queue
      /\ \A c \in Calls : /\ t.call[c].op = s.call[c].op
                          /\ t.call[c].msg = IF Invocation(c) \in Range(batch) THEN r ELSE s.call[c].msg
  BY SettleEffect DEF Invocation
<1> HIDE DEF t
<1>2. t.queue[k] = q /\ \A j \in Connections : j # k => t.queue[j] = s.queue[j]
  BY <1>1 DEF Heap
<1>3. \A j \in Connections : t.queue[j].at \in {"none", "waits", "ended"} => t.queue[j].batch = <<>>
  BY <1>2 DEF StrandInv
<1>4. ASSUME NEW j \in Connections, NEW c \in Calls,
             Invocation(c) \in Range(t.queue[j].batch) \cup Range(t.queue[j].buffer)
      PROVE  t.call[c].op # "none"
  BY <1>1, <1>2, <1>4 DEF StrandInv
<1>5. ASSUME NEW c \in Calls, t.call[c].op = "none" PROVE t.call[c].msg = "none"
  BY <1>1, <1>5 DEF StrandInv
<1>6. ASSUME NEW c \in Calls, t.call[c].msg = "pending"
      PROVE  \E j \in Connections :
               \/ Invocation(c) \in Range(t.queue[j].batch)
               \/ Invocation(c) \in Range(t.queue[j].buffer) /\ t.queue[j].signaled
  <2>1. s.call[c].msg = "pending" /\ Invocation(c) \notin Range(batch)
    BY <1>1, <1>6
  <2>2. PICK j \in Connections :
          \/ Invocation(c) \in Range(s.queue[j].batch)
          \/ Invocation(c) \in Range(s.queue[j].buffer) /\ s.queue[j].signaled
    BY <2>1 DEF StrandInv
  <2>3. QED
    BY <1>2, <2>1, <2>2
<1>7. QED
  BY <1>3, <1>4, <1>5, <1>6 DEF StrandInv, t

-----------------------------------------------------------------------------
(* The steps.                                                              *)

\* The heap as Call leaves it before it sends, and the id of the call.
Made(c, op, upload) ==
  [register(createInvocation(replaceStreamingParams(heap, upload), c, op), c, op)
     EXCEPT !.call[c].op = op, !.call[c].promise = "pending", !.call[c].msg = sendResult,
            !.call[c].upload = IF upload THEN "open" ELSE "none"]
NewId(upload) == IF upload THEN invocationId + 1 ELSE invocationId

\* What Call writes to the closures of a call.
Fill(s, c, op, m, u) ==
  [s EXCEPT !.call[c].op = op, !.call[c].promise = "pending", !.call[c].msg = m, !.call[c].upload = u]

\* Call changes only the call it makes, and not its id or answer.
LEMMA MadeEffect ==
  ASSUME NEW s \in Heap, NEW c \in Calls, NEW op \in Ops, NEW m \in {"pending", "rejected"}, NEW u \in {"none", "open"}
  PROVE  LET t == Fill(s, c, op, m, u) IN
         /\ t \in Heap /\ t.queue = s.queue /\ t.callbacks = s.callbacks /\ t.ids = s.ids
         /\ t.call[c].op = op /\ t.call[c].promise = "pending" /\ t.call[c].msg = m
         /\ t.call[c].id = s.call[c].id
         /\ t.call[c].answer = s.call[c].answer /\ t.call[c].late = s.call[c].late
<1> DEFINE x == s.call[c]
           y == [x EXCEPT !.op = op, !.promise = "pending", !.msg = m, !.upload = u]
           t == Fill(s, c, op, m, u)
<1>1. x \in CallState
  BY DEF Heap
<1>2. /\ y \in CallState /\ y.op = op /\ y.promise = "pending" /\ y.msg = m /\ y.id = x.id
      /\ y.answer = x.answer /\ y.late = x.late
  BY <1>1, Zenon DEF CallState
<1>3. s.call \in [Calls -> CallState]
  BY DEF Heap
<1>4. t = [s EXCEPT !.call = [s.call EXCEPT ![c] = y]]
  BY <1>1, <1>3, Zenon DEF Heap, Fill
<1> HIDE DEF y
<1>5. [s.call EXCEPT ![c] = y] \in [Calls -> CallState]
  BY <1>2, <1>3
<1>6. /\ t \in Heap /\ t.queue = s.queue /\ t.callbacks = s.callbacks /\ t.ids = s.ids
      /\ t.call = [s.call EXCEPT ![c] = y]
  BY <1>4, <1>5 DEF Heap
<1>7. t.call[c] = y
  BY <1>3, <1>6
<1>8. QED
  BY <1>2, <1>6, <1>7

\* Call changes no other call.
LEMMA MadeOthers ==
  ASSUME NEW s \in Heap, NEW c \in Calls, NEW op \in Ops, NEW m \in {"pending", "rejected"}, NEW u \in {"none", "open"},
         NEW d \in Calls, d # c
  PROVE  Fill(s, c, op, m, u).call[d] = s.call[d]
BY DEF Fill, Heap

\* Call gives an invoke or a stream the next id and its callback.
LEMMA CallEffect ==
  ASSUME CallsInv, NEW c \in Calls, NEW op \in Ops \ {"none"}, NEW upload \in BOOLEAN,
         invocationId + 2 <= MaxIds
  PROVE  LET t == Made(c, op, upload)
             n == NewId(upload) IN
         /\ n \in Ids /\ n >= invocationId /\ n <= invocationId + 1
         /\ t \in Heap /\ t.queue = queue
         /\ \A d \in Calls : d # c => t.call[d] = call[d]
         /\ t.call[c].op = op /\ t.call[c].promise = "pending" /\ t.call[c].msg = sendResult
         /\ t.call[c].answer = call[c].answer /\ t.call[c].late = call[c].late
         /\ op = "send" => t.ids = n /\ t.callbacks = callbacks
         /\ op # "send" => /\ t.ids = n + 1 /\ t.call[c].id = n
                           /\ t.callbacks = [callbacks EXCEPT ![n] = c]
<1> DEFINE n == NewId(upload)
           s1 == replaceStreamingParams(heap, upload)
           s2 == createInvocation(s1, c, op)
           s3 == register(s2, c, op)
           t  == Made(c, op, upload)
           u  == IF upload THEN "open" ELSE "none"
<1>1. heap \in Heap /\ invocationId \in Nat /\ heap.ids = invocationId /\ heap.call = call
        /\ heap.callbacks = callbacks /\ heap.queue = queue
  BY DEF CallsInv, Heap, heap
<1>2. n \in Ids /\ n >= invocationId /\ n <= invocationId + 1 /\ n \in Nat
  BY <1>1, BoundsAssumption DEF NewId, Ids
<1>3. s1 = [callbacks |-> callbacks, call |-> call, queue |-> queue, ids |-> n] /\ s1 \in Heap
  BY <1>1, <1>2 DEF replaceStreamingParams, NewId, heap, Heap
<1>4. sendResult \in {"pending", "rejected"}
  BY DEF sendResult
<1>u. u \in {"none", "open"} /\ op \in Ops
  OBVIOUS
<1> HIDE DEF n, s1
<1>5. CASE op = "send"
  <2>1. s3 = s1
    BY <1>5 DEF createInvocation, register
  <2>2. t = Fill(s1, c, op, sendResult, u)
    BY <2>1 DEF Made, s1, Fill
  <2>3. s1.queue = queue /\ s1.callbacks = callbacks /\ s1.ids = n /\ s1.call = call
    BY <1>3
  <2> HIDE DEF t, u
  <2>4. /\ t \in Heap /\ t.queue = s1.queue /\ t.callbacks = s1.callbacks /\ t.ids = s1.ids
        /\ t.call[c].op = op /\ t.call[c].promise = "pending" /\ t.call[c].msg = sendResult
        /\ t.call[c].answer = s1.call[c].answer /\ t.call[c].late = s1.call[c].late
    BY <1>3, <1>4, <1>u, <2>2, MadeEffect
  <2>5. \A d \in Calls : d # c => t.call[d] = call[d]
    BY <1>3, <1>4, <1>u, <2>2, <2>3, MadeOthers
  <2>6. QED
    BY <1>2, <1>5, <2>3, <2>4, <2>5 DEF n, t
<1>6. CASE op # "send"
  <2>1. s2 = [s1 EXCEPT !.call[c].id = s1.ids, !.ids = @ + 1]
    BY <1>6 DEF createInvocation, createStreamInvocation, Ops
  <2>2. /\ s2 \in Heap /\ s2.callbacks = callbacks /\ s2.queue = queue /\ s2.ids = n + 1
        /\ s2.call[c].id = n /\ s2.call = [call EXCEPT ![c].id = n]
    <3>1. call \in [Calls -> CallState] /\ call[c] \in CallState
      BY <1>1 DEF Heap
    <3>2. [call[c] EXCEPT !.id = n] \in CallState /\ [call[c] EXCEPT !.id = n].id = n
      BY <1>2, <3>1 DEF CallState
    <3>3. /\ [call EXCEPT ![c].id = n] \in [Calls -> CallState]
          /\ [call EXCEPT ![c].id = n][c].id = n
      BY <3>1, <3>2
    <3>4. s2 = [callbacks |-> callbacks, call |-> [call EXCEPT ![c].id = n], queue |-> queue, ids |-> n + 1]
      BY <1>3, <2>1, Zenon
    <3>5. callbacks \in [Ids -> Calls \cup {NoCall}] /\ queue \in [Connections -> QueueState]
      BY <1>1 DEF Heap
    <3> HIDE DEF s2
    <3>6. s2.callbacks = callbacks /\ s2.queue = queue /\ s2.ids = n + 1 /\ s2.call = [call EXCEPT ![c].id = n]
      BY <3>4
    <3>7. s2 \in Heap
      BY <1>2, <3>3, <3>4, <3>5 DEF Heap
    <3>8. QED
      BY <3>3, <3>6, <3>7
  <2> HIDE DEF s2
  <2>3. s3 = [s2 EXCEPT !.callbacks[n] = c]
    BY <1>6, <2>2 DEF register
  <2>4. /\ s3 \in Heap /\ s3.callbacks = [callbacks EXCEPT ![n] = c] /\ s3.queue = queue
        /\ s3.ids = n + 1 /\ s3.call = [call EXCEPT ![c].id = n]
    BY <1>2, <2>2, <2>3 DEF Heap
  <2> HIDE DEF s3
  <2>5. t = Fill(s3, c, op, sendResult, u)
    BY DEF Made, s1, s2, s3, Fill
  <2>6. s3.call[c] \in CallState /\ s3.call[c].id = n /\ s3.call[c].answer = call[c].answer
          /\ s3.call[c].late = call[c].late /\ \A d \in Calls : d # c => s3.call[d] = call[d]
    BY <1>1, <2>4 DEF Heap, CallState
  <2> HIDE DEF t, u
  <2>7. /\ t \in Heap /\ t.queue = s3.queue /\ t.callbacks = s3.callbacks /\ t.ids = s3.ids
        /\ t.call[c].op = op /\ t.call[c].promise = "pending" /\ t.call[c].msg = sendResult
        /\ t.call[c].id = s3.call[c].id
        /\ t.call[c].answer = s3.call[c].answer /\ t.call[c].late = s3.call[c].late
    <3>1. s3 \in Heap
      BY <2>4
    <3>2. QED
      BY <1>4, <1>u, <2>5, <3>1, MadeEffect
  <2>8. \A d \in Calls : d # c => t.call[d] = call[d]
    <3>1. s3 \in Heap
      BY <2>4
    <3>2. \A d \in Calls : d # c => t.call[d] = s3.call[d]
      BY <1>4, <1>u, <2>5, <3>1, MadeOthers
    <3>3. QED
      BY <2>6, <3>2
  <2>9. QED
    BY <1>2, <1>6, <2>4, <2>6, <2>7, <2>8 DEF n, t
<1>7. QED
  BY <1>5, <1>6

\* A call of the application.
LEMMA CallStep ==
  ASSUME CallsInv, NEW c \in Calls, NEW op \in Ops \ {"none"}, NEW upload \in BOOLEAN, Call(c, op, upload)
  PROVE  CallsInv'
<1> DEFINE t == Made(c, op, upload)
           n == NewId(upload)
           s == send(t, Invocation(c))
<1>0. /\ call[c].op = "none" /\ invocationId + 2 <= MaxIds
      /\ UNCHANGED <<state, g, wire>> /\ Becomes(s)
  BY DEF Call, Made, Invocation
<1>1. heap \in Heap /\ g \in Connections /\ RegInv(heap) /\ ForgetInv(heap, state) /\ StrandInv(heap)
        /\ heap.ids = invocationId /\ heap.call = call /\ heap.callbacks = callbacks /\ heap.queue = queue
  BY DEF CallsInv, heap
<1>2. /\ n \in Ids /\ n >= invocationId /\ n <= invocationId + 1
      /\ t \in Heap /\ t.queue = queue
      /\ \A d \in Calls : d # c => t.call[d] = call[d]
      /\ t.call[c].op = op /\ t.call[c].promise = "pending" /\ t.call[c].msg = sendResult
      /\ t.call[c].answer = call[c].answer /\ t.call[c].late = call[c].late
      /\ op = "send" => t.ids = n /\ t.callbacks = callbacks
      /\ op # "send" => /\ t.ids = n + 1 /\ t.call[c].id = n
                        /\ t.callbacks = [callbacks EXCEPT ![n] = c]
  BY <1>0, CallEffect
<1> HIDE DEF t, n
<1>3. Invocation(c) \in Sendable
  BY DEF Invocation, Message, Sendable
<1>4. s \in Heap /\ s.callbacks = t.callbacks /\ s.call = t.call /\ s.ids = t.ids
  BY <1>1, <1>2, <1>3, SendEffect
<1>5. heap' = s
  BY <1>0, <1>4, BecomesHeap
<1>6. n \in Nat /\ invocationId \in Nat /\ n < n + 1
  BY <1>1, <1>2 DEF Ids, Heap
<1>7. RegInv(t)
  <2>2. ASSUME NEW d \in Calls, t.call[d].op \in Expecting
        PROVE  t.call[d].id \in Ids /\ t.call[d].id < t.ids /\ (d # c => t.call[d].id < n)
    <3>1. CASE d = c
      BY <1>2, <1>6, <2>2, <3>1 DEF Expecting
    <3>2. CASE d # c
      <4>1. call[d].op \in Expecting /\ t.call[d] = call[d]
        BY <1>2, <2>2, <3>2
      <4>2. call[d].id \in Ids /\ call[d].id < invocationId /\ call[d].id \in Nat
        BY <1>1, <4>1 DEF RegInv, Ids
      <4>3. QED
        BY <1>2, <1>6, <4>1, <4>2
    <3>3. QED
      BY <3>1, <3>2
  <2>3. ASSUME NEW d \in Calls, NEW e \in Calls, t.call[d].op \in Expecting, t.call[e].op \in Expecting,
               t.call[d].id = t.call[e].id
        PROVE  d = e
    <3>1. CASE d # c /\ e # c
      BY <1>1, <1>2, <2>3, <3>1 DEF RegInv
    <3>2. CASE d = c /\ e # c
      <4>1. t.call[e].id < n /\ t.call[d].id = n
        BY <1>2, <2>2, <2>3, <3>2 DEF Expecting
      <4>2. QED
        BY <4>1, <2>3, <1>6
    <3>3. CASE d # c /\ e = c
      <4>1. t.call[d].id < n /\ t.call[e].id = n
        BY <1>2, <2>2, <2>3, <3>3 DEF Expecting
      <4>2. QED
        BY <4>1, <2>3, <1>6
    <3>4. QED
      BY <3>1, <3>2, <3>3
  <2>4. ASSUME NEW i \in Ids, t.callbacks[i] # NoCall
        PROVE  /\ t.call[t.callbacks[i]].op \in Expecting /\ t.call[t.callbacks[i]].id = i
               /\ t.call[t.callbacks[i]].op = "stream" => t.call[t.callbacks[i]].promise = "pending"
    <3>1. CASE op # "send" /\ i = n
      <4>1. t.callbacks[i] = c
        BY <1>1, <1>2, <3>1 DEF Heap
      <4>2. QED
        BY <1>2, <3>1, <4>1 DEF Expecting, Ops
    <3>2. CASE op = "send" \/ i # n
      <4>1. t.callbacks[i] = callbacks[i] /\ callbacks[i] \in Calls
        BY <1>1, <1>2, <2>4, <3>2 DEF Heap
      <4>2. call[callbacks[i]].op \in Expecting
        BY <1>1, <2>4, <4>1 DEF RegInv
      <4>3. callbacks[i] # c
        BY <1>0, <4>2 DEF Expecting
      <4>4. t.call[t.callbacks[i]] = call[callbacks[i]]
        BY <1>2, <4>1, <4>3
      <4>5. QED
        BY <1>1, <2>4, <4>1, <4>4 DEF RegInv
    <3>3. QED
      BY <3>1, <3>2
  <2>5. ASSUME NEW d \in Calls PROVE t.call[d].answer \in {d, NoCall} /\ ~t.call[d].late
    BY <1>1, <1>2 DEF RegInv
  <2>6. QED
    BY <2>2, <2>3, <2>4, <2>5 DEF RegInv
<1>8. RegInv(s)
  <2>1. \A i \in Ids : s.callbacks[i] \in {t.callbacks[i], NoCall}
    BY <1>4
  <2>2. \A d \in Calls : s.call[d].answer \in {d, NoCall} /\ ~s.call[d].late
    BY <1>4, <1>7 DEF RegInv
  <2>3. QED
    BY <1>2, <1>4, <1>7, <2>1, <2>2, RegKept
<1>9. ForgetInv(s, state)
  <2> SUFFICES ASSUME NEW d \in Calls, t.call[d].op \in Expecting, t.call[d].promise = "pending"
               PROVE  \/ t.callbacks[t.call[d].id] = d /\ state # "Disconnected"
                      \/ t.call[d].msg = "rejected"
    BY <1>4 DEF ForgetInv
  <2>1. CASE d = c
    <3>1. t.callbacks[n] = c /\ t.call[c].id = n
      BY <1>1, <1>2, <2>1 DEF Heap, Expecting
    <3>2. QED
      BY <1>2, <2>1, <3>1 DEF sendResult
  <2>2. CASE d # c
    <3>1. t.call[d] = call[d]
      BY <1>2, <2>2
    <3>2. call[d].id \in Ids /\ call[d].id < invocationId
      BY <1>1, <3>1 DEF RegInv
    <3>3. call[d].id # n
      BY <1>2, <1>6, <3>2 DEF Ids
    <3>4. t.callbacks[call[d].id] = callbacks[call[d].id]
      BY <1>1, <1>2, <3>2, <3>3 DEF Heap
    <3>5. QED
      BY <1>1, <3>1, <3>4 DEF ForgetInv
  <2>3. QED
    BY <2>1, <2>2
<1>10. StrandInv(s)
  <2>1. \A d \in Calls : d # c => ~(Invocation(c) = Invocation(d))
    BY DEF Invocation, Message
  <2>2. \A k \in Connections, d \in Calls :
           Invocation(d) \in Range(t.queue[k].batch) \cup Range(t.queue[k].buffer) => t.call[d].op # "none"
    BY <1>1, <1>2 DEF StrandInv
  <2>3. \A d \in Calls : t.call[d].op = "none" => t.call[d].msg = "none"
    BY <1>1, <1>2 DEF StrandInv
  <2>4. \A d \in Calls : t.call[d].msg = "pending" =>
           \/ state = "Connected" /\ Invocation(c) = Invocation(d)
           \/ \E k \in Connections :
                \/ Invocation(d) \in Range(t.queue[k].batch)
                \/ Invocation(d) \in Range(t.queue[k].buffer) /\ t.queue[k].signaled
    BY <1>1, <1>2 DEF StrandInv, sendResult
  <2>5. \A k \in Connections : t.queue[k].at \in {"none", "waits", "ended"} => t.queue[k].batch = <<>>
    BY <1>1, <1>2 DEF StrandInv
  <2>6. \A d \in Calls : Invocation(c) = Invocation(d) => t.call[d].op # "none"
    BY <1>2, <2>1
  <2>7. QED
    BY <1>1, <1>2, <1>3, <2>2, <2>3, <2>4, <2>5, <2>6, StrandSend
<1>11. QED
  BY <1>0, <1>1, <1>4, <1>5, <1>8, <1>9, <1>10 DEF CallsInv

\* A method changes the closures of one call, and perhaps callbacks.
Changed(s, t, c) ==
  /\ t.queue = s.queue /\ t.ids = s.ids
  /\ t.call[c].op = s.call[c].op /\ t.call[c].id = s.call[c].id
  /\ \A d \in Calls : d # c => t.call[d] = s.call[d]

Set(s, c, y) == [s EXCEPT !.call[c] = y]

\* An assignment to what the closures of a call hold.
LEMMA SetChanged ==
  ASSUME NEW s \in Heap, NEW c \in Calls, NEW y \in CallState, y.op = s.call[c].op, y.id = s.call[c].id
  PROVE  /\ Set(s, c, y) \in Heap /\ Changed(s, Set(s, c, y), c)
         /\ Set(s, c, y).callbacks = s.callbacks /\ Set(s, c, y).call[c] = y
<1>1. s.call \in [Calls -> CallState]
  BY DEF Heap
<1>2. [s.call EXCEPT ![c] = y] \in [Calls -> CallState]
  BY <1>1
<1>3. /\ Set(s, c, y) \in Heap /\ Set(s, c, y).callbacks = s.callbacks /\ Set(s, c, y).queue = s.queue
      /\ Set(s, c, y).ids = s.ids /\ Set(s, c, y).call = [s.call EXCEPT ![c] = y]
  BY <1>2 DEF Set, Heap
<1>4. QED
  BY <1>1, <1>3 DEF Changed

\* resolve, reject, complete and error change no other call.
LEMMA EndsChanged ==
  ASSUME NEW s \in Heap, NEW c \in Calls, NEW how \in {"resolved", "rejected", "disposed"}
  PROVE  LET t == ends(s, c, how) IN
         /\ t \in Heap /\ Changed(s, t, c) /\ t.callbacks = s.callbacks
         /\ t.call[c].promise = IF s.call[c].promise = "pending" THEN how ELSE s.call[c].promise
         /\ t.call[c].msg = s.call[c].msg /\ t.call[c].answer = s.call[c].answer
         /\ t.call[c].late = s.call[c].late
<1> DEFINE p == IF s.call[c].promise = "pending" THEN how ELSE s.call[c].promise
           y == [s.call[c] EXCEPT !.promise = p]
<1>1. s.call \in [Calls -> CallState] /\ s.call[c] \in CallState
  BY DEF Heap
<1>2. ends(s, c, how) = Set(s, c, y)
  BY <1>1 DEF ends, Set, Heap, CallState
<1>3. p \in {"none", "pending", "resolved", "rejected", "disposed"}
  BY <1>1 DEF CallState
<1> HIDE DEF p
<1>4. /\ y \in CallState /\ y.op = s.call[c].op /\ y.id = s.call[c].id /\ y.promise = p
      /\ y.msg = s.call[c].msg /\ y.answer = s.call[c].answer /\ y.late = s.call[c].late
  BY <1>1, <1>3 DEF CallState
<1> HIDE DEF y
<1>5. QED
  BY <1>2, <1>4, SetChanged DEF p

\* Taking a callback away changes no call.
LEMMA UnregisterChanged ==
  ASSUME NEW s \in Heap, NEW c \in Calls
  PROVE  LET t == unregister(s, c) IN
         /\ t \in Heap /\ Changed(s, t, c) /\ t.call[c] = s.call[c]
         /\ t.callbacks = [s.callbacks EXCEPT ![s.call[c].id] = NoCall]
BY UnregisterEffect DEF Changed

\* One change after the other.
LEMMA ChangedAgain ==
  ASSUME NEW s, NEW t, NEW u, NEW c \in Calls, Changed(s, t, c), Changed(t, u, c)
  PROVE  Changed(s, u, c)
BY DEF Changed

\* A method that ends or goes on with one call keeps the invariant if it takes a call
\* that it ends from callbacks, and no other one.
LEMMA ChangedInv ==
  ASSUME CallsInv, NEW c \in Calls, NEW t \in Heap, Changed(heap, t, c),
         \A i \in Ids : t.callbacks[i] \in {callbacks[i], NoCall},
         \A d \in Calls : d # c /\ call[d].op \in Expecting => t.callbacks[call[d].id] = callbacks[call[d].id],
         t.call[c].answer \in {c, NoCall}, ~t.call[c].late,
         t.call[c].msg = "pending" => call[c].msg = "pending",
         call[c].msg = "none" => t.call[c].msg = "none",
         call[c].op = "stream" /\ t.call[c].promise # call[c].promise => \A i \in Ids : t.callbacks[i] # c,
         call[c].op \in Expecting /\ t.call[c].promise = "pending" =>
           /\ call[c].promise = "pending" /\ t.callbacks[call[c].id] = callbacks[call[c].id]
           /\ call[c].msg = "rejected" => t.call[c].msg = "rejected"
  PROVE  RegInv(t) /\ ForgetInv(t, state) /\ StrandInv(t)
<1>1. heap \in Heap /\ RegInv(heap) /\ ForgetInv(heap, state) /\ StrandInv(heap)
        /\ heap.ids = invocationId /\ heap.call = call /\ heap.callbacks = callbacks /\ heap.queue = queue
  BY DEF CallsInv, heap
<1>2. t.ids = heap.ids /\ t.queue = heap.queue
  BY DEF Changed
<1>3. t.call[c].op = call[c].op /\ t.call[c].id = call[c].id /\ \A d \in Calls : d # c => t.call[d] = call[d]
  BY <1>1 DEF Changed
<1>4. \A i \in Ids : t.callbacks[i] \in {heap.callbacks[i], NoCall}
  BY <1>1
<1>5. \A d \in Calls :
        /\ t.call[d].op = heap.call[d].op /\ t.call[d].id = heap.call[d].id
        /\ t.call[d].answer \in {d, NoCall} /\ ~t.call[d].late
        /\ t.call[d].op = "stream" /\ t.call[d].promise # heap.call[d].promise
             => \A i \in Ids : t.callbacks[i] # d
  BY <1>1, <1>3 DEF RegInv
<1>6. RegInv(t)
  BY <1>1, <1>2, <1>4, <1>5, RegKept
<1>7. ForgetInv(t, state)
  BY <1>1, <1>3 DEF ForgetInv
<1>8. StrandInv(t)
  <2>1. \A d \in Calls : /\ t.call[d].op = heap.call[d].op
                         /\ t.call[d].msg = "pending" => heap.call[d].msg = "pending"
                         /\ heap.call[d].msg = "none" => t.call[d].msg = "none"
    BY <1>1, <1>3
  <2>2. QED
    BY <1>1, <1>2, <2>1, StrandKept
<1>9. QED
  BY <1>6, <1>7, <1>8

\* Sending changes only the queue.
LEMMA SendInv ==
  ASSUME NEW s \in Heap, RegInv(s), ForgetInv(s, state), NEW m \in Sendable, g \in Connections
  PROVE  send(s, m) \in Heap /\ RegInv(send(s, m)) /\ ForgetInv(send(s, m), state)
<1> DEFINE t == send(s, m)
<1>1. t \in Heap /\ t.callbacks = s.callbacks /\ t.call = s.call /\ t.ids = s.ids
  BY SendEffect
<1> HIDE DEF t
<1>2. RegInv(t)
  <2>1. \A d \in Calls : t.call[d].answer \in {d, NoCall} /\ ~t.call[d].late
    BY <1>1 DEF RegInv
  <2>2. QED
    BY <1>1, <2>1, RegKept
<1>3. ForgetInv(t, state)
  BY <1>1 DEF ForgetInv
<1>4. QED
  BY <1>1, <1>2, <1>3 DEF t

\* A step to a heap with the invariant.
LEMMA StepTo ==
  ASSUME NEW s \in Heap, Becomes(s), RegInv(s), ForgetInv(s, state), StrandInv(s), UNCHANGED <<state, g>>, CallsInv
  PROVE  CallsInv'
<1>1. heap' = s
  BY BecomesHeap
<1>2. QED
  BY <1>1 DEF CallsInv

\* What CallsInv says of the variables.
LEMMA InvFacts ==
  ASSUME CallsInv
  PROVE  /\ heap \in Heap /\ g \in Connections /\ RegInv(heap) /\ ForgetInv(heap, state) /\ StrandInv(heap)
         /\ heap.ids = invocationId /\ heap.call = call /\ heap.callbacks = callbacks /\ heap.queue = queue
         /\ call \in [Calls -> CallState] /\ callbacks \in [Ids -> Calls \cup {NoCall}]
         /\ queue \in [Connections -> QueueState] /\ invocationId \in Nat
         /\ \A c \in Calls : call[c].answer \in {c, NoCall} /\ ~call[c].late
BY DEF CallsInv, heap, Heap, RegInv

\* A step that keeps callbacks and what was said to the call keeps the invariant.
LEMMA QuietChange ==
  ASSUME CallsInv, NEW c \in Calls, NEW y \in CallState,
         y.op = call[c].op, y.id = call[c].id, y.answer = call[c].answer, y.late = call[c].late,
         y.promise = call[c].promise, y.msg = call[c].msg
  PROVE  LET t == Set(heap, c, y) IN t \in Heap /\ RegInv(t) /\ ForgetInv(t, state) /\ StrandInv(t)
<1> DEFINE t == Set(heap, c, y)
<1>1. heap \in Heap /\ heap.call = call /\ heap.callbacks = callbacks
        /\ call[c].answer \in {c, NoCall} /\ ~call[c].late
  BY InvFacts
<1>2. t \in Heap /\ Changed(heap, t, c) /\ t.callbacks = callbacks /\ t.call[c] = y
  BY <1>1, SetChanged
<1> HIDE DEF t
<1>3. RegInv(t) /\ ForgetInv(t, state) /\ StrandInv(t)
  BY <1>1, <1>2, ChangedInv
<1>4. QED
  BY <1>2, <1>3 DEF t

\* An item or the end of an upload is one more link.
LEMMA ProduceStep ==
  ASSUME CallsInv, NEW c \in Calls, NEW last \in BOOLEAN, Produce(c, last)
  PROVE  CallsInv'
<1> DEFINE up == IF last THEN "ended" ELSE call[c].upload
           n == call[c].links + 1
           y == [call[c] EXCEPT !.links = n, !.upload = up]
<1>1. call[c] \in CallState /\ heap \in Heap /\ heap.call[c] = call[c]
  BY InvFacts
<1>2. /\ y \in CallState /\ y.op = call[c].op /\ y.id = call[c].id /\ y.answer = call[c].answer
      /\ y.late = call[c].late /\ y.msg = call[c].msg /\ y.promise = call[c].promise
  <2>1. up \in {"none", "open", "ended"} /\ n \in Nat
    BY <1>1 DEF CallState
  <2> HIDE DEF up, n
  <2>2. QED
    BY <1>1, <2>1, Zenon DEF CallState
<1>3. [heap EXCEPT !.call[c].links = @ + 1, !.call[c].upload = IF last THEN "ended" ELSE @] = Set(heap, c, y)
  BY <1>1, Zenon DEF Set, Heap, CallState
<1>4. Becomes(Set(heap, c, y)) /\ UNCHANGED <<state, g>>
  BY <1>3 DEF Produce
<1> HIDE DEF y
<1>5. Set(heap, c, y) \in Heap /\ RegInv(Set(heap, c, y)) /\ ForgetInv(Set(heap, c, y), state)
        /\ StrandInv(Set(heap, c, y))
  BY <1>2, QuietChange
<1>6. QED
  BY <1>4, <1>5, StepTo

\* The next link of an upload is sent, or not.
LEMMA LinkStep ==
  ASSUME CallsInv, NEW c \in Calls, LinkRuns(c)
  PROVE  CallsInv'
<1> DEFINE n == call[c].run + 1
           what == IF call[c].upload = "ended" /\ n = call[c].links THEN "end" ELSE "item"
           y == [call[c] EXCEPT !.run = n, !.link = sendResult]
           s == Set(heap, c, y)
           m == Message(c, what, n)
<1>1. call[c] \in CallState /\ heap \in Heap /\ heap.call[c] = call[c] /\ g \in Connections
  BY InvFacts
<1>2. n \in Nat /\ what \in {"item", "end", "cancel"} /\ sendResult \in {"pending", "rejected"}
  BY <1>1 DEF CallState, sendResult
<1>3. /\ y \in CallState /\ y.op = call[c].op /\ y.id = call[c].id /\ y.answer = call[c].answer
      /\ y.late = call[c].late /\ y.msg = call[c].msg /\ y.promise = call[c].promise
  BY <1>1, <1>2, Zenon DEF CallState
<1>4. [heap EXCEPT !.call[c].run = n, !.call[c].link = sendResult] = s
  BY <1>1, Zenon DEF Set, Heap, CallState
<1>5. Becomes(send(s, m)) /\ UNCHANGED <<state, g>>
  BY <1>4 DEF LinkRuns
<1> HIDE DEF y, n, what
<1>6. s \in Heap /\ RegInv(s) /\ ForgetInv(s, state) /\ StrandInv(s)
  BY <1>3, QuietChange
<1> HIDE DEF s
<1>7. m \in Sendable /\ StrandInv(send(s, m))
  BY <1>1, <1>2, <1>6, StrandOther
<1> HIDE DEF m
<1>8. send(s, m) \in Heap /\ RegInv(send(s, m)) /\ ForgetInv(send(s, m), state)
  BY <1>1, <1>6, <1>7, SendInv
<1>9. QED
  BY <1>5, <1>7, <1>8, StepTo

\* A cancelation is sent, or not.
LEMMA CancelStep ==
  ASSUME CallsInv, NEW c \in Calls, CancelRuns(c)
  PROVE  CallsInv'
<1> DEFINE y == [call[c] EXCEPT !.cancels = call[c].cancels - 1]
           s == Set(heap, c, y)
           m == Message(c, "cancel", 0)
<1>1. call[c] \in CallState /\ heap \in Heap /\ heap.call[c] = call[c] /\ g \in Connections
  BY InvFacts
<1>2. call[c].cancels - 1 \in Nat
  BY <1>1 DEF CallState, CancelRuns
<1>3. /\ y \in CallState /\ y.op = call[c].op /\ y.id = call[c].id /\ y.answer = call[c].answer
      /\ y.late = call[c].late /\ y.msg = call[c].msg /\ y.promise = call[c].promise
  BY <1>1, <1>2 DEF CallState
<1>4. [heap EXCEPT !.call[c].cancels = @ - 1] = s
  BY <1>1 DEF Set, Heap, CallState
<1>5. Becomes(send(s, m)) /\ UNCHANGED <<state, g>>
  BY <1>4 DEF CancelRuns
<1> HIDE DEF y
<1>6. s \in Heap /\ RegInv(s) /\ ForgetInv(s, state) /\ StrandInv(s)
  BY <1>3, QuietChange
<1> HIDE DEF s
<1>7. m \in Sendable /\ StrandInv(send(s, m))
  BY <1>1, <1>2, <1>6, StrandOther
<1> HIDE DEF m
<1>8. send(s, m) \in Heap /\ RegInv(send(s, m)) /\ ForgetInv(send(s, m), state)
  BY <1>1, <1>6, <1>7, SendInv
<1>9. QED
  BY <1>5, <1>7, <1>8, StepTo

\* No other call is under the id of an invoke or a stream.
LEMMA Unregistered ==
  ASSUME CallsInv, NEW c \in Calls, call[c].op \in Expecting
  PROVE  LET cb == [callbacks EXCEPT ![call[c].id] = NoCall] IN
         /\ \A i \in Ids : cb[i] \in {callbacks[i], NoCall} /\ cb[i] # c
         /\ \A d \in Calls : d # c /\ call[d].op \in Expecting => cb[call[d].id] = callbacks[call[d].id]
<1>1. callbacks \in [Ids -> Calls \cup {NoCall}] /\ call[c].id \in Ids
  BY InvFacts DEF RegInv
<1>2. ASSUME NEW i \in Ids, callbacks[i] = c PROVE i = call[c].id
  BY <1>2, InvFacts, NoCallAssumption DEF RegInv
<1>3. ASSUME NEW d \in Calls, d # c, call[d].op \in Expecting PROVE call[d].id # call[c].id /\ call[d].id \in Ids
  BY <1>3, InvFacts DEF RegInv
<1>4. QED
  BY <1>1, <1>2, <1>3, NoCallAssumption

\* The invocation is sent, or not: then the call ends and its callback goes.
LEMMA SettledStep ==
  ASSUME CallsInv, NEW c \in Calls, CallSettled(c)
  PROVE  CallsInv'
<1> DEFINE r == call[c].msg
           y1 == [call[c] EXCEPT !.msg = "done"]
           s1 == Set(heap, c, y1)
           s2 == ends(s1, c, r)
           s3 == unregister(s2, c)
           link(s, l) == Set(s, c, [s.call[c] EXCEPT !.link = l])
           links == {"waits", "resolved", "pending", "rejected"}
<1>1. /\ call[c] \in CallState /\ call[c].answer \in {c, NoCall} /\ ~call[c].late
      /\ heap \in Heap /\ heap.call[c] = call[c] /\ heap.callbacks = callbacks
      /\ r \in {"resolved", "rejected"} /\ UNCHANGED <<state, g>>
  BY InvFacts DEF CallSettled
<1>2. call[c].op # "none" /\ call[c].op \in Ops
  BY <1>1, InvFacts, Zenon DEF StrandInv, CallState
<1>3. /\ y1 \in CallState /\ y1.op = call[c].op /\ y1.id = call[c].id /\ y1.answer = call[c].answer
      /\ y1.late = call[c].late /\ y1.msg = "done" /\ y1.promise = call[c].promise
  BY <1>1 DEF CallState
<1>4. [heap EXCEPT !.call[c].msg = "done"] = s1
  BY <1>1 DEF Set, Heap, CallState
<1> HIDE DEF y1
<1>5. s1 \in Heap /\ Changed(heap, s1, c) /\ s1.callbacks = callbacks /\ s1.call[c] = y1
  BY <1>1, <1>3, SetChanged
<1> HIDE DEF s1
<1>6. /\ s2 \in Heap /\ Changed(s1, s2, c) /\ s2.callbacks = callbacks
      /\ s2.call[c].promise = IF call[c].promise = "pending" THEN r ELSE call[c].promise
      /\ s2.call[c].msg = "done" /\ s2.call[c].answer = call[c].answer /\ s2.call[c].late = call[c].late
  <2>1. s1 \in Heap /\ r \in {"resolved", "rejected", "disposed"}
    BY <1>1, <1>5
  <2> HIDE DEF r
  <2>2. /\ s2 \in Heap /\ Changed(s1, s2, c) /\ s2.callbacks = s1.callbacks
        /\ s2.call[c].promise = IF s1.call[c].promise = "pending" THEN r ELSE s1.call[c].promise
        /\ s2.call[c].msg = s1.call[c].msg /\ s2.call[c].answer = s1.call[c].answer
        /\ s2.call[c].late = s1.call[c].late
    BY <2>1, EndsChanged, Zenon
  <2> HIDE DEF s2
  <2>3. QED
    BY <1>3, <1>5, <2>2
<1>7. Changed(heap, s2, c) /\ s2.call[c].promise # "pending" /\ s2.call[c].id = call[c].id
  BY <1>1, <1>5, <1>6, ChangedAgain DEF Changed
<1> HIDE DEF s2
<1>8. ASSUME NEW s \in Heap, Changed(heap, s, c), NEW l \in links
      PROVE  LET t == link(s, l) IN
             /\ t \in Heap /\ Changed(heap, t, c) /\ t.callbacks = s.callbacks
             /\ t.call[c].promise = s.call[c].promise /\ t.call[c].msg = s.call[c].msg
             /\ t.call[c].answer = s.call[c].answer /\ t.call[c].late = s.call[c].late
             /\ [s EXCEPT !.call[c].link = l] = t
  <2> DEFINE y == [s.call[c] EXCEPT !.link = l]
             t == link(s, l)
  <2>1. s.call[c] \in CallState
    BY DEF Heap
  <2>2. /\ y \in CallState /\ y.op = s.call[c].op /\ y.id = s.call[c].id /\ y.answer = s.call[c].answer
        /\ y.late = s.call[c].late /\ y.msg = s.call[c].msg /\ y.promise = s.call[c].promise
    BY <2>1 DEF CallState
  <2>3. [s EXCEPT !.call[c].link = l] = t
    BY <2>1 DEF Set, Heap, CallState
  <2> HIDE DEF y
  <2>4. t \in Heap /\ Changed(s, t, c) /\ t.callbacks = s.callbacks /\ t.call[c] = y
    BY <2>2, SetChanged, Zenon DEF y
  <2>5. Changed(heap, t, c)
    BY <1>8, <2>4, ChangedAgain
  <2>6. QED
    BY <2>2, <2>3, <2>4, <2>5
<1> HIDE DEF link
<1>9. CASE call[c].op = "send"
  <2> DEFINE t == link(s2, r)
  <2>1. /\ t \in Heap /\ Changed(heap, t, c) /\ t.callbacks = callbacks
        /\ t.call[c].promise = s2.call[c].promise /\ t.call[c].msg = "done"
        /\ t.call[c].answer = call[c].answer /\ t.call[c].late = call[c].late
        /\ [s2 EXCEPT !.call[c].link = r] = t
    <3>1. s2 \in Heap /\ Changed(heap, s2, c) /\ r \in links
      BY <1>1, <1>6, <1>7
    <3> HIDE DEF links, r
    <3>2. LET u == link(s2, r) IN
          /\ u \in Heap /\ Changed(heap, u, c) /\ u.callbacks = s2.callbacks
          /\ u.call[c].promise = s2.call[c].promise /\ u.call[c].msg = s2.call[c].msg
          /\ u.call[c].answer = s2.call[c].answer /\ u.call[c].late = s2.call[c].late
          /\ [s2 EXCEPT !.call[c].link = r] = u
      BY <3>1, <1>8
    <3> HIDE DEF t
    <3>3. QED
      BY <3>2, <1>6 DEF t
  <2> HIDE DEF t
  <2>2. Becomes(t)
    BY <1>4, <1>9, <2>1 DEF CallSettled, s2
  <2>3. RegInv(t) /\ ForgetInv(t, state) /\ StrandInv(t)
    BY <1>1, <1>9, <2>1, ChangedInv DEF Expecting
  <2>4. QED
    BY <1>1, <2>1, <2>2, <2>3, StepTo
<1>10. CASE call[c].op # "send" /\ r = "rejected"
  <2> DEFINE t == link(s3, "resolved")
  <2>1. /\ s3 \in Heap /\ Changed(s2, s3, c) /\ s3.call[c] = s2.call[c]
        /\ s3.callbacks = [callbacks EXCEPT ![call[c].id] = NoCall]
    BY <1>6, <1>7, UnregisterChanged
  <2>2. Changed(heap, s3, c)
    BY <1>7, <2>1, ChangedAgain
  <2> HIDE DEF s3
  <2>3. /\ t \in Heap /\ Changed(heap, t, c) /\ t.callbacks = [callbacks EXCEPT ![call[c].id] = NoCall]
        /\ t.call[c].promise # "pending" /\ t.call[c].msg = "done"
        /\ t.call[c].answer = call[c].answer /\ t.call[c].late = call[c].late
        /\ [s3 EXCEPT !.call[c].link = "resolved"] = t
    <3>1. s3 \in Heap /\ Changed(heap, s3, c) /\ "resolved" \in links
      BY <1>1, <2>1, <2>2
    <3> HIDE DEF links, r
    <3>2. LET u == link(s3, "resolved") IN
          /\ u \in Heap /\ Changed(heap, u, c) /\ u.callbacks = s3.callbacks
          /\ u.call[c].promise = s3.call[c].promise /\ u.call[c].msg = s3.call[c].msg
          /\ u.call[c].answer = s3.call[c].answer /\ u.call[c].late = s3.call[c].late
          /\ [s3 EXCEPT !.call[c].link = "resolved"] = u
      BY <3>1, <1>8
    <3> HIDE DEF t
    <3>3. QED
      BY <3>2, <1>6, <1>7, <2>1 DEF t
  <2> HIDE DEF t
  <2>4. Becomes(t)
    BY <1>4, <1>10, <2>3 DEF CallSettled, s2, s3
  <2>5. call[c].op \in Expecting
    BY <1>2, <1>10 DEF Expecting, Ops
  <2>6. /\ \A i \in Ids : t.callbacks[i] \in {callbacks[i], NoCall} /\ t.callbacks[i] # c
        /\ \A d \in Calls : d # c /\ call[d].op \in Expecting => t.callbacks[call[d].id] = callbacks[call[d].id]
    BY <2>3, <2>5, Unregistered
  <2>7. t.call[c].answer \in {c, NoCall} /\ ~t.call[c].late /\ t.call[c].msg = "done"
          /\ call[c].msg # "none" /\ t.call[c].promise # "pending"
    BY <1>1, <2>3
  <2>8. RegInv(t) /\ ForgetInv(t, state) /\ StrandInv(t)
    <3>1. t \in Heap /\ Changed(heap, t, c)
      BY <2>3
    <3>2. QED
      BY <3>1, <2>6, <2>7, ChangedInv
  <2>9. QED
    BY <1>1, <2>3, <2>4, <2>8, StepTo
<1>11. CASE call[c].op # "send" /\ r # "rejected"
  <2> DEFINE t == link(s1, "resolved")
  <2>1. /\ t \in Heap /\ Changed(heap, t, c) /\ t.callbacks = callbacks
        /\ t.call[c].promise = call[c].promise /\ t.call[c].msg = "done"
        /\ t.call[c].answer = call[c].answer /\ t.call[c].late = call[c].late
        /\ [s1 EXCEPT !.call[c].link = "resolved"] = t
    BY <1>3, <1>5, <1>8, Zenon
  <2> HIDE DEF t
  <2>2. Becomes(t)
    BY <1>4, <1>11, <2>1, Zenon DEF CallSettled
  <2>3. RegInv(t) /\ ForgetInv(t, state) /\ StrandInv(t)
    BY <1>1, <1>11, <2>1, ChangedInv
  <2>4. QED
    BY <1>1, <2>1, <2>2, <2>3, StepTo
<1>12. QED
  BY <1>9, <1>10, <1>11

\* A stream whose result is disposed ends and its callback goes.
LEMMA DisposeStep ==
  ASSUME CallsInv, NEW c \in Calls, Dispose(c)
  PROVE  CallsInv'
<1> DEFINE s1 == ends(heap, c, "disposed")
           s2 == unregister(s1, c)
           y == [s2.call[c] EXCEPT !.disposals = s2.call[c].disposals + 1, !.cancels = s2.call[c].cancels + 1]
           t == Set(s2, c, y)
<1>1. /\ call[c].answer \in {c, NoCall} /\ ~call[c].late
      /\ heap \in Heap /\ heap.call[c] = call[c] /\ heap.callbacks = callbacks
      /\ UNCHANGED <<state, g>> /\ call[c].op \in Expecting
  BY InvFacts DEF Dispose, Expecting
<1>2. /\ s1 \in Heap /\ Changed(heap, s1, c) /\ s1.callbacks = heap.callbacks
      /\ s1.call[c].promise = IF heap.call[c].promise = "pending" THEN "disposed" ELSE heap.call[c].promise
      /\ s1.call[c].msg = heap.call[c].msg /\ s1.call[c].answer = heap.call[c].answer
      /\ s1.call[c].late = heap.call[c].late
  BY <1>1, EndsChanged
<1> HIDE DEF s1
<1>3. /\ s2 \in Heap /\ Changed(s1, s2, c) /\ s2.call[c] = s1.call[c]
      /\ s2.callbacks = [s1.callbacks EXCEPT ![s1.call[c].id] = NoCall]
  BY <1>2, UnregisterChanged
<1> HIDE DEF s2
<1>4. s1.call[c].id = call[c].id
  BY <1>1, <1>2 DEF Changed
<1>5. s2.call[c] \in CallState
  BY <1>3 DEF Heap
<1>6. /\ y \in CallState /\ y.op = s2.call[c].op /\ y.id = s2.call[c].id /\ y.answer = s2.call[c].answer
      /\ y.late = s2.call[c].late /\ y.msg = s2.call[c].msg /\ y.promise = s2.call[c].promise
  <2>1. s2.call[c].disposals + 1 \in Nat /\ s2.call[c].cancels + 1 \in Nat
    BY <1>5 DEF CallState
  <2>2. QED
    BY <1>5, <2>1, Zenon DEF CallState
<1>7. [s2 EXCEPT !.call[c].disposals = @ + 1, !.call[c].cancels = @ + 1] = t
  BY <1>3, <1>5, Zenon DEF Set, Heap, CallState
<1>8. Becomes(t)
  BY <1>7 DEF Dispose, s1, s2
<1> HIDE DEF y
<1>9. t \in Heap /\ Changed(s2, t, c) /\ t.callbacks = s2.callbacks /\ t.call[c] = y
  BY <1>3, <1>6, SetChanged
<1> HIDE DEF t
<1>10. Changed(heap, t, c)
  <2>1. Changed(heap, s2, c)
    BY <1>2, <1>3, ChangedAgain
  <2>2. QED
    BY <1>9, <2>1, ChangedAgain
<1>11. /\ t.call[c].answer \in {c, NoCall} /\ ~t.call[c].late /\ t.call[c].msg = call[c].msg
       /\ t.call[c].promise # "pending"
  BY <1>1, <1>2, <1>3, <1>6, <1>9
<1>12. t.callbacks = [callbacks EXCEPT ![call[c].id] = NoCall]
  BY <1>1, <1>2, <1>3, <1>4, <1>9, Zenon
<1>13. /\ \A i \in Ids : t.callbacks[i] \in {callbacks[i], NoCall} /\ t.callbacks[i] # c
       /\ \A d \in Calls : d # c /\ call[d].op \in Expecting => t.callbacks[call[d].id] = callbacks[call[d].id]
  BY <1>1, <1>12, Unregistered
<1>14. RegInv(t) /\ ForgetInv(t, state) /\ StrandInv(t)
  BY <1>9, <1>10, <1>11, <1>13, ChangedInv
<1>15. QED
  BY <1>1, <1>8, <1>9, <1>14, StepTo

\* The callback under the id of an invoke or a stream is its own.
LEMMA OwnCallback ==
  ASSUME CallsInv, NEW c \in Calls, call[c].op \in Expecting, callbacks[call[c].id] # NoCall
  PROVE  callbacks[call[c].id] = c /\ (call[c].op = "stream" => call[c].promise = "pending")
<1> DEFINE d == callbacks[call[c].id]
<1>1. call[c].id \in Ids /\ callbacks \in [Ids -> Calls \cup {NoCall}]
  BY InvFacts DEF RegInv
<1>2. d \in Calls /\ call[d].op \in Expecting /\ call[d].id = call[c].id
        /\ (call[d].op = "stream" => call[d].promise = "pending")
  BY <1>1, InvFacts DEF RegInv
<1>3. d = c
  BY <1>2, InvFacts DEF RegInv
<1>4. QED
  BY <1>2, <1>3

\* An item goes to a stream that has not ended, or rejects an invoke.
LEMMA ItemStep ==
  ASSUME CallsInv, NEW c \in Calls, ItemArrives(c)
  PROVE  CallsInv'
<1>1. /\ call[c].answer \in {c, NoCall} /\ ~call[c].late /\ call[c] \in CallState
      /\ heap \in Heap /\ heap.call[c] = call[c] /\ heap.callbacks = callbacks
      /\ UNCHANGED <<state, g>> /\ call[c].op \in Expecting
  BY InvFacts DEF ItemArrives, Served, Expecting
<1>2. CASE callbacks[call[c].id] = NoCall
  <2>1. Becomes(heap)
    BY <1>2 DEF ItemArrives
  <2>2. QED
    BY <1>1, <2>1, StepTo, InvFacts
<1>3. CASE callbacks[call[c].id] # NoCall /\ call[c].op = "invoke"
  <2> DEFINE t == ends(heap, c, "rejected")
  <2>1. callbacks[call[c].id] = c
    BY <1>1, <1>3, OwnCallback
  <2>2. Becomes(t)
    BY <1>3, <2>1 DEF ItemArrives
  <2>3. /\ t \in Heap /\ Changed(heap, t, c) /\ t.callbacks = heap.callbacks
        /\ t.call[c].promise = IF heap.call[c].promise = "pending" THEN "rejected" ELSE heap.call[c].promise
        /\ t.call[c].msg = heap.call[c].msg /\ t.call[c].answer = heap.call[c].answer
        /\ t.call[c].late = heap.call[c].late
    BY <1>1, EndsChanged
  <2> HIDE DEF t
  <2>4. RegInv(t) /\ ForgetInv(t, state) /\ StrandInv(t)
    BY <1>1, <1>3, <2>3, ChangedInv
  <2>5. QED
    BY <1>1, <2>2, <2>3, <2>4, StepTo
<1>4. CASE callbacks[call[c].id] # NoCall /\ call[c].op # "invoke"
  <2> DEFINE late == call[c].late \/ call[c].promise # "pending"
             y == [call[c] EXCEPT !.late = late]
             t == Set(heap, c, y)
  <2>1. callbacks[call[c].id] = c /\ call[c].promise = "pending"
    BY <1>1, <1>4, OwnCallback DEF Expecting
  <2>2. late = FALSE /\ call[c].late = FALSE
    <3>1. call[c].late \in BOOLEAN
      BY <1>1 DEF CallState
    <3>2. QED
      BY <1>1, <2>1, <3>1, Zenon
  <2>3. [heap EXCEPT !.call[c].late = @ \/ call[c].promise # "pending"] = t
    BY <1>1 DEF Set, Heap, CallState
  <2>4. Becomes(t)
    BY <1>4, <2>1, <2>3 DEF ItemArrives
  <2> HIDE DEF late
  <2>5. /\ y \in CallState /\ y.op = call[c].op /\ y.id = call[c].id /\ y.answer = call[c].answer
        /\ y.late = call[c].late /\ y.msg = call[c].msg /\ y.promise = call[c].promise
    BY <1>1, <2>2, Zenon DEF CallState
  <2> HIDE DEF y
  <2>6. t \in Heap /\ RegInv(t) /\ ForgetInv(t, state) /\ StrandInv(t)
    BY <2>5, QuietChange
  <2>7. QED
    BY <1>1, <2>4, <2>6, StepTo
<1>5. QED
  BY <1>2, <1>3, <1>4

\* A completion ends the call it is for, and its callback goes.
LEMMA CompletionStep ==
  ASSUME CallsInv, NEW c \in Calls, NEW how \in {"resolved", "rejected"}, CompletionArrives(c, how)
  PROVE  CallsInv'
<1>1. /\ call[c].answer \in {c, NoCall} /\ ~call[c].late /\ call[c] \in CallState
      /\ heap \in Heap /\ heap.call[c] = call[c] /\ heap.callbacks = callbacks
      /\ UNCHANGED <<state, g>> /\ call[c].op \in Expecting
  BY InvFacts, Zenon DEF CompletionArrives, Served, Expecting
<1>2. CASE callbacks[call[c].id] = NoCall
  <2>1. Becomes(heap)
    BY <1>2 DEF CompletionArrives
  <2>2. QED
    BY <1>1, <2>1, StepTo, InvFacts
<1>3. CASE callbacks[call[c].id] # NoCall
  <2> DEFINE s1 == unregister(heap, c)
             s2 == ends(s1, c, how)
             late == s2.call[c].late \/ (call[c].op = "stream" /\ call[c].promise # "pending")
             y == [s2.call[c] EXCEPT !.answer = c, !.late = late]
             t == Set(s2, c, y)
  <2>1. callbacks[call[c].id] = c /\ (call[c].op = "stream" => call[c].promise = "pending")
    BY <1>1, <1>3, OwnCallback
  <2>2. /\ s1 \in Heap /\ Changed(heap, s1, c) /\ s1.call[c] = heap.call[c]
        /\ s1.callbacks = [heap.callbacks EXCEPT ![heap.call[c].id] = NoCall]
    BY <1>1, UnregisterChanged
  <2> HIDE DEF s1
  <2>3. /\ s2 \in Heap /\ Changed(s1, s2, c) /\ s2.callbacks = s1.callbacks
        /\ s2.call[c].promise = IF s1.call[c].promise = "pending" THEN how ELSE s1.call[c].promise
        /\ s2.call[c].msg = s1.call[c].msg /\ s2.call[c].answer = s1.call[c].answer
        /\ s2.call[c].late = s1.call[c].late
    <3>1. s1 \in Heap /\ how \in {"resolved", "rejected", "disposed"}
      BY <2>2
    <3>2. QED
      BY <3>1, EndsChanged
  <2> HIDE DEF s2
  <2>4. s2.call[c] \in CallState
    BY <2>3 DEF Heap
  <2>5. late = FALSE
    <3>1. s2.call[c].late = FALSE
      <4>1. s2.call[c].late \in BOOLEAN
        BY <2>4 DEF CallState
      <4>2. s2.call[c].late = call[c].late
        BY <1>1, <2>2, <2>3
      <4>3. QED
        BY <1>1, <4>1, <4>2, Zenon
    <3>2. QED
      BY <2>1, <3>1, Zenon
  <2>6. [s2 EXCEPT !.call[c].answer = c,
                   !.call[c].late = @ \/ (call[c].op = "stream" /\ call[c].promise # "pending")] = t
    BY <2>3, <2>4, Zenon DEF Set, Heap, CallState
  <2>7. Becomes(t)
    <3>1. c # NoCall
      BY NoCallAssumption
    <3>2. QED
      BY <3>1, <2>1, <2>6 DEF CompletionArrives, s1, s2
  <2> HIDE DEF late
  <2>8. /\ y \in CallState /\ y.op = s2.call[c].op /\ y.id = s2.call[c].id /\ y.answer = c
        /\ y.late = FALSE /\ y.msg = s2.call[c].msg /\ y.promise = s2.call[c].promise
    BY <2>4, <2>5, Zenon DEF CallState
  <2> HIDE DEF y
  <2>9. t \in Heap /\ Changed(s2, t, c) /\ t.callbacks = s2.callbacks /\ t.call[c] = y
    BY <2>3, <2>8, SetChanged
  <2> HIDE DEF t
  <2>10. Changed(heap, t, c)
    <3>1. Changed(heap, s2, c)
      BY <2>2, <2>3, ChangedAgain
    <3>2. QED
      BY <2>9, <3>1, ChangedAgain
  <2>11. /\ t.call[c].answer \in {c, NoCall} /\ ~t.call[c].late /\ t.call[c].msg = call[c].msg
         /\ t.call[c].promise # "pending"
    BY <1>1, <2>2, <2>3, <2>8, <2>9
  <2>12. t.callbacks = [callbacks EXCEPT ![call[c].id] = NoCall]
    BY <1>1, <2>2, <2>3, <2>9
  <2>13. /\ \A i \in Ids : t.callbacks[i] \in {callbacks[i], NoCall} /\ t.callbacks[i] # c
         /\ \A d \in Calls : d # c /\ call[d].op \in Expecting => t.callbacks[call[d].id] = callbacks[call[d].id]
    BY <1>1, <2>12, Unregistered
  <2>14. RegInv(t) /\ ForgetInv(t, state) /\ StrandInv(t)
    BY <2>9, <2>10, <2>11, <2>13, ChangedInv
  <2>15. QED
    BY <1>1, <2>7, <2>9, <2>14, StepTo
<1>4. QED
  BY <1>2, <1>3

\* A batch settles only when no invocation waits to be settled, so no call forgets
\* that it was not sent.
LEMMA SettleInv ==
  ASSUME CallsInv, CallsQuiet, NEW u \in Heap, u.call = call, u.callbacks = callbacks, u.ids = invocationId,
         NEW batch \in Seq(Sendable), NEW r \in {"resolved", "rejected"}
  PROVE  LET t == settle(u, batch, r) IN t \in Heap /\ RegInv(t) /\ ForgetInv(t, state)
<1> DEFINE t == settle(u, batch, r)
<1>1. /\ t \in Heap /\ t.callbacks = u.callbacks /\ t.ids = u.ids
      /\ \A c \in Calls : /\ t.call[c].op = u.call[c].op /\ t.call[c].id = u.call[c].id
                          /\ t.call[c].promise = u.call[c].promise
                          /\ t.call[c].answer = u.call[c].answer /\ t.call[c].late = u.call[c].late
  BY SettleEffect
<1> HIDE DEF t
<1>2. heap \in Heap /\ RegInv(heap) /\ heap.ids = invocationId /\ heap.call = call /\ heap.callbacks = callbacks
        /\ ForgetInv(heap, state) /\ \A c \in Calls : call[c].answer \in {c, NoCall} /\ ~call[c].late
  BY InvFacts
<1>3. \A c \in Calls :
        /\ t.call[c].op = heap.call[c].op /\ t.call[c].id = heap.call[c].id
        /\ t.call[c].answer \in {c, NoCall} /\ ~t.call[c].late
        /\ t.call[c].op = "stream" /\ t.call[c].promise # heap.call[c].promise
             => \A i \in Ids : t.callbacks[i] # c
  BY <1>1, <1>2
<1>4. t.ids = heap.ids /\ \A i \in Ids : t.callbacks[i] \in {heap.callbacks[i], NoCall}
  BY <1>1, <1>2
<1>5. RegInv(t)
  BY <1>1, <1>2, <1>3, <1>4, RegKept
<1>6. ForgetInv(t, state)
  BY <1>1, <1>2 DEF ForgetInv, CallsQuiet
<1>7. QED
  BY <1>1, <1>5, <1>6 DEF t

\* A change of the queues alone.
LEMMA QueueInv ==
  ASSUME CallsInv, NEW t \in Heap, t.call = call, t.callbacks = callbacks, t.ids = invocationId
  PROVE  RegInv(t) /\ ForgetInv(t, state)
<1>1. heap \in Heap /\ RegInv(heap) /\ heap.ids = invocationId /\ heap.call = call /\ heap.callbacks = callbacks
        /\ ForgetInv(heap, state) /\ \A c \in Calls : call[c].answer \in {c, NoCall} /\ ~call[c].late
  BY InvFacts
<1>2. \A c \in Calls :
        /\ t.call[c].op = heap.call[c].op /\ t.call[c].id = heap.call[c].id
        /\ t.call[c].answer \in {c, NoCall} /\ ~t.call[c].late
        /\ t.call[c].op = "stream" /\ t.call[c].promise # heap.call[c].promise
             => \A i \in Ids : t.callbacks[i] # c
  BY <1>1
<1>3. t.ids = heap.ids /\ \A i \in Ids : t.callbacks[i] \in {heap.callbacks[i], NoCall}
  BY <1>1
<1>4. RegInv(t)
  BY <1>1, <1>2, <1>3, RegKept
<1>5. ForgetInv(t, state)
  BY <1>1 DEF ForgetInv
<1>6. QED
  BY <1>4, <1>5

SetQueue(s, k, q) == [s EXCEPT !.queue[k] = q]

\* An assignment to one queue.
LEMMA QueueEffect ==
  ASSUME NEW s \in Heap, NEW k \in Connections, NEW q \in QueueState
  PROVE  LET t == SetQueue(s, k, q) IN
         /\ t \in Heap /\ t.call = s.call /\ t.callbacks = s.callbacks /\ t.ids = s.ids
         /\ t.queue = [s.queue EXCEPT ![k] = q]
<1>1. [s.queue EXCEPT ![k] = q] \in [Connections -> QueueState]
  BY DEF Heap
<1>2. QED
  BY <1>1 DEF Heap, SetQueue

TakenQueue(q, b) == [q EXCEPT !.signaled = FALSE, !.batch = b, !.buffer = <<>>, !.at = "sends"]
Taken(s, k, b) ==
  [s EXCEPT !.queue[k].signaled = FALSE, !.queue[k].batch = b, !.queue[k].buffer = <<>>, !.queue[k].at = "sends"]

\* What the loop does to its queue when it takes the buffer.
LEMMA TakenEffect ==
  ASSUME NEW s \in Heap, NEW k \in Connections, NEW b \in Seq(Sendable)
  PROVE  Taken(s, k, b) = SetQueue(s, k, TakenQueue(s.queue[k], b))
<1>1. s.queue \in [Connections -> QueueState] /\ s.queue[k] \in QueueState
  BY DEF Heap
<1>2. QED
  BY <1>1, Zenon DEF SetQueue, Heap, Taken, TakenQueue

\* The loop takes the buffer as its batch, or it ends and rejects the buffer.
LEMMA WakeStep ==
  ASSUME CallsInv, NEW k \in Connections, LoopWakes(k)
  PROVE  CallsInv'
<1>1. /\ heap \in Heap /\ StrandInv(heap) /\ heap.ids = invocationId /\ heap.call = call
      /\ heap.callbacks = callbacks /\ heap.queue = queue /\ queue[k] \in QueueState
      /\ queue \in [Connections -> QueueState]
  BY InvFacts
<1>2. CallsQuiet /\ queue[k].at = "waits" /\ queue[k].signaled /\ UNCHANGED <<state, g>>
  BY DEF LoopWakes
<1>3. queue[k].batch = <<>> /\ queue[k].buffer \in Seq(Sendable) /\ <<>> \in Seq(Sendable)
  BY <1>1, <1>2 DEF StrandInv, QueueState
<1>4. Range(<<>>) = {}
  BY DEF Range
<1>5. CASE queue[k].executing
  <2> DEFINE q == TakenQueue(queue[k], queue[k].buffer)
             t == SetQueue(heap, k, q)
  <2>1. /\ q \in QueueState /\ q.at = "sends" /\ q.batch = queue[k].buffer /\ q.buffer = <<>>
    <3>1. queue[k] \in QueueState
      BY <1>1
    <3>2. QED
      BY <1>3, <3>1, Zenon DEF QueueState, TakenQueue
  <2>2. Taken(heap, k, queue[k].buffer) = t
    <3>1. queue[k] = heap.queue[k] /\ queue[k].buffer \in Seq(Sendable)
      BY <1>1, <1>3
    <3>2. heap \in Heap
      BY <1>1
    <3>3. Taken(heap, k, queue[k].buffer) = SetQueue(heap, k, TakenQueue(heap.queue[k], queue[k].buffer))
      BY <3>1, <3>2, TakenEffect
    <3>4. QED
      BY <3>1, <3>3
  <2>3. Becomes(t)
    BY <1>5, <2>2 DEF LoopWakes, Taken
  <2> HIDE DEF q
  <2>4. /\ t \in Heap /\ t.call = call /\ t.callbacks = callbacks /\ t.ids = invocationId
        /\ t.queue = [queue EXCEPT ![k] = q]
    <3>1. heap \in Heap /\ q \in QueueState
      BY <1>1, <2>1
    <3>2. /\ t \in Heap /\ t.call = heap.call /\ t.callbacks = heap.callbacks /\ t.ids = heap.ids
          /\ t.queue = [heap.queue EXCEPT ![k] = q]
      BY <3>1, QueueEffect
    <3>3. QED
      BY <1>1, <3>2
  <2> HIDE DEF t
  <2>5. t.queue[k] = q /\ \A j \in Connections : j # k => t.queue[j] = queue[j]
    BY <1>1, <2>4
  <2>6. StrandInv(t)
    <3>1. \A j \in Connections : t.queue[j].at \in {"none", "waits", "ended"} => t.queue[j].batch = <<>>
      BY <1>1, <2>1, <2>5 DEF StrandInv
    <3>2. \A j \in Connections, c \in Calls :
            Invocation(c) \in Range(t.queue[j].batch) \cup Range(t.queue[j].buffer) => t.call[c].op # "none"
      BY <1>1, <1>4, <2>1, <2>4, <2>5 DEF StrandInv
    <3>3. ASSUME NEW c \in Calls, t.call[c].msg = "pending"
          PROVE  \E j \in Connections :
                   \/ Invocation(c) \in Range(t.queue[j].batch)
                   \/ Invocation(c) \in Range(t.queue[j].buffer) /\ t.queue[j].signaled
      <4>1. PICK j \in Connections :
              \/ Invocation(c) \in Range(queue[j].batch)
              \/ Invocation(c) \in Range(queue[j].buffer) /\ queue[j].signaled
        BY <1>1, <2>4, <3>3 DEF StrandInv
      <4>2. QED
        BY <1>3, <1>4, <2>1, <2>5, <4>1
    <3>4. \A c \in Calls : t.call[c].op = "none" => t.call[c].msg = "none"
      BY <1>1, <2>4 DEF StrandInv
    <3>5. QED
      BY <3>1, <3>2, <3>3, <3>4 DEF StrandInv
  <2>7. RegInv(t) /\ ForgetInv(t, state)
    BY <2>4, QueueInv
  <2>8. QED
    BY <1>2, <2>3, <2>4, <2>6, <2>7, StepTo
<1>6. CASE ~queue[k].executing
  <2> DEFINE q == [queue[k] EXCEPT !.at = "ended"]
             u == SetQueue(heap, k, q)
             b == queue[k].buffer
             t == settle(u, b, "rejected")
  <2>1. /\ q \in QueueState /\ q.at = "ended" /\ q.batch = <<>> /\ q.buffer = queue[k].buffer
        /\ q.signaled = queue[k].signaled
    BY <1>1, <1>3, Zenon DEF QueueState
  <2>2. [heap EXCEPT !.queue[k].at = "ended"] = u
    BY <1>1 DEF SetQueue, Heap, QueueState
  <2>3. Becomes(t)
    BY <1>6, <2>2 DEF LoopWakes
  <2> HIDE DEF q
  <2>4. /\ u \in Heap /\ u.call = heap.call /\ u.callbacks = heap.callbacks /\ u.ids = heap.ids
        /\ u.queue = [heap.queue EXCEPT ![k] = q]
    BY <1>1, <2>1, QueueEffect, Zenon
  <2> HIDE DEF u
  <2>5. t \in Heap /\ RegInv(t) /\ ForgetInv(t, state)
    BY <1>1, <1>2, <1>3, <2>4, SettleInv
  <2>6. /\ Range(q.batch) \subseteq Range(heap.queue[k].batch)
        /\ Range(heap.queue[k].batch) \subseteq Range(q.batch) \cup Range(b)
        /\ Range(b) \subseteq Range(heap.queue[k].batch) \cup Range(heap.queue[k].buffer)
        /\ q.buffer = heap.queue[k].buffer /\ q.signaled = heap.queue[k].signaled
        /\ b \in Seq(Sendable)
    BY <1>1, <1>3, <1>4, <2>1
  <2> HIDE DEF b
  <2>7. StrandInv(t)
    BY <1>1, <2>1, <2>4, <2>6, StrandSettle, Zenon
  <2>8. QED
    BY <1>2, <2>3, <2>5, <2>7, StepTo
<1>7. QED
  BY <1>5, <1>6

\* The transport delivers a batch.
LEMMA DeliverStep ==
  ASSUME CallsInv, NEW k \in Connections, Deliver(k)
  PROVE  CallsInv'
<1> DEFINE q == [queue[k] EXCEPT !.at = "delivered"]
           t == SetQueue(heap, k, q)
<1>1. /\ heap \in Heap /\ StrandInv(heap) /\ heap.ids = invocationId /\ heap.call = call
      /\ heap.callbacks = callbacks /\ heap.queue = queue /\ queue[k] \in QueueState
      /\ queue \in [Connections -> QueueState] /\ UNCHANGED <<state, g>>
  BY InvFacts DEF Deliver
<1>2. /\ q \in QueueState /\ q.at = "delivered" /\ q.batch = queue[k].batch /\ q.buffer = queue[k].buffer
      /\ q.signaled = queue[k].signaled
  BY <1>1, Zenon DEF QueueState
<1>3. [heap EXCEPT !.queue[k].at = "delivered"] = t
  BY <1>1 DEF SetQueue, Heap, QueueState
<1>4. Becomes(t)
  BY <1>3 DEF Deliver
<1> HIDE DEF q
<1>5. /\ t \in Heap /\ t.call = call /\ t.callbacks = callbacks /\ t.ids = invocationId
      /\ t.queue = [queue EXCEPT ![k] = q]
  BY <1>1, <1>2, QueueEffect, Zenon
<1> HIDE DEF t
<1>6. t.queue[k] = q /\ \A j \in Connections : j # k => t.queue[j] = queue[j]
  BY <1>1, <1>5
<1>7. StrandInv(t)
  <2>1. \A j \in Connections : t.queue[j].at \in {"none", "waits", "ended"} => t.queue[j].batch = <<>>
    BY <1>1, <1>2, <1>6 DEF StrandInv
  <2>2. \A j \in Connections : /\ t.queue[j].batch = queue[j].batch /\ t.queue[j].buffer = queue[j].buffer
                               /\ t.queue[j].signaled = queue[j].signaled
    BY <1>2, <1>6
  <2>3. QED
    BY <1>1, <1>5, <2>1, <2>2 DEF StrandInv
<1>8. RegInv(t) /\ ForgetInv(t, state)
  BY <1>5, QueueInv
<1>9. QED
  BY <1>1, <1>4, <1>5, <1>7, <1>8, StepTo

\* transport.send settles, and with it the batch.
LEMMA ReturnsStep ==
  ASSUME CallsInv, NEW k \in Connections, NEW r \in {"resolved", "rejected"}, SendReturns(k, r)
  PROVE  CallsInv'
<1> DEFINE q == [queue[k] EXCEPT !.at = "waits", !.batch = <<>>]
           u == SetQueue(heap, k, q)
           b == queue[k].batch
           t == settle(u, b, r)
<1>1. /\ heap \in Heap /\ StrandInv(heap) /\ heap.ids = invocationId /\ heap.call = call
      /\ heap.callbacks = callbacks /\ heap.queue = queue /\ queue[k] \in QueueState
      /\ queue \in [Connections -> QueueState] /\ CallsQuiet /\ UNCHANGED <<state, g>>
  BY InvFacts DEF SendReturns, Quiet
<1>2. /\ q \in QueueState /\ q.at = "waits" /\ q.batch = <<>> /\ q.buffer = queue[k].buffer
      /\ q.signaled = queue[k].signaled /\ b \in Seq(Sendable)
  <2>1. <<>> \in Seq(Sendable)
    OBVIOUS
  <2>2. QED
    BY <1>1, <2>1, Zenon DEF QueueState
<1>3. [heap EXCEPT !.queue[k].at = "waits", !.queue[k].batch = <<>>] = u
  BY <1>1, Zenon DEF SetQueue, Heap, QueueState
<1>4. Becomes(t)
  BY <1>3 DEF SendReturns
<1> HIDE DEF q
<1>5. /\ u \in Heap /\ u.call = heap.call /\ u.callbacks = heap.callbacks /\ u.ids = heap.ids
      /\ u.queue = [heap.queue EXCEPT ![k] = q]
  BY <1>1, <1>2, QueueEffect, Zenon
<1> HIDE DEF u
<1>6. t \in Heap /\ RegInv(t) /\ ForgetInv(t, state)
  BY <1>1, <1>2, <1>5, SettleInv
<1>7. /\ Range(q.batch) \subseteq Range(heap.queue[k].batch)
      /\ Range(heap.queue[k].batch) \subseteq Range(q.batch) \cup Range(b)
      /\ Range(b) \subseteq Range(heap.queue[k].batch) \cup Range(heap.queue[k].buffer)
      /\ q.buffer = heap.queue[k].buffer /\ q.signaled = heap.queue[k].signaled
  <2>1. Range(<<>>) = {}
    BY DEF Range
  <2>2. QED
    BY <1>1, <1>2, <2>1
<1> HIDE DEF b
<1>8. StrandInv(t)
  BY <1>1, <1>2, <1>5, <1>7, StrandSettle, Zenon
<1>9. QED
  BY <1>1, <1>4, <1>6, <1>8, StepTo

\* A stop begins, or a connection is made: callbacks stay as they are.
LEMMA StateStep ==
  ASSUME CallsInv, StopStarts \/ Reopens
  PROVE  CallsInv'
<1>1. heap' = heap /\ state' # "Disconnected"
  BY DEF StopStarts, Reopens, heap
<1>2. g' \in Connections
  BY BoundsAssumption DEF CallsInv, StopStarts, Reopens, Connections
<1>3. ForgetInv(heap, state')
  BY <1>1 DEF CallsInv, ForgetInv
<1>4. QED
  BY <1>1, <1>2, <1>3 DEF CallsInv

\* The connection closes: no call stays pending, and the loop wakes up.
LEMMA ClosesStep ==
  ASSUME CallsInv, Closes
  PROVE  CallsInv'
<1> DEFINE u == IF queue[g].at = "none" THEN heap ELSE [heap EXCEPT !.queue[g] = queueStop(@)]
           t == cancelCallbacksWithError(u)
<1>1. /\ heap \in Heap /\ RegInv(heap) /\ StrandInv(heap) /\ ForgetInv(heap, state)
      /\ heap.ids = invocationId /\ heap.call = call /\ heap.callbacks = callbacks /\ heap.queue = queue
      /\ queue[g] \in QueueState /\ queue \in [Connections -> QueueState] /\ g \in Connections
      /\ CallsQuiet /\ UNCHANGED g /\ state' = "Disconnected" /\ Becomes(t)
      /\ \A c \in Calls : call[c].answer \in {c, NoCall} /\ ~call[c].late
  BY InvFacts DEF Closes, Quiet
<1>2. /\ u \in Heap /\ u.call = call /\ u.callbacks = callbacks /\ u.ids = invocationId
      /\ \A k \in Connections : /\ u.queue[k].batch = queue[k].batch /\ u.queue[k].buffer = queue[k].buffer
                                /\ u.queue[k].at = queue[k].at
                                /\ queue[k].signaled => u.queue[k].signaled
  <2>1. CASE queue[g].at = "none"
    BY <1>1, <2>1
  <2>2. CASE queue[g].at # "none"
    <3> DEFINE q == queueStop(queue[g])
    <3>1. /\ q \in QueueState /\ q.at = queue[g].at /\ q.batch = queue[g].batch
          /\ q.buffer = queue[g].buffer /\ q.signaled
      BY <1>1, Zenon DEF QueueState, queueStop
    <3>2. u = SetQueue(heap, g, q)
      BY <1>1, <2>2 DEF SetQueue, Heap
    <3> HIDE DEF q, u
    <3>3. /\ u \in Heap /\ u.call = call /\ u.callbacks = callbacks /\ u.ids = invocationId
          /\ u.queue = [queue EXCEPT ![g] = q]
      <4>1. heap \in Heap /\ g \in Connections /\ q \in QueueState
        BY <1>1, <3>1
      <4>2. /\ u \in Heap /\ u.call = heap.call /\ u.callbacks = heap.callbacks /\ u.ids = heap.ids
            /\ u.queue = [heap.queue EXCEPT ![g] = q]
        BY <3>2, <4>1, QueueEffect
      <4>3. QED
        BY <1>1, <4>2
    <3>4. u.queue[g] = q /\ \A k \in Connections : k # g => u.queue[k] = queue[k]
      BY <1>1, <3>3
    <3>5. QED
      BY <3>1, <3>3, <3>4
  <2>3. QED
    BY <2>1, <2>2
<1> HIDE DEF u
<1>3. /\ t \in Heap /\ t.queue = u.queue /\ t.ids = u.ids /\ t.callbacks = [i \in Ids |-> NoCall]
      /\ \A c \in Calls :
           /\ t.call[c].op = u.call[c].op /\ t.call[c].id = u.call[c].id /\ t.call[c].msg = u.call[c].msg
           /\ t.call[c].answer = u.call[c].answer /\ t.call[c].late = u.call[c].late
           /\ t.call[c].promise = "pending" => /\ u.call[c].promise = "pending"
                                               /\ \A i \in Ids : u.callbacks[i] # c
  BY <1>2, CancelEffect
<1> HIDE DEF t
<1>a. \A c \in Calls :
        /\ t.call[c].op = call[c].op /\ t.call[c].id = call[c].id /\ t.call[c].msg = call[c].msg
        /\ t.call[c].answer = call[c].answer /\ t.call[c].late = call[c].late
        /\ t.call[c].promise = "pending" => /\ call[c].promise = "pending"
                                            /\ \A i \in Ids : callbacks[i] # c
  BY <1>2, <1>3
<1>b. \A k \in Connections : /\ t.queue[k].batch = queue[k].batch /\ t.queue[k].buffer = queue[k].buffer
                             /\ t.queue[k].at = queue[k].at
                             /\ queue[k].signaled => t.queue[k].signaled
  BY <1>2, <1>3
<1>c. t.ids = heap.ids /\ \A i \in Ids : t.callbacks[i] = NoCall
  BY <1>1, <1>2, <1>3
<1>d. heap.call = call /\ heap.queue = queue /\ StrandInv(heap)
        /\ \A c \in Calls : call[c].answer \in {c, NoCall} /\ ~call[c].late
  BY <1>1
<1>4. RegInv(t)
  <2>1. \A c \in Calls :
          /\ t.call[c].op = heap.call[c].op /\ t.call[c].id = heap.call[c].id
          /\ t.call[c].answer \in {c, NoCall} /\ ~t.call[c].late
          /\ t.call[c].op = "stream" /\ t.call[c].promise # heap.call[c].promise
               => \A i \in Ids : t.callbacks[i] # c
    BY <1>a, <1>c, <1>d, NoCallAssumption
  <2>2. \A i \in Ids : t.callbacks[i] \in {heap.callbacks[i], NoCall}
    BY <1>c
  <2>3. QED
    BY <1>1, <1>3, <1>c, <2>1, <2>2, RegKept
<1>5. ForgetInv(t, "Disconnected")
  <2>1. ASSUME NEW c \in Calls, t.call[c].op \in Expecting, t.call[c].promise = "pending" PROVE FALSE
    <3>1. call[c].op \in Expecting /\ call[c].promise = "pending" /\ \A i \in Ids : callbacks[i] # c
      BY <1>a, <2>1
    <3>2. callbacks[call[c].id] = c /\ call[c].id \in Ids
      BY <1>1, <3>1 DEF ForgetInv, RegInv, CallsQuiet
    <3>3. QED
      BY <3>1, <3>2
  <2>2. QED
    BY <2>1 DEF ForgetInv
<1>6. StrandInv(t)
  <2>1. \A k \in Connections :
          /\ t.queue[k].batch = heap.queue[k].batch /\ t.queue[k].buffer = heap.queue[k].buffer
          /\ t.queue[k].at = heap.queue[k].at
          /\ heap.queue[k].signaled => t.queue[k].signaled
    BY <1>b, <1>d
  <2>2. \A c \in Calls : t.call[c].op = heap.call[c].op /\ t.call[c].msg = heap.call[c].msg
    BY <1>a, <1>d
  <2>3. QED
    BY <1>d, <2>1, <2>2, StrandSame
<1>7. heap' = t
  BY <1>1, <1>3, BecomesHeap
<1>8. QED
  BY <1>1, <1>3, <1>4, <1>5, <1>6, <1>7 DEF CallsInv

\* At the beginning there is no call, no callback and no message.
LEMMA CallsInit ==
  Init => CallsInv
<1> SUFFICES ASSUME Init PROVE CallsInv
  OBVIOUS
<1>1. <<>> \in Seq(Sendable) /\ Range(<<>>) = {}
  BY DEF Range
<1>2. \A c \in Calls : /\ call[c] \in CallState /\ call[c].op = "none" /\ call[c].msg = "none"
                       /\ call[c].answer = NoCall /\ ~call[c].late
  BY DEF Init, CallState, Ops
<1>3. \A k \in Connections : queue[k] \in QueueState /\ queue[k].batch = <<>> /\ queue[k].buffer = <<>>
  BY <1>1 DEF Init, QueueState
<1>4. call \in [Calls -> CallState] /\ queue \in [Connections -> QueueState]
        /\ callbacks = [i \in Ids |-> NoCall] /\ invocationId = 0
  <2>1. call = [c \in Calls |-> call[c]] /\ queue = [k \in Connections |-> queue[k]]
    BY DEF Init
  <2>2. QED
    BY <1>2, <1>3, <2>1, Zenon DEF Init
<1>5. heap \in Heap /\ heap.call = call /\ heap.queue = queue /\ heap.callbacks = callbacks /\ heap.ids = 0
  BY <1>4 DEF heap, Heap
<1>6. g \in Connections
  BY BoundsAssumption DEF Init, Connections
<1>7. RegInv(heap)
  <2>4. \A i \in Ids : heap.callbacks[i] = NoCall
    BY <1>4, <1>5
  <2>5. QED
    BY <1>2, <1>5, <2>4 DEF RegInv, Expecting
<1>8. ForgetInv(heap, state)
  BY <1>2, <1>5 DEF ForgetInv, Expecting
<1>9. StrandInv(heap)
  BY <1>1, <1>2, <1>3, <1>5 DEF StrandInv
<1>10. QED
  BY <1>5, <1>6, <1>7, <1>8, <1>9 DEF CallsInv

\* Every step keeps the invariant.
LEMMA CallsStep ==
  ASSUME CallsInv, [Next]_vars
  PROVE  CallsInv'
<1>1. CASE UNCHANGED vars
  <2>1. heap' = heap /\ UNCHANGED <<state, g>>
    BY <1>1 DEF vars, heap
  <2>2. QED
    BY <2>1 DEF CallsInv
<1>2. CASE Next
  <2>1. CASE \E c \in Calls, op \in Ops \ {"none"}, upload \in BOOLEAN : Call(c, op, upload)
    BY <2>1, CallStep
  <2>2. CASE \E c \in Calls, last \in BOOLEAN : Produce(c, last)
    BY <2>2, ProduceStep
  <2>3. CASE \E c \in Calls : Dispose(c) \/ ItemArrives(c)
    BY <2>3, DisposeStep, ItemStep
  <2>4. CASE \E c \in Calls, how \in {"resolved", "rejected"} : CompletionArrives(c, how)
    BY <2>4, CompletionStep
  <2>5. CASE Continue
    BY <2>5, SettledStep, LinkStep, CancelStep, WakeStep DEF Continue
  <2>6. CASE \E k \in Connections : TransportStep(k)
    BY <2>6, DeliverStep, ReturnsStep DEF TransportStep
  <2>7. CASE StopStarts \/ Closes \/ Reopens
    BY <2>7, StateStep, ClosesStep
  <2>8. QED
    BY <1>2, <2>1, <2>2, <2>3, <2>4, <2>5, <2>6, <2>7 DEF Next
<1>3. QED
  BY <1>1, <1>2

-----------------------------------------------------------------------------
(* The theorems.                                                           *)

\* Every completion settles the call it is for: invocationId is one counter for calls
\* and uploads that no connection resets.
THEOREM CompletionsFindTheirCall ==
  Spec => []OwnAnswer
<1>1. CallsInv => OwnAnswer
  BY InvFacts DEF OwnAnswer
<1>2. QED
  BY <1>1, CallsInit, CallsStep, PTL DEF Spec

\* An invoke or a stream that is pending can still be answered: its callback is
\* registered and there is a connection (invoke, stream, connectionClosed).
THEOREM PendingIsAnswerable ==
  Spec => []NoCallForgotten
<1>1. CallsInv => NoCallForgotten
  <2> SUFFICES ASSUME CallsInv, CallsQuiet, NEW c \in Calls,
                      call[c].op \in Expecting, call[c].promise = "pending"
               PROVE  callbacks[call[c].id] = c /\ state # "Disconnected"
    BY DEF NoCallForgotten, Quiet, Expecting
  <2>1. call[c].msg # "rejected"
    BY DEF CallsQuiet
  <2>2. QED
    BY <2>1, InvFacts DEF ForgetInv
<1>2. QED
  BY <1>1, CallsInit, CallsStep, PTL DEF Spec

\* The observer of a stream is told nothing after its end: whoever ends a stream
\* (completion, dispose, an invocation not sent, cancelCallbacksWithError) takes its
\* callback away in the same step.
THEOREM EndIsTheEnd ==
  Spec => []NoItemAfterEnd
<1>1. CallsInv => NoItemAfterEnd
  BY InvFacts DEF NoItemAfterEnd
<1>2. QED
  BY <1>1, CallsInit, CallsStep, PTL DEF Spec

\* TransportSendQueue misses no wake-up: sendBufferedData is renewed before the buffer
\* is taken, so a message is in the batch or has signaled the loop.
THEOREM WakeUpsComplete ==
  Spec => []NothingStranded
<1>1. CallsInv => NothingStranded
  BY InvFacts DEF NothingStranded, StrandInv, Invocation
<1>2. QED
  BY <1>1, CallsInit, CallsStep, PTL DEF Spec
=============================================================================
