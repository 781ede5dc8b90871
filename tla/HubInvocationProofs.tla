------------------------- MODULE HubInvocationProofs -------------------------
(***************************************************************************)
(* Proofs about HubInvocation, for any number of invocations, items and    *)
(* requests to cancel: what is written about an invocation ends with its   *)
(* completion, and a canceled stream stops.                                *)
(***************************************************************************)
EXTENDS HubInvocation, SequenceTheorems, TLAPS

\* What a goroutine has still to write for a method that returned; for one that
\* panicked it is some sequence of completions and errors.
Answers == {<<"completion">>, <<"error">>, <<"item", "completion">>}
Endings == Seq({"completion", "error"})

AllItems(s) == \A n \in DOMAIN s : s[n] = "item"
OnlyLast(s) == \A n \in DOMAIN s : n < Len(s) => s[n] = "item"

\* Only items precede the last message, and nothing is written before the
\* method has ended, unless it is an item of a stream.
WireAt(i) ==
  /\ pc[i] = "call" => ~Rejected(shape[i])
  /\ i \in panics => pc[i] \in {"write", "done"}
  /\ pc[i] = "write" => todo[i] # <<>> /\ todo[i] \in IF i \in panics THEN Endings ELSE Answers
  /\ i \notin panics =>
       /\ pc[i] \in {"new", "reject", "call", "recv"} => wire[i] = <<>>
       /\ pc[i] \in {"stream", "item", "write"} => AllItems(wire[i])
       /\ OnlyLast(wire[i])

\* A stream that has delivered an item since it was canceled is still canceled,
\* or has only its completion to write.
LateAt(i) ==
  /\ late[i] \in {0, 1}
  /\ late[i] = 1 => pc[i] \in {"stream", "write", "done"}
  /\ late[i] = 1 /\ pc[i] = "stream" => i \in cancels
  /\ late[i] = 1 /\ pc[i] = "write" => todo[i] # <<"item", "completion">>

WireInv == \A i \in Invocations : WireAt(i)
LateInv == \A i \in Invocations : LateAt(i)

\* The answers are sequences of messages with the heads and tails they show.
LEMMA AnswersShape ==
  /\ Answers \cup Endings \subseteq Seq(Messages)
  /\ <<>> \notin Answers
  /\ \A s \in Answers : Tail(s) = <<>> \/ (Head(s) = "item" /\ Tail(s) = <<"completion">>)
  /\ \A s \in Answers : Head(s) \in Messages
  /\ \A s \in Answers :
       Head(s) = "item" => s = <<"item", "completion">> /\ Tail(s) = <<"completion">>
  /\ <<"completion">> # <<"item", "completion">>
<1>1. Endings \subseteq Seq(Messages)
  BY SeqMonotonic DEF Endings, Messages
<1>2. Answers \subseteq Seq(Messages)
  BY DEF Answers, Messages
<1>3. /\ \A s \in Answers : Tail(s) = <<>> \/ (Head(s) = "item" /\ Tail(s) = <<"completion">>)
      /\ \A s \in Answers : Head(s) \in Messages
      /\ \A s \in Answers :
           Head(s) = "item" => s = <<"item", "completion">> /\ Tail(s) = <<"completion">>
  BY DEF Answers, Messages
<1>4. <<>> \notin Answers /\ <<"completion">> # <<"item", "completion">>
  BY DEF Answers
<1> QED
  BY <1>1, <1>2, <1>3, <1>4

\* And so are the endings.
LEMMA EndingsShape ==
  ASSUME NEW s \in Endings, s # <<>>
  PROVE  Head(s) \in Messages \ {"item"} /\ Tail(s) \in Endings /\ s # <<"item", "completion">>
<1>1. Head(s) \in {"completion", "error"} /\ Tail(s) \in Endings
  BY HeadTailProperties DEF Endings
<1>2. Head(<<"item", "completion">>) = "item"
  OBVIOUS
<1> QED
  BY <1>1, <1>2 DEF Messages

\* One more message after items only.
LEMMA AppendItems ==
  ASSUME NEW s \in Seq(Messages), NEW m \in Messages, AllItems(s)
  PROVE  OnlyLast(s) /\ OnlyLast(Append(s, m)) /\ (m = "item" => AllItems(Append(s, m)))
  BY DEF AllItems, OnlyLast

\* The empty sequence holds only items.
LEMMA EmptyItems == AllItems(<<>>) /\ OnlyLast(<<>>) /\ <<>> \in Seq(Messages)
  BY DEF AllItems, OnlyLast

\* What is sent for a method that was not rejected.
LEMMA ResultsShape ==
  ASSUME NEW s \in Shapes, ~Rejected(s)
  PROVE  /\ ~(s.hasID /\ s.method = "chan")
              => Results(s, IF s.method = "void" THEN 0 ELSE 1) \in Answers \cup {<<>>}
         /\ <<"error">> \o Results(s, 0) \in Endings
<1>1. s.type \in {1, 4} /\ s.hasID \in BOOLEAN /\ s.method \in Methods
  BY DEF Shapes
<1>2. Results(s, 0) \in Endings
  <2>1. <<>> \in Endings /\ <<"completion">> \in Endings /\ <<"completion", "completion">> \in Endings
    BY DEF Endings
  <2> QED
    BY <1>1, <2>1 DEF Results
<1>3. <<"error">> \in Endings
  BY DEF Endings
<1>4. <<"error">> \o Results(s, 0) \in Endings
  BY <1>2, <1>3, ConcatProperties DEF Endings
<1> QED
  BY <1>1, <1>4 DEF Rejected, OneOut, Results, Answers, Methods

-----------------------------------------------------------------------------
(* What an action does to the messages of an invocation *)

\* Every variable has its type at first, nothing is written.
LEMMA InitInv == Init => TypeOK /\ WireInv /\ LateInv
<1> SUFFICES ASSUME Init PROVE TypeOK /\ WireInv /\ LateInv
  OBVIOUS
<1>1. TypeOK
  BY EmptyItems, Zenon DEF Init, TypeOK, Shapes, Methods
<1>2. WireInv
  BY EmptyItems DEF Init, WireInv, WireAt
<1>3. LateInv
  BY DEF Init, LateInv, LateAt
<1> QED
  BY <1>1, <1>2, <1>3

\* Every step keeps the types.
LEMMA TypesStep ==
  ASSUME TypeOK, WireInv, [Next]_vars
  PROVE  TypeOK'
<1> USE DEF TypeOK, streamVars, cancelVars
<1>1. ASSUME NEW i \in Invocations, NEW m \in Messages, Write(i, m)
      PROVE  wire' \in [Invocations -> Seq(Messages)] /\ late' \in [Invocations -> Nat]
             /\ ctxDone' \in BOOLEAN
  <2>1. Append(wire[i], m) \in Seq(Messages)
    BY AppendProperties
  <2>2. wire' \in [Invocations -> Seq(Messages)]
    BY <1>1, <2>1, Zenon DEF Write
  <2>3. late' \in [Invocations -> Nat]
    <3>1. late' = late \/ late' = [late EXCEPT ![i] = late[i] + 1]
      BY <1>1, Zenon DEF Write
    <3>2. late \in [Invocations -> Nat] /\ late[i] + 1 \in Nat
      OBVIOUS
    <3> HIDE DEF TypeOK
    <3> QED
      BY <3>1, <3>2
  <2>4. ctxDone' \in BOOLEAN
    BY <1>1, Zenon DEF Write
  <2> QED
    BY <2>2, <2>3, <2>4
<1>2. ASSUME NEW i \in Invocations, NEW ms \in Seq(Messages), Answer(i, ms)
      PROVE  pc' \in [Invocations -> {"new", "reject", "call", "write", "recv", "stream",
                                      "item", "done"}]
             /\ todo' \in [Invocations -> Seq(Messages)]
  BY <1>2 DEF Answer
<1>3. <<>> \in Seq(Messages) /\ <<"completion">> \in Seq(Messages) /\ <<"error">> \in Seq(Messages)
      /\ "error" \in Messages /\ "item" \in Messages
  BY DEF Messages
<1>4. ASSUME NEW i \in Invocations, NEW s \in Shapes, handleInvocationMessage(i, s)
      PROVE  TypeOK'
  BY <1>4, Zenon DEF handleInvocationMessage
<1>5. ASSUME NEW i \in Invocations, RejectInvocation(i)
      PROVE  TypeOK'
  BY <1>5, <1>1, <1>3 DEF RejectInvocation
<1>6. ASSUME NEW i \in Invocations, Stop(i)
      PROVE  TypeOK'
  <2>1. CASE UNCHANGED cancelVars
    BY <1>6, <2>1 DEF Stop
  <2>2. CASE cancels' = cancels \cup {i} /\ cancelCount' = cancelCount + 1
    BY <1>6, <2>2 DEF Stop
  <2> QED
    BY <1>6, <2>1, <2>2, Zenon DEF Stop
<1>7. ASSUME NEW i \in Invocations, SendResult(i)
      PROVE  TypeOK'
  <2>1. Head(todo[i]) \in Messages /\ Tail(todo[i]) \in Seq(Messages)
    BY <1>7, HeadTailProperties DEF SendResult, WireInv, WireAt
  <2> QED
    BY <1>7, <1>1, <1>2, <2>1, Zenon DEF SendResult
<1>8. ASSUME NEW i \in Invocations, RecvClosed(i)
      PROVE  TypeOK'
  BY <1>8, <1>2, <1>3, Zenon DEF RecvClosed
<1>9. ASSUME NEW i \in Invocations, StreamItem(i)
      PROVE  TypeOK'
  BY <1>9, <1>1, <1>3 DEF StreamItem
<1>10. ASSUME NEW i \in Invocations, StreamClosed(i)
       PROVE  TypeOK'
  BY <1>10, <1>2, <1>3, Zenon DEF StreamClosed
<1>11. ASSUME NEW i \in Invocations, returnInvocationResult(i)
       PROVE  TypeOK'
  <2>1. shape[i] \in Shapes /\ ~Rejected(shape[i])
    BY <1>11 DEF returnInvocationResult, WireInv, WireAt
  <2>2. ~(shape[i].hasID /\ shape[i].method = "chan")
          => Results(shape[i], IF shape[i].method = "void" THEN 0 ELSE 1) \in Seq(Messages)
    BY <2>1, <1>3, ResultsShape, AnswersShape, Zenon
  <2> QED
    BY <1>11, <1>2, <2>2, Zenon DEF returnInvocationResult
<1>12. ASSUME NEW i \in Invocations, recoverInvocationPanic(i)
       PROVE  TypeOK'
  <2>1. shape[i] \in Shapes /\ ~Rejected(shape[i])
    BY <1>12 DEF recoverInvocationPanic, WireInv, WireAt
  <2>2. <<"error">> \o Results(shape[i], 0) \in Seq(Messages)
    BY <2>1, ResultsShape, AnswersShape, Zenon
  <2> QED
    BY <1>12, <1>2, <1>3, <2>2, Zenon DEF recoverInvocationPanic
<1>13. ASSUME NEW i \in Invocations, HubCloses(i)
       PROVE  TypeOK'
  BY <1>13 DEF HubCloses
<1>14. ASSUME NEW i \in Invocations, RecvResult(i)
       PROVE  TypeOK'
  BY <1>14, <1>2, <1>3, Zenon DEF RecvResult
<1>15. ASSUME NEW i \in Invocations, StreamRecv(i)
       PROVE  TypeOK'
  <2>1. /\ pc' \in [Invocations -> {"new", "reject", "call", "write", "recv", "stream",
                                     "item", "done"}]
        /\ todo' \in [Invocations -> Seq(Messages)]
        /\ cancels' \subseteq Invocations
    BY <1>15, <1>2, <1>3, Zenon DEF StreamRecv
  <2>2. items' \in [Invocations -> Nat]
    BY <1>15 DEF StreamRecv
  <2> QED
    BY <1>15, <2>1, <2>2 DEF StreamRecv
<1>16. CASE LoopEnds \/ ConnectionCanceled
  BY <1>16, Zenon DEF LoopEnds, ConnectionCanceled
<1>17. CASE UNCHANGED vars
  BY <1>17 DEF vars
<1> HIDE DEF TypeOK
<1> QED
  BY <1>4, <1>5, <1>6, <1>7, <1>8, <1>9, <1>10, <1>11, <1>12, <1>13, <1>14, <1>15, <1>16, <1>17
     DEF Next, Goroutine, Hub

\* The other invocations are as they were.
Others(i) ==
  \A j \in Invocations \ {i} :
    /\ pc'[j] = pc[j] /\ todo'[j] = todo[j] /\ wire'[j] = wire[j] /\ shape'[j] = shape[j]
    /\ late'[j] = late[j]
    /\ j \in panics' <=> j \in panics
    /\ j \in cancels => j \in cancels'

\* Then it is enough to look at i.
LEMMA OthersKept ==
  ASSUME WireInv, LateInv, NEW i \in Invocations, Others(i), WireAt(i)', LateAt(i)'
  PROVE  WireInv' /\ LateInv'
<1>1. ASSUME NEW j \in Invocations \ {i}
      PROVE  WireAt(j)' /\ LateAt(j)'
  BY DEF Others, WireInv, LateInv, WireAt, LateAt
<1> QED
  BY <1>1 DEF WireInv, LateInv

\* What a write does to the messages of i; late counts an item of a stream that
\* is canceled.
LEMMA WriteEffect ==
  ASSUME TypeOK, NEW i \in Invocations, NEW m \in Messages, Write(i, m)
  PROVE  /\ \A j \in Invocations \ {i} : wire'[j] = wire[j] /\ late'[j] = late[j]
         /\ wire'[i] = wire[i] \/ wire'[i] = Append(wire[i], m)
         /\ \/ late'[i] = late[i]
            \/ late'[i] = late[i] + 1 /\ i \in cancels /\ m = "item"
  BY DEF TypeOK, Write

\* Every step keeps both.
LEMMA WireStep ==
  ASSUME TypeOK, WireInv, LateInv, [Next]_vars
  PROVE  WireInv' /\ LateInv'
<1> DEFINE Goal == WireInv' /\ LateInv'
<1>1. ASSUME NEW i \in Invocations PROVE WireAt(i) /\ LateAt(i)
  BY DEF WireInv, LateInv
<1>2. /\ <<"completion">> \in Answers /\ <<"error">> \in Answers
      /\ <<"completion">> # <<>> /\ <<"error">> # <<>>
      /\ <<"completion">> # <<"item", "completion">> /\ <<"error">> # <<"item", "completion">>
  BY AnswersShape DEF Answers
<1>3. AllItems(<<>>) /\ OnlyLast(<<>>)
  BY EmptyItems
<1> USE DEF TypeOK, streamVars, cancelVars
<1>4. ASSUME NEW i \in Invocations, NEW s \in Shapes, handleInvocationMessage(i, s)
      PROVE  Goal
  <2>1. Others(i)
    BY <1>4 DEF handleInvocationMessage, Others
  <2>2. WireAt(i)' /\ LateAt(i)'
    BY <1>4, <1>1 DEF handleInvocationMessage, WireAt, LateAt
  <2> QED
    BY <2>1, <2>2, OthersKept
<1>5. ASSUME NEW i \in Invocations, RejectInvocation(i)
      PROVE  Goal
  <2>0. "error" \in Messages /\ "error" # "item"
    BY DEF Messages
  <2>1. Others(i)
    BY <1>5, <2>0, WriteEffect DEF RejectInvocation, Others
  <2>2. wire'[i] = wire[i] \/ wire'[i] = Append(wire[i], "error")
    BY <1>5, <2>0, WriteEffect DEF RejectInvocation
  <2>3. late'[i] = late[i]
    BY <1>5, <2>0, WriteEffect DEF RejectInvocation
  <2>4. i \notin panics /\ wire[i] = <<>> /\ late[i] = 0
    BY <1>5, <1>1 DEF RejectInvocation, WireAt, LateAt
  <2>5. OnlyLast(wire'[i])
    BY <2>0, <2>2, <2>4, AppendItems, EmptyItems, Zenon
  <2>6. WireAt(i)' /\ LateAt(i)'
    BY <1>5, <2>3, <2>4, <2>5 DEF RejectInvocation, WireAt, LateAt
  <2> QED
    BY <2>1, <2>6, OthersKept
<1>6. ASSUME NEW i \in Invocations, Stop(i)
      PROVE  Goal
  <2>1. UNCHANGED <<shape, pc, todo, wire, panics, late>> /\ cancels \subseteq cancels'
    BY <1>6, Zenon DEF Stop
  <2>2. ASSUME NEW j \in Invocations PROVE WireAt(j)' /\ LateAt(j)'
    BY <1>1, <2>1 DEF WireAt, LateAt
  <2> QED
    BY <2>2 DEF WireInv, LateInv
<1>7. ASSUME NEW i \in Invocations, SendResult(i)
      PROVE  Goal
  <2> DEFINE h == Head(todo[i])
             t == Tail(todo[i])
  <2>1. /\ pc[i] = "write" /\ todo[i] # <<>> /\ Write(i, h) /\ Answer(i, t)
        /\ UNCHANGED <<shape, cancels, panics>>
        /\ WireAt(i) /\ LateAt(i)
    BY <1>7, <1>1 DEF SendResult, WireAt
  <2>2. h \in Messages
    BY <2>1, HeadTailProperties
  <2>3. Others(i)
    BY <2>1, <2>2, WriteEffect DEF Answer, Others
  <2>4. /\ wire'[i] = wire[i] \/ wire'[i] = Append(wire[i], h)
        /\ late'[i] = late[i] \/ (late'[i] = late[i] + 1 /\ h = "item")
    BY <2>1, <2>2, WriteEffect
  <2>5. pc'[i] = (IF t = <<>> THEN "done" ELSE "write") /\ todo'[i] = t
    BY <2>1 DEF Answer
  <2>6. CASE i \in panics
    <3>1. todo[i] \in Endings
      BY <2>1, <2>6 DEF WireAt
    <3>2. h # "item" /\ t \in Endings /\ (t # <<>> => t # <<"item", "completion">>)
      BY <2>1, <3>1, EndingsShape, Zenon
    <3> HIDE DEF h, t
    <3>3. WireAt(i)'
      BY <2>1, <2>5, <2>6, <3>2 DEF WireAt
    <3>4. LateAt(i)'
      BY <2>1, <2>4, <2>5, <3>2 DEF LateAt
    <3> QED
      BY <2>3, <3>3, <3>4, OthersKept
  <2>7. CASE i \notin panics
    <3>1. todo[i] \in Answers /\ AllItems(wire[i]) /\ wire[i] \in Seq(Messages)
      BY <2>1, <2>7 DEF WireAt
    <3>2. t = <<>> \/ (h = "item" /\ t = <<"completion">>)
      BY <3>1, AnswersShape
    <3>3. h = "item" => todo[i] = <<"item", "completion">> /\ t = <<"completion">>
      BY <3>1, AnswersShape
    <3>4. OnlyLast(wire'[i])
      BY <2>2, <2>4, <3>1, AppendItems, Zenon
    <3>5. h = "item" => AllItems(wire'[i])
      BY <2>2, <2>4, <3>1, AppendItems, Zenon
    <3>6. h = "item" => late[i] = 0
      BY <2>1, <3>3 DEF LateAt
    <3> HIDE DEF h, t
    <3>7. WireAt(i)'
      BY <1>2, <2>1, <2>5, <2>7, <3>2, <3>4, <3>5, Zenon DEF WireAt
    <3>8. LateAt(i)'
      BY <1>2, <2>1, <2>4, <2>5, <3>2, <3>3, <3>6 DEF LateAt
    <3> QED
      BY <2>3, <3>7, <3>8, OthersKept
  <2> QED
    BY <2>6, <2>7
<1>8. ASSUME NEW i \in Invocations, RecvClosed(i)
       PROVE  Goal
  <2>1. Others(i)
    BY <1>8 DEF RecvClosed, Answer, Others
  <2>2. i \notin panics /\ wire[i] = <<>> /\ late[i] = 0
    BY <1>8, <1>1, Zenon DEF RecvClosed, WireAt, LateAt
  <2>3. pc'[i] = "write" /\ todo'[i] = <<"error">> /\ UNCHANGED <<wire, panics, late>>
    BY <1>8, <1>2 DEF RecvClosed, Answer
  <2>4. WireAt(i)' /\ LateAt(i)'
    BY <1>2, <1>3, <2>2, <2>3 DEF WireAt, LateAt
  <2> QED
    BY <2>1, <2>4, OthersKept
<1>9. ASSUME NEW i \in Invocations, StreamItem(i)
      PROVE  Goal
  <2>1. "item" \in Messages
    BY DEF Messages
  <2>2. /\ pc[i] = "item" /\ Write(i, "item") /\ pc'[i] = "stream"
        /\ UNCHANGED <<shape, todo, cancels, panics>>
        /\ WireAt(i) /\ LateAt(i)
    BY <1>9, <1>1 DEF StreamItem
  <2>3. Others(i)
    BY <1>9, <2>1, <2>2, WriteEffect DEF StreamItem, Others
  <2>4. /\ wire'[i] = wire[i] \/ wire'[i] = Append(wire[i], "item")
        /\ late'[i] = late[i] \/ (late'[i] = late[i] + 1 /\ i \in cancels)
    BY <2>1, <2>2, WriteEffect
  <2>5. i \notin panics /\ AllItems(wire[i]) /\ wire[i] \in Seq(Messages) /\ late[i] = 0
    BY <2>2 DEF WireAt, LateAt
  <2>6. AllItems(wire'[i]) /\ OnlyLast(wire'[i])
    BY <2>1, <2>4, <2>5, AppendItems, Zenon
  <2>7. WireAt(i)'
    BY <2>2, <2>5, <2>6 DEF WireAt
  <2>8. LateAt(i)'
    BY <2>2, <2>4, <2>5 DEF LateAt
  <2> QED
    BY <2>3, <2>7, <2>8, OthersKept
<1>10. ASSUME NEW i \in Invocations, StreamClosed(i)
       PROVE  Goal
  <2>1. Others(i)
    BY <1>10 DEF StreamClosed, Answer, Others
  <2>2. WireAt(i)' /\ LateAt(i)'
    BY <1>10, <1>1, <1>2, <1>3 DEF StreamClosed, Answer, WireAt, LateAt
  <2> QED
    BY <2>1, <2>2, OthersKept
<1>11. ASSUME NEW i \in Invocations, returnInvocationResult(i)
       PROVE  Goal
  <2>1. Others(i)
    BY <1>11 DEF returnInvocationResult, Answer, Others
  <2>2. /\ shape[i] \in Shapes /\ ~Rejected(shape[i]) /\ i \notin panics /\ wire[i] = <<>>
        /\ late[i] = 0
    BY <1>11, <1>1, Zenon DEF returnInvocationResult, WireAt, LateAt
  <2> DEFINE ms == Results(shape[i], IF shape[i].method = "void" THEN 0 ELSE 1)
  <2>3. ~(shape[i].hasID /\ shape[i].method = "chan") => ms \in Answers \cup {<<>>}
    BY <2>2, ResultsShape
  <2>4. \/ pc'[i] \in {"recv", "stream", "done"}
        \/ pc'[i] = "write" /\ todo'[i] \in Answers /\ todo'[i] # <<>>
    <3> HIDE DEF ms
    <3> QED
      BY <1>11, <2>3 DEF returnInvocationResult, Answer, ms
  <2>5. UNCHANGED <<wire, late, panics, cancels>>
    BY <1>11 DEF returnInvocationResult
  <2>6. WireAt(i)' /\ LateAt(i)'
    BY <1>3, <2>2, <2>4, <2>5 DEF WireAt, LateAt
  <2> QED
    BY <2>1, <2>6, OthersKept
<1>12. ASSUME NEW i \in Invocations, recoverInvocationPanic(i)
       PROVE  Goal
  <2>1. Others(i)
    BY <1>12 DEF recoverInvocationPanic, Answer, Others
  <2>2. shape[i] \in Shapes /\ ~Rejected(shape[i]) /\ late[i] = 0
    BY <1>12, <1>1, Zenon DEF recoverInvocationPanic, WireAt, LateAt
  <2> DEFINE ms == <<"error">> \o Results(shape[i], 0)
  <2>3. ms \in Endings
    BY <2>2, ResultsShape
  <2>4. pc'[i] = "done" \/ (pc'[i] = "write" /\ todo'[i] \in Endings /\ todo'[i] # <<>>)
    <3> HIDE DEF ms
    <3> QED
      BY <1>12, <2>3 DEF recoverInvocationPanic, Answer, ms
  <2>5. UNCHANGED <<wire, late>> /\ i \in panics'
    BY <1>12 DEF recoverInvocationPanic
  <2>6. WireAt(i)' /\ LateAt(i)'
    BY <2>2, <2>4, <2>5 DEF WireAt, LateAt
  <2> QED
    BY <2>1, <2>6, OthersKept
<1>13. ASSUME NEW i \in Invocations, HubCloses(i)
       PROVE  Goal
  <2>1. ASSUME NEW j \in Invocations PROVE WireAt(j)' /\ LateAt(j)'
    BY <1>1, <1>13 DEF HubCloses, WireAt, LateAt
  <2> QED
    BY <2>1 DEF WireInv, LateInv
<1>14. ASSUME NEW i \in Invocations, RecvResult(i)
       PROVE  Goal
  <2>1. Others(i)
    BY <1>14 DEF RecvResult, Answer, Others
  <2>2. i \notin panics /\ wire[i] = <<>> /\ late[i] = 0
    BY <1>14, <1>1, Zenon DEF RecvResult, WireAt, LateAt
  <2>3. pc'[i] = "write" /\ todo'[i] = <<"completion">> /\ UNCHANGED <<wire, panics, late>>
    BY <1>14, <1>2 DEF RecvResult, Answer
  <2>4. WireAt(i)' /\ LateAt(i)'
    BY <1>2, <1>3, <2>2, <2>3 DEF WireAt, LateAt
  <2> QED
    BY <2>1, <2>4, OthersKept
<1>15. ASSUME NEW i \in Invocations, StreamRecv(i)
       PROVE  Goal
  <2>1. Others(i)
    BY <1>15 DEF StreamRecv, Answer, Others
  <2>2. i \notin panics /\ AllItems(wire[i]) /\ OnlyLast(wire[i]) /\ LateAt(i) /\ pc[i] = "stream"
    BY <1>15, <1>1 DEF StreamRecv, WireAt
  <2>3. UNCHANGED <<wire, panics, late>>
    BY <1>15 DEF StreamRecv
  <2>4. \/ pc'[i] = "write" /\ todo'[i] = <<"completion">>
        \/ pc'[i] \in {"item", "done"} /\ i \notin cancels
    BY <1>15, <1>2 DEF StreamRecv, Answer
  <2>5. WireAt(i)'
    BY <1>2, <2>2, <2>3, <2>4, Zenon DEF WireAt
  <2>6. LateAt(i)'
    BY <1>2, <2>2, <2>3, <2>4 DEF LateAt
  <2> QED
    BY <2>1, <2>5, <2>6, OthersKept
<1>16. CASE LoopEnds \/ ConnectionCanceled \/ UNCHANGED vars
  <2>1. UNCHANGED <<shape, pc, todo, wire, cancels, panics, late>>
    BY <1>16 DEF LoopEnds, ConnectionCanceled, vars
  <2>2. ASSUME NEW j \in Invocations PROVE WireAt(j)' /\ LateAt(j)'
    BY <1>1, <2>1 DEF WireAt, LateAt
  <2> QED
    BY <2>2 DEF WireInv, LateInv
<1> HIDE DEF TypeOK, Goal
<1> QED
  BY <1>4, <1>5, <1>6, <1>7, <1>8, <1>9, <1>10, <1>11, <1>12, <1>13, <1>14, <1>15, <1>16
     DEF Next, Goroutine, Hub, Goal

\* All three hold in every state.
LEMMA Invariant == Spec => [](TypeOK /\ WireInv /\ LateInv)
<1>1. TypeOK /\ WireInv /\ LateInv /\ [Next]_vars => (TypeOK /\ WireInv /\ LateInv)'
  BY TypesStep, WireStep
<1> QED
  BY InitInv, <1>1, PTL DEF Spec

\* Nothing follows the completion of an invocation whose method did not panic,
\* whichever goroutine sends it and whenever the stream is canceled (loop.go and
\* streamer.go), for any number of invocations and items and every limit of
\* canceled streams.
THEOREM CompletedOnce == Spec => []CompletionIsLast
<1>1. WireInv => CompletionIsLast
  BY DEF WireInv, WireAt, OnlyLast, CompletionIsLast
<1> QED
  BY Invariant, <1>1, PTL

\* A canceled stream delivers at most the item that was under way
\* (streamer.go), for any number of invocations and items.
THEOREM CanceledStreamStops == Spec => []CancelStopsItems
<1>1. LateInv => CancelStopsItems
  BY DEF LateInv, LateAt, CancelStopsItems
<1> QED
  BY Invariant, <1>1, PTL
=============================================================================
