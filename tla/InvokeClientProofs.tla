------------------------- MODULE InvokeClientProofs --------------------------
(***************************************************************************)
(* Proofs about InvokeClient, for any set of calls, any number of          *)
(* completions and any other bound: no channel is closed twice, a send on  *)
(* a closed channel needs a race, an answer goes to its call, and a call   *)
(* is answered once.                                                       *)
(*                                                                         *)
(* CloseInv keeps who may still close the channels of a call.  RaceInv     *)
(* keeps which call has which id, and who may still send.  Pipe is the way *)
(* of an answer from the completion to the user; PipeInv and OnceInv say   *)
(* what is on it.                                                          *)
(***************************************************************************)
EXTENDS InvokeClient, TLAPS

\* Items of the kinds the goroutines send are items.
LEMMA ItemType ==
  /\ \A o \in Origins : \A k \in {"value", "nil", "error", "ended", "client"} :
       Item(k, o) \in Items
  /\ NoItem \in Items
  BY DEF Item, NoItem, Items, Origins

\* The channel operations keep the type of a channel.
LEMMA ChanType ==
  /\ NewChan \in Chan
  /\ \A ch \in Chan : Close(ch) \in Chan
  /\ \A ch \in Chan : \A x \in Items : Put(ch, x) \in Chan
  /\ \A ch \in Chan : ch.buf # <<>> => Get(ch) \in Chan /\ Head(ch.buf) \in Items
<1>1. NewChan \in Chan
  BY DEF Chan, NewChan
<1>2. \A ch \in Chan : Close(ch) \in Chan
  BY Zenon DEF Chan, Close
<1>3. \A ch \in Chan : \A x \in Items : Put(ch, x) \in Chan
  BY DEF Chan, Put
<1>4. \A ch \in Chan : ch.buf # <<>> => Get(ch) \in Chan /\ Head(ch.buf) \in Items
  BY DEF Chan, Get
<1> QED
  BY <1>1, <1>2, <1>3, <1>4

\* The merging goroutine's state keeps its type.
LEMMA MergeType ==
  \A m \in MergeState : \A at \in {"off", "select", "push"} :
    /\ \A x \in Items : [m EXCEPT !.at = at, !.item = x] \in MergeState
    /\ [m EXCEPT !.res = TRUE, !.at = at] \in MergeState
    /\ [m EXCEPT !.err = TRUE, !.at = at] \in MergeState
  BY Zenon DEF MergeState

\* deleteInvocation keeps the types of the registry and of the channels.
LEMMA DeleteType ==
  ASSUME ChanTypes, NEW i, deleteInvocation(i)
  PROVE  ChanTypes'
<1>1. CASE i \notin DOMAIN resultChans
  BY <1>1 DEF deleteInvocation, chanVars, ChanTypes
<1>2. CASE i \in DOMAIN resultChans
  <2> DEFINE d == resultChans[i]
  <2>1. d \in Calls /\ resultChan[d] \in Chan /\ errChan[d] \in Chan
    BY <1>2 DEF ChanTypes
  <2>2. /\ resultChan' = [resultChan EXCEPT ![d] = Close(resultChan[d])]
        /\ errChan' = [errChan EXCEPT ![d] = Close(errChan[d])]
    BY <1>2, Zenon DEF deleteInvocation
  <2>3. Close(resultChan[d]) \in Chan /\ Close(errChan[d]) \in Chan
    BY <2>1, ChanType
  <2>4. /\ DOMAIN resultChans' = DOMAIN resultChans \ {i}
        /\ \A j \in DOMAIN resultChans' : resultChans'[j] = resultChans[j]
        /\ resultChans' = [j \in DOMAIN resultChans' |-> resultChans'[j]]
    BY <1>2, Zenon DEF deleteInvocation
  <2>5. DOMAIN resultChans' \subseteq Nat /\ resultChans' \in [DOMAIN resultChans' -> Calls]
    BY <2>4 DEF ChanTypes
  <2> HIDE DEF d
  <2>6. resultChan' \in [Calls -> Chan] /\ errChan' \in [Calls -> Chan]
    BY <2>1, <2>2, <2>3 DEF ChanTypes
  <2> QED
    BY <2>5, <2>6 DEF ChanTypes
<1> QED
  BY <1>1, <1>2

\* The goroutine of receiveCompletionItem sends a sequence of items.
LEMMA SendsType ==
  ASSUME NEW m, m.origin \in Origins
  PROVE  Sends(m) \in Seq(Items)
<1>1. ASSUME NEW x \in Items, NEW y \in Items
      PROVE  <<>> \in Seq(Items) /\ <<x>> \in Seq(Items) /\ <<x, y>> \in Seq(Items)
  OBVIOUS
<1>2. /\ Item("error", m.origin) \in Items
      /\ Item("value", m.origin) \in Items
      /\ Item("nil", m.origin) \in Items
  BY ItemType
<1>3. \/ Sends(m) = <<Item("error", m.origin)>>
      \/ Sends(m) = <<Item("value", m.origin), Item("nil", m.origin)>>
      \/ Sends(m) = <<>>
  BY Zenon DEF Sends
<1> QED
  BY <1>1, <1>2, <1>3, Zenon

\* What is left to send for a completion consists of items for a call.
LEMMA SenderType ==
  ASSUME LoopTypes, sender.todo # <<>>
  PROVE  /\ sender.call \in Calls
         /\ Head(sender.todo) \in Items
         /\ Tail(sender.todo) \in Seq(Items)
<1>1. sender.call \in Calls
  BY DEF LoopTypes
<1>2. sender.todo \in Seq(Items)
  BY DEF LoopTypes
<1> QED
  BY <1>1, <1>2

\* Every variable keeps its type.
THEOREM TypeCorrect == Spec => []TypeOK
<1>1. Init => TypeOK
  <2> SUFFICES ASSUME Init PROVE TypeOK
    OBVIOUS
  <2>1. CallTypes
    BY DEF Init, CallTypes
  <2>2. ChanTypes
    BY ChanType DEF Init, ChanTypes
  <2>3. OutTypes
    BY ChanType, ItemType DEF Init, OutTypes, MergeState, Idle
  <2>4. LoopTypes
    BY DEF Init, LoopTypes, Message, Kinds, Origins
  <2>5. ConnTypes
    <3>1. ctxDone \in BOOLEAN /\ partyDone \in BOOLEAN
      BY Zenon DEF Init
    <3> QED
      BY <3>1 DEF Init, ConnTypes
  <2> QED
    BY <2>1, <2>2, <2>3, <2>4, <2>5 DEF Init, TypeOK
<1>2. TypeOK /\ [Next]_vars => TypeOK'
  <2> SUFFICES ASSUME TypeOK, [Next]_vars PROVE TypeOK'
    OBVIOUS
  <2> USE CallsAssumption DEF TypeOK, Alive
  <2>1. ASSUME NEW c \in Calls, newInvocation(c) PROVE TypeOK'
    <3>1. ConnTypes' /\ LoopTypes'
      BY <2>1 DEF newInvocation, ConnTypes, LoopTypes, connVars, loopVars
    <3>2. CallTypes'
      BY <2>1 DEF newInvocation, NewChan, Idle, NoItem, Item, CallTypes
    <3>3. ChanTypes'
      <4>1. /\ DOMAIN resultChans' = DOMAIN resultChans \cup {id[c]}
            /\ \A j \in DOMAIN resultChans' :
                 resultChans'[j] = IF j = id[c] THEN c ELSE resultChans[j]
            /\ resultChans' = [j \in DOMAIN resultChans' |-> resultChans'[j]]
        BY <2>1 DEF newInvocation
      <4>2. DOMAIN resultChans' \subseteq Nat
        <5>1. id[c] \in Nat
          BY Zenon DEF CallTypes
        <5>2. DOMAIN resultChans \subseteq Nat
          BY Zenon DEF ChanTypes
        <5> QED
          BY <4>1, <5>1, <5>2, Zenon
      <4>3. resultChans' \in [DOMAIN resultChans' -> Calls]
        BY <4>1, Zenon DEF ChanTypes
      <4>4. resultChan' \in [Calls -> Chan] /\ errChan' \in [Calls -> Chan]
        BY <2>1, ChanType DEF newInvocation, ChanTypes
      <4> QED
        BY <4>2, <4>3, <4>4, Zenon DEF ChanTypes
    <3>4. OutTypes'
      <4>1. [Idle EXCEPT !.at = "select"] \in MergeState
        BY ItemType, Zenon DEF Idle, MergeState
      <4>2. merge' \in [Calls -> MergeState]
        BY <2>1, <4>1 DEF newInvocation, OutTypes
      <4> QED
        BY <2>1, <4>2 DEF newInvocation, OutTypes
    <3> QED
      BY <3>1, <3>2, <3>3, <3>4, <2>1 DEF newInvocation
  <2>2. ASSUME NEW c \in Calls, AddUint64(c) PROVE TypeOK'
    <3>1. ChanTypes' /\ OutTypes' /\ ConnTypes' /\ LoopTypes'
      BY <2>2 DEF AddUint64, ChanTypes, OutTypes, ConnTypes, LoopTypes, chanVars, outVars, connVars, loopVars
    <3>2. CallTypes'
      BY <2>2 DEF AddUint64, CallTypes
    <3> QED
      BY <3>1, <3>2, <2>2 DEF AddUint64
  <2>3. ASSUME NEW c \in Calls, LoadUint64(c) PROVE TypeOK'
    <3>1. ChanTypes' /\ OutTypes' /\ ConnTypes' /\ LoopTypes'
      BY <2>3 DEF LoadUint64, ChanTypes, OutTypes, ConnTypes, LoopTypes, chanVars, outVars, connVars, loopVars
    <3>2. CallTypes'
      BY <2>3 DEF LoadUint64, CallTypes
    <3> QED
      BY <3>1, <3>2, <2>3 DEF LoadUint64
  <2>4. ASSUME NEW c \in Calls, writeMessage(c) PROVE TypeOK'
    <3>1. ChanTypes' /\ OutTypes' /\ LoopTypes'
      BY <2>4 DEF writeMessage, ChanTypes, OutTypes, LoopTypes, chanVars, outVars, loopVars
    <3>2. CallTypes'
      BY <2>4 DEF writeMessage, CallTypes
    <3>3. ConnTypes'
      BY <2>4, SMTT(30) DEF writeMessage, ConnTypes, Message, Origins, CallTypes
    <3> QED
      BY <3>1, <3>2, <3>3, <2>4 DEF writeMessage
  <2>5. ASSUME NEW c \in Calls, WriteOk(c) PROVE TypeOK'
    <3>1. CallTypes' /\ ChanTypes' /\ OutTypes' /\ LoopTypes'
      BY <2>5 DEF WriteOk, CallTypes, ChanTypes, OutTypes, LoopTypes, callVars, chanVars, outVars, loopVars
    <3>2. ConnTypes'
      BY <2>5 DEF WriteOk, ConnTypes, Message, Origins, CallTypes
    <3> QED
      BY <3>1, <3>2, <2>5 DEF WriteOk
  <2>6. ASSUME NEW c \in Calls, WriteError(c) PROVE TypeOK'
    <3>1. CallTypes' /\ ChanTypes' /\ OutTypes' /\ LoopTypes'
      BY <2>6 DEF WriteError, CallTypes, ChanTypes, OutTypes, LoopTypes, callVars, chanVars, outVars, loopVars
    <3>2. ConnTypes'
      BY <2>6 DEF WriteError, ConnTypes, Message, Origins, CallTypes
    <3> QED
      BY <3>1, <3>2, <2>6 DEF WriteError
  <2>7. ASSUME NEW c \in Calls, SelectCanceled(c) PROVE TypeOK'
    <3>1. ChanTypes' /\ OutTypes' /\ ConnTypes' /\ LoopTypes'
      BY <2>7 DEF SelectCanceled, ChanTypes, OutTypes, ConnTypes, LoopTypes, chanVars, outVars, connVars, loopVars
    <3>2. CallTypes'
      BY <2>7 DEF SelectCanceled, CallTypes
    <3> QED
      BY <3>1, <3>2, <2>7 DEF SelectCanceled
  <2>8. ASSUME NEW c \in Calls, SelectWritten(c) PROVE TypeOK'
    <3>1. ChanTypes' /\ OutTypes' /\ LoopTypes'
      BY <2>8 DEF SelectWritten, ChanTypes, OutTypes, LoopTypes, chanVars, outVars, loopVars
    <3>2. CallTypes'
      BY <2>8 DEF SelectWritten, CallTypes
    <3>3. ConnTypes'
      BY <2>8 DEF SelectWritten, ConnTypes, Message, Origins, CallTypes
    <3> QED
      BY <3>1, <3>2, <3>3, <2>8 DEF SelectWritten
  <2>9. ASSUME NEW c \in Calls, SendFailed(c) PROVE TypeOK'
    <3>1. ConnTypes' /\ LoopTypes'
      BY <2>9, Zenon DEF SendFailed, deleteInvocation, ConnTypes, LoopTypes, connVars, loopVars
    <3>2. CallTypes'
      BY <2>9, Zenon DEF SendFailed, deleteInvocation, CallTypes
    <3>3. ChanTypes'
      BY <2>9, DeleteType DEF SendFailed
    <3>4. OutTypes'
      <4>1. Item("client", None) \in Items
        BY ItemType, Zenon DEF Origins
      <4>2. out' \in [Calls -> Seq(Items)]
        BY <2>9, <4>1 DEF SendFailed, OutTypes
      <4>3. outClosed' \in [Calls -> BOOLEAN]
        BY <2>9 DEF SendFailed, OutTypes
      <4> QED
        BY <2>9, <4>2, <4>3 DEF SendFailed, OutTypes
    <3> QED
      BY <3>1, <3>2, <3>3, <3>4, <2>9, Zenon DEF SendFailed, deleteInvocation
  <2>10. ASSUME NEW c \in Calls, MergeResult(c) PROVE TypeOK'
    <3>1. CallTypes' /\ ConnTypes' /\ LoopTypes'
      BY <2>10 DEF MergeResult, CallTypes, ConnTypes, LoopTypes, callVars, connVars, loopVars
    <3>2. ChanTypes'
      BY <2>10, ChanType, ItemType, Zenon DEF MergeResult, SetMerge, ChanTypes, Origins, LoopTypes, chanVars
    <3>3. OutTypes'
      <4>1. Head(resultChan[c].buf) \in Items
        BY <2>10, ChanType DEF MergeResult, ChanTypes
      <4>2. [merge[c] EXCEPT !.at = "push", !.item = Head(resultChan[c].buf)] \in MergeState
        BY <4>1, MergeType, Zenon DEF OutTypes
      <4> QED
        BY <2>10, <4>2 DEF MergeResult, SetMerge, OutTypes
    <3> QED
      BY <3>1, <3>2, <3>3, <2>10 DEF MergeResult
  <2>11. ASSUME NEW c \in Calls, MergeErr(c) PROVE TypeOK'
    <3>1. CallTypes' /\ ConnTypes' /\ LoopTypes'
      BY <2>11 DEF MergeErr, CallTypes, ConnTypes, LoopTypes, callVars, connVars, loopVars
    <3>2. ChanTypes'
      BY <2>11, ChanType, ItemType, Zenon DEF MergeErr, SetMerge, ChanTypes, Origins, LoopTypes, chanVars
    <3>3. OutTypes'
      <4>1. Head(errChan[c].buf) \in Items
        BY <2>11, ChanType DEF MergeErr, ChanTypes
      <4>2. [merge[c] EXCEPT !.at = "push", !.item = Head(errChan[c].buf)] \in MergeState
        BY <4>1, MergeType, Zenon DEF OutTypes
      <4> QED
        BY <2>11, <4>2 DEF MergeErr, SetMerge, OutTypes
    <3> QED
      BY <3>1, <3>2, <3>3, <2>11 DEF MergeErr
  <2>12. ASSUME NEW c \in Calls, MergePush(c) PROVE TypeOK'
    <3>1. CallTypes' /\ ChanTypes' /\ ConnTypes' /\ LoopTypes'
      BY <2>12 DEF MergePush, CallTypes, ChanTypes, ConnTypes, LoopTypes, callVars, chanVars, connVars, loopVars
    <3>2. OutTypes'
      <4>1. merge[c] \in MergeState /\ merge[c].item \in Items /\ irCh[c] \in Chan
        BY Zenon DEF OutTypes, MergeState
      <4>2. Put(irCh[c], merge[c].item) \in Chan
        BY <4>1, ChanType, Zenon
      <4>3. [merge[c] EXCEPT !.at = "select", !.item = NoItem] \in MergeState
        BY <4>1, MergeType, ItemType, Zenon
      <4> QED
        BY <2>12, <4>2, <4>3 DEF MergePush, SetMerge, OutTypes
    <3> QED
      BY <3>1, <3>2, <2>12 DEF MergePush
  <2>13. ASSUME NEW c \in Calls, MergeClosed(c) PROVE TypeOK'
    <3>1. CallTypes' /\ ChanTypes' /\ ConnTypes' /\ LoopTypes'
      BY <2>13 DEF MergeClosed, CallTypes, ChanTypes, ConnTypes, LoopTypes, callVars, chanVars, connVars, loopVars
    <3>2. OutTypes'
      <4>1. merge[c] \in MergeState
        BY Zenon DEF OutTypes
      <4>2. /\ [merge[c] EXCEPT !.res = TRUE, !.at = IF merge[c].err THEN "off" ELSE "select"] \in MergeState
            /\ [merge[c] EXCEPT !.err = TRUE, !.at = IF merge[c].res THEN "off" ELSE "select"] \in MergeState
        BY <4>1, MergeType, Zenon
      <4>3. merge' \in [Calls -> MergeState]
        BY <2>13, <4>2 DEF MergeClosed, OutTypes
      <4>4. irCh' \in [Calls -> Chan]
        BY <2>13, ChanType DEF MergeClosed, OutTypes
      <4> QED
        BY <2>13, <4>3, <4>4 DEF MergeClosed, OutTypes
    <3> QED
      BY <3>1, <3>2, <2>13 DEF MergeClosed
  <2>14. ASSUME NEW c \in Calls, MergeCanceled(c) PROVE TypeOK'
    <3>1. CallTypes' /\ ChanTypes' /\ ConnTypes' /\ LoopTypes'
      BY <2>14 DEF MergeCanceled, CallTypes, ChanTypes, ConnTypes, LoopTypes, callVars, chanVars, connVars, loopVars
    <3>2. OutTypes'
      <4>1. [merge[c] EXCEPT !.at = "off", !.item = NoItem] \in MergeState
        BY MergeType, ItemType, Zenon DEF OutTypes
      <4>2. irCh' \in [Calls -> Chan]
        BY <2>14, ChanType DEF MergeCanceled, OutTypes
      <4> QED
        BY <2>14, <4>1, <4>2 DEF MergeCanceled, SetMerge, OutTypes
    <3> QED
      BY <3>1, <3>2, <2>14 DEF MergeCanceled
  <2>15. ASSUME NEW c \in Calls, Forward(c) PROVE TypeOK'
    <3>1. CallTypes' /\ ConnTypes' /\ LoopTypes'
      BY <2>15 DEF Forward, CallTypes, ConnTypes, LoopTypes, callVars, connVars, loopVars
    <3>2. ChanTypes'
      <4>1. CASE c \in Senders
        BY <2>15, <4>1, ChanType DEF Forward, Source, ChanTypes
      <4>2. CASE c \notin Senders
        BY <2>15, <4>2 DEF Forward, ChanTypes
      <4> QED
        BY <4>1, <4>2, Zenon
    <3>3. OutTypes'
      <4>1. Source(c) \in Chan
        BY Zenon DEF Source, ChanTypes, OutTypes
      <4>2. Head(Source(c).buf) \in Items
        BY <2>15, <4>1, ChanType DEF Forward
      <4>3. out' \in [Calls -> Seq(Items)]
        BY <2>15, <4>2 DEF Forward, OutTypes
      <4>4. irCh' \in [Calls -> Chan]
        <5>1. CASE c \in Senders
          BY <2>15, <5>1 DEF Forward, OutTypes
        <5>2. CASE c \notin Senders
          <6>1. irCh[c] \in Chan /\ irCh[c].buf # <<>>
            BY <2>15, <5>2 DEF Forward, Source, OutTypes
          <6>2. Get(irCh[c]) \in Chan
            BY <6>1, ChanType, Zenon
          <6> QED
            BY <2>15, <5>2, <6>2, Zenon DEF Forward, OutTypes
        <5> QED
          BY <5>1, <5>2, Zenon
      <4> QED
        BY <2>15, <4>3, <4>4 DEF Forward, OutTypes
    <3> QED
      BY <3>1, <3>2, <3>3, <2>15 DEF Forward
  <2>16. ASSUME NEW c \in Calls, ForwardEnd(c) PROVE TypeOK'
    <3>1. CallTypes' /\ ChanTypes' /\ ConnTypes' /\ LoopTypes'
      BY <2>16 DEF ForwardEnd, CallTypes, ChanTypes, ConnTypes, LoopTypes, callVars, chanVars, connVars, loopVars
    <3>2. OutTypes'
      BY <2>16, ChanType, ItemType, MergeType, Zenon DEF ForwardEnd, Source, OutTypes, Origins, ChanTypes
    <3> QED
      BY <3>1, <3>2, <2>16 DEF ForwardEnd
  <2>17. ASSUME NEW c \in Calls, CancelerSend(c) PROVE TypeOK'
    <3>1. CallTypes' /\ OutTypes' /\ ConnTypes'
      BY <2>17, Zenon DEF CancelerSend, CallTypes, OutTypes, ConnTypes, callVars, outVars, connVars
    <3>2. ChanTypes'
      BY <2>17, ChanType, ItemType, Zenon DEF CancelerSend, ChanTypes, Origins, LoopTypes, chanVars
    <3>3. LoopTypes'
      BY <2>17, ItemType, Zenon DEF CancelerSend, LoopTypes, Message, Origins, ChanTypes, ConnTypes
    <3> QED
      BY <3>1, <3>2, <3>3, <2>17, Zenon DEF CancelerSend
  <2>18. ASSUME NEW c \in Calls, CancelerClose(c) PROVE TypeOK'
    <3>1. CallTypes' /\ OutTypes' /\ ConnTypes'
      BY <2>18, Zenon DEF CancelerClose, CallTypes, OutTypes, ConnTypes, callVars, outVars, connVars
    <3>2. ChanTypes'
      BY <2>18, ChanType, ItemType, Zenon DEF CancelerClose, ChanTypes, Origins, LoopTypes, chanVars
    <3>3. LoopTypes'
      BY <2>18, ItemType, Zenon DEF CancelerClose, LoopTypes, Message, Origins, ChanTypes, ConnTypes
    <3> QED
      BY <3>1, <3>2, <3>3, <2>18, Zenon DEF CancelerClose
  <2>19. CASE ReceiveCompletion
    <3>1. CallTypes' /\ ChanTypes' /\ OutTypes'
      BY <2>19 DEF ReceiveCompletion, CallTypes, ChanTypes, OutTypes, callVars, chanVars, outVars
    <3>2. ConnTypes'
      BY <2>19 DEF ReceiveCompletion, ConnTypes, Message, Origins, CallTypes
    <3>3. LoopTypes'
      <4>1. Head(incoming) \in Message
        BY <2>19 DEF ReceiveCompletion, ConnTypes
      <4> QED
        BY <2>19, <4>1 DEF ReceiveCompletion, LoopTypes
    <3> QED
      BY <3>1, <3>2, <3>3, <2>19 DEF ReceiveCompletion
  <2>20. CASE LookupCompletion
    <3>1. CallTypes' /\ ChanTypes' /\ OutTypes' /\ ConnTypes'
      BY <2>20 DEF LookupCompletion, CallTypes, ChanTypes, OutTypes, ConnTypes, callVars, chanVars, outVars, connVars
    <3>2. LoopTypes'
      <4>1. completion.origin \in Origins
        BY Zenon DEF LoopTypes, Message
      <4>2. Sends(completion) \in Seq(Items)
        BY <4>1, SendsType, Zenon
      <4>3. ASSUME completion.id \in DOMAIN resultChans
            PROVE  resultChans[completion.id] \in Calls
        BY <4>3, Zenon DEF ChanTypes
      <4>4. /\ sender' \in [call : Origins, todo : Seq(Items)]
            /\ sender'.todo # <<>> => sender'.call \in Calls
        BY <2>20, <4>2, <4>3 DEF LookupCompletion, LoopTypes, Origins
      <4> QED
        BY <2>20, <4>4 DEF LookupCompletion, LoopTypes
    <3> QED
      BY <3>1, <3>2, <2>20 DEF LookupCompletion
  <2>21. CASE SenderSend
    <3>1. CallTypes' /\ OutTypes' /\ ConnTypes'
      BY <2>21, Zenon DEF SenderSend, CallTypes, OutTypes, ConnTypes, callVars, outVars, connVars
    <3>2. ChanTypes'
      <4>1. sender.call \in Calls /\ Head(sender.todo) \in Items
        BY <2>21, SenderType, Zenon DEF SenderSend
      <4>2. /\ Put(resultChan[sender.call], Head(sender.todo)) \in Chan
            /\ Put(errChan[sender.call], Head(sender.todo)) \in Chan
        BY <4>1, ChanType, Zenon DEF ChanTypes
      <4> QED
        BY <2>21, <4>1, <4>2, Zenon DEF SenderSend, ChanTypes
    <3>3. LoopTypes'
      <4>1. sender.call \in Calls /\ Tail(sender.todo) \in Seq(Items)
        BY <2>21, SenderType, Zenon DEF SenderSend
      <4>2. sender' = [sender EXCEPT !.todo = Tail(sender.todo)]
        BY <2>21, Zenon DEF SenderSend
      <4>3. /\ sender' \in [call : Origins, todo : Seq(Items)]
            /\ sender'.call \in Calls
        BY <4>1, <4>2, Zenon DEF LoopTypes
      <4> QED
        BY <2>21, <4>3, Zenon DEF SenderSend, LoopTypes
    <3> QED
      BY <3>1, <3>2, <3>3, <2>21, Zenon DEF SenderSend
  <2>22. CASE CompletionSent
    <3>1. CallTypes' /\ ChanTypes' /\ OutTypes' /\ ConnTypes'
      BY <2>22 DEF CompletionSent, CallTypes, ChanTypes, OutTypes, ConnTypes, callVars, chanVars, outVars, connVars
    <3>2. LoopTypes'
      BY <2>22, ItemType DEF CompletionSent, LoopTypes, Message, Origins, ChanTypes, ConnTypes
    <3> QED
      BY <3>1, <3>2, <2>22 DEF CompletionSent
  <2>23. CASE CompletionTimeout
    <3>1. CallTypes' /\ ChanTypes' /\ OutTypes' /\ ConnTypes'
      BY <2>23 DEF CompletionTimeout, CallTypes, ChanTypes, OutTypes, ConnTypes, callVars, chanVars, outVars, connVars
    <3>2. LoopTypes'
      BY <2>23, ItemType DEF CompletionTimeout, LoopTypes, Message, Origins, ChanTypes, ConnTypes
    <3> QED
      BY <3>1, <3>2, <2>23 DEF CompletionTimeout
  <2>24. CASE CompletionDone
    <3>1. CallTypes' /\ OutTypes' /\ ConnTypes'
      BY <2>24, Zenon DEF CompletionDone, deleteInvocation, CallTypes, OutTypes, ConnTypes, callVars, outVars, connVars
    <3>2. ChanTypes'
      BY <2>24, DeleteType DEF CompletionDone
    <3>3. LoopTypes'
      BY <2>24, ItemType, Zenon DEF CompletionDone, deleteInvocation, LoopTypes, Message, Origins, ChanTypes, ConnTypes
    <3> QED
      BY <3>1, <3>2, <3>3, <2>24, Zenon DEF CompletionDone, deleteInvocation
  <2>25. CASE LoopFails
    <3>1. CallTypes' /\ ChanTypes' /\ OutTypes' /\ ConnTypes'
      BY <2>25 DEF LoopFails, CallTypes, ChanTypes, OutTypes, ConnTypes, callVars, chanVars, outVars, connVars
    <3>2. LoopTypes'
      BY <2>25, ItemType DEF LoopFails, LoopTypes, Message, Origins, ChanTypes, ConnTypes
    <3> QED
      BY <3>1, <3>2, <2>25 DEF LoopFails
  <2>26. CASE LoopCanceled
    <3>1. CallTypes' /\ ChanTypes' /\ OutTypes' /\ ConnTypes'
      BY <2>26 DEF LoopCanceled, CallTypes, ChanTypes, OutTypes, ConnTypes, callVars, chanVars, outVars, connVars
    <3>2. LoopTypes'
      BY <2>26, ItemType DEF LoopCanceled, LoopTypes, Message, Origins, ChanTypes, ConnTypes
    <3> QED
      BY <3>1, <3>2, <2>26 DEF LoopCanceled
  <2>27. CASE cancelAllInvokes
    <3>1. CallTypes' /\ OutTypes' /\ ConnTypes'
      BY <2>27, Zenon DEF cancelAllInvokes, CallTypes, OutTypes, ConnTypes, callVars, outVars, connVars
    <3>2. ChanTypes'
      BY <2>27, ChanType, ItemType, Zenon DEF cancelAllInvokes, Registered, ChanTypes, Origins, LoopTypes, chanVars
    <3>3. LoopTypes'
      BY <2>27, ItemType, Zenon DEF cancelAllInvokes, Registered, LoopTypes, Message, Origins, ChanTypes, ConnTypes
    <3> QED
      BY <3>1, <3>2, <3>3, <2>27, Zenon DEF cancelAllInvokes
  <2>28. CASE Abort
    <3>1. CallTypes' /\ ChanTypes' /\ OutTypes'
      BY <2>28 DEF Abort, CallTypes, ChanTypes, OutTypes, callVars, chanVars, outVars
    <3>2. ConnTypes'
      BY <2>28 DEF Abort, ConnTypes, Message, Origins, CallTypes
    <3>3. LoopTypes'
      BY <2>28, ItemType DEF Abort, LoopTypes, Message, Origins, ChanTypes, ConnTypes
    <3> QED
      BY <3>1, <3>2, <3>3, <2>28 DEF Abort
  <2>29. CASE ServerAnswers
    <3>1. CallTypes' /\ ChanTypes' /\ OutTypes' /\ LoopTypes'
      BY <2>29 DEF ServerAnswers, CallTypes, ChanTypes, OutTypes, LoopTypes, callVars, chanVars, outVars, loopVars
    <3>2. ConnTypes'
      BY <2>29 DEF ServerAnswers, ConnTypes, Message, Origins, CallTypes
    <3> QED
      BY <3>1, <3>2, <2>29 DEF ServerAnswers
  <2>30. CASE ConnectionCanceled
    <3>1. CallTypes' /\ ChanTypes' /\ OutTypes' /\ LoopTypes'
      BY <2>30 DEF ConnectionCanceled, CallTypes, ChanTypes, OutTypes, LoopTypes, callVars, chanVars, outVars, loopVars
    <3>2. ConnTypes'
      BY <2>30 DEF ConnectionCanceled, ConnTypes, Message, Origins, CallTypes
    <3> QED
      BY <3>1, <3>2, <2>30 DEF ConnectionCanceled
  <2>31. CASE PartyCanceled
    <3>1. CallTypes' /\ ChanTypes' /\ OutTypes' /\ LoopTypes'
      BY <2>31 DEF PartyCanceled, CallTypes, ChanTypes, OutTypes, LoopTypes, callVars, chanVars, outVars, loopVars
    <3>2. ConnTypes'
      BY <2>31 DEF PartyCanceled, ConnTypes, Message, Origins, CallTypes
    <3> QED
      BY <3>1, <3>2, <2>31 DEF PartyCanceled
  <2>32. CASE UNCHANGED vars
    BY <2>32, ZenonT(30) DEF vars, callVars, chanVars, outVars, connVars, loopVars, CallTypes,
       ChanTypes, OutTypes, ConnTypes, LoopTypes
  <2> QED
    BY <2>1, <2>2, <2>3, <2>4, <2>5, <2>6, <2>7, <2>8, <2>9, <2>10, <2>11, <2>12, <2>13, <2>14, <2>15, <2>16, <2>17, <2>18, <2>19, <2>20, <2>21, <2>22, <2>23, <2>24, <2>25, <2>26, <2>27, <2>28, <2>29, <2>30, <2>31, <2>32, Zenon
       DEF Next, Call, Write, Merge, Forwarder, Canceler, LoopStep, Environment
<1> QED
  BY <1>1, <1>2, PTL DEF Spec

-----------------------------------------------------------------------------
(* No channel is closed twice.                                             *)

CloseInv == RegisteredOpen /\ NoDoubleClose /\ CloseOwnership

\* An operation on a channel other than Close leaves it open or closed.
LEMMA ClosedKept ==
  \A ch \in Chan : /\ \A x : Put(ch, x).closed = ch.closed
                   /\ Get(ch).closed = ch.closed
                   /\ Close(ch).closed
  BY DEF Chan, Put, Get, Close

\* CloseInv only depends on who is where and which channels are closed.
LEMMA CloseInvKept ==
  ASSUME TypeOK, CloseInv, UNCHANGED <<id, resultChans, canceler, panicked>>,
         \A c \in Calls : pc[c] \notin Unregistered => pc'[c] \notin Unregistered,
         \A c \in Calls : /\ resultChan'[c].closed = resultChan[c].closed
                          /\ errChan'[c].closed = errChan[c].closed
  PROVE  CloseInv'
  BY Zenon DEF TypeOK, ChanTypes, CloseInv, RegisteredOpen, NoDoubleClose, CloseOwnership

\* deleteInvocation closes channels nobody else is going to close.
LEMMA DeleteKeeps ==
  ASSUME TypeOK, CloseInv, NEW i, deleteInvocation(i), UNCHANGED <<id, canceler>>,
         \A c \in Calls : pc[c] \notin Unregistered => pc'[c] \notin Unregistered
  PROVE  CloseInv'
<1> USE DEF TypeOK
<1>1. CASE i \notin DOMAIN resultChans
  BY <1>1, CloseInvKept, Zenon DEF deleteInvocation, chanVars
<1>2. CASE i \in DOMAIN resultChans
  <2> DEFINE d == resultChans[i]
  <2>1. d \in Calls /\ resultChan[d] \in Chan /\ errChan[d] \in Chan
    BY <1>2, Zenon DEF ChanTypes
  <2>2. ~resultChan[d].closed /\ ~errChan[d].closed /\ id[d] = i /\ canceler[d] = "none"
    BY <1>2, Zenon DEF CloseInv, RegisteredOpen, CloseOwnership
  <2>3. /\ resultChan' = [resultChan EXCEPT ![d] = Close(resultChan[d])]
        /\ errChan' = [errChan EXCEPT ![d] = Close(errChan[d])]
        /\ panicked' = panicked
    BY <1>2, <2>2, Zenon DEF deleteInvocation
  <2>4. /\ DOMAIN resultChans' = DOMAIN resultChans \ {i}
        /\ \A j \in DOMAIN resultChans' : resultChans'[j] = resultChans[j]
    BY <1>2, Zenon DEF deleteInvocation
  <2>5. \A j \in DOMAIN resultChans' : resultChans[j] \in Calls /\ resultChans[j] # d
    BY <2>2, <2>4, Zenon DEF CloseInv, CloseOwnership, ChanTypes
  <2>6. \A c \in Calls : c # d => resultChan'[c] = resultChan[c] /\ errChan'[c] = errChan[c]
    BY <2>3, Zenon DEF ChanTypes
  <2> HIDE DEF d
  <2>7. RegisteredOpen'
    <3> SUFFICES ASSUME NEW j \in DOMAIN resultChans'
                 PROVE  /\ ~resultChan'[resultChans'[j]].closed
                        /\ ~errChan'[resultChans'[j]].closed
      BY Zenon DEF RegisteredOpen
    <3>1. /\ j \in DOMAIN resultChans /\ resultChans'[j] = resultChans[j]
          /\ resultChans[j] \in Calls /\ resultChans[j] # d
      BY <2>4, <2>5, Zenon
    <3>2. ~resultChan[resultChans[j]].closed /\ ~errChan[resultChans[j]].closed
      BY <3>1, Zenon DEF CloseInv, RegisteredOpen
    <3> QED
      BY <2>6, <3>1, <3>2, Zenon
  <2>8. NoDoubleClose'
    BY <2>3, Zenon DEF CloseInv, NoDoubleClose
  <2>9. CloseOwnership'
    <3>1. \A j \in DOMAIN resultChans' :
            LET c == resultChans'[j] IN
            id'[c] = j /\ pc'[c] \notin Unregistered /\ canceler'[c] = "none"
      BY <2>4, <2>5, Zenon DEF CloseInv, CloseOwnership
    <3>2. \A c \in Calls : canceler'[c] # "none" => pc'[c] \notin Unregistered
      BY Zenon DEF CloseInv, CloseOwnership
    <3>3. \A c \in Calls : canceler'[c] \in {"send", "close"} => ~errChan'[c].closed
      BY <2>2, <2>6, Zenon DEF CloseInv, CloseOwnership
    <3> QED
      BY <3>1, <3>2, <3>3, Zenon DEF CloseOwnership
  <2> QED
    BY <2>7, <2>8, <2>9, Zenon DEF CloseInv
<1> QED
  BY <1>1, <1>2, Zenon

\* Every step keeps who may close the channels of a call.
LEMMA CloseInvariant == Spec => []CloseInv
<1>1. Init => CloseInv
  BY DEF Init, CloseInv, RegisteredOpen, NoDoubleClose, CloseOwnership, NewChan
<1>2. TypeOK /\ CloseInv /\ [Next]_vars => CloseInv'
  <2> SUFFICES ASSUME TypeOK, CloseInv, [Next]_vars PROVE CloseInv'
    OBVIOUS
  <2> USE DEF TypeOK
  <2>1. ASSUME NEW c \in Calls, newInvocation(c) PROVE CloseInv'
    <3>1. /\ id[c] \in Nat
          /\ DOMAIN resultChans' = DOMAIN resultChans \cup {id[c]}
          /\ \A j \in DOMAIN resultChans' :
               resultChans'[j] = IF j = id[c] THEN c ELSE resultChans[j]
      BY <2>1, Zenon DEF newInvocation, CallTypes
    <3>2. \A d \in Calls : d # c => /\ resultChan'[d] = resultChan[d]
                                    /\ errChan'[d] = errChan[d]
                                    /\ pc'[d] = pc[d]
      BY <2>1, Zenon DEF newInvocation, CallTypes, ChanTypes
    <3>3. ~resultChan'[c].closed /\ ~errChan'[c].closed
      BY <2>1, Zenon DEF newInvocation, ChanTypes, NewChan
    <3>4. /\ pc[c] \in Unregistered /\ pc'[c] \notin Unregistered
          /\ UNCHANGED <<id, canceler, panicked>>
      BY <2>1, Zenon DEF newInvocation, loopVars, Unregistered, CallTypes
    <3>5. canceler[c] = "none"
      BY <3>4, Zenon DEF CloseInv, CloseOwnership
    <3>6. RegisteredOpen'
      BY <3>1, <3>2, <3>3, ZenonT(30) DEF CloseInv, RegisteredOpen, ChanTypes
    <3>7. NoDoubleClose'
      BY <3>4, Zenon DEF CloseInv, NoDoubleClose
    <3>8. CloseOwnership'
      <4>1. \A j \in DOMAIN resultChans' :
              LET d == resultChans'[j] IN
              id'[d] = j /\ pc'[d] \notin Unregistered /\ canceler'[d] = "none"
        BY <3>1, <3>2, <3>4, <3>5, ZenonT(30) DEF CloseInv, CloseOwnership, ChanTypes
      <4>2. \A d \in Calls : canceler'[d] # "none" => pc'[d] \notin Unregistered
        BY <3>2, <3>4, Zenon DEF CloseInv, CloseOwnership
      <4>3. \A d \in Calls : canceler'[d] \in {"send", "close"} => ~errChan'[d].closed
        BY <3>2, <3>4, <3>5, Zenon DEF CloseInv, CloseOwnership
      <4> QED
        BY <4>1, <4>2, <4>3, Zenon DEF CloseOwnership
    <3> QED
      BY <3>6, <3>7, <3>8, Zenon DEF CloseInv
  <2>2. ASSUME NEW c \in Calls, AddUint64(c) PROVE CloseInv'
    <3>1. \A d \in Calls : pc[d] \notin Unregistered => pc'[d] \notin Unregistered
      BY <2>2, Zenon DEF AddUint64, Unregistered, CallTypes
    <3> QED
      BY <2>2, <3>1, CloseInvKept, Zenon DEF AddUint64, chanVars, loopVars
  <2>3. ASSUME NEW c \in Calls, LoadUint64(c) PROVE CloseInv'
    <3>1. /\ \A d \in Calls : d # c => id'[d] = id[d]
          /\ pc[c] \in Unregistered
          /\ \A d \in Calls : pc'[d] \in Unregistered <=> pc[d] \in Unregistered
          /\ UNCHANGED <<resultChans, resultChan, errChan, canceler, panicked>>
      BY <2>3, Zenon DEF LoadUint64, Unregistered, CallTypes, chanVars, loopVars
    <3> QED
      BY <3>1, Zenon DEF CloseInv, RegisteredOpen, NoDoubleClose, CloseOwnership, ChanTypes
  <2>4. ASSUME NEW c \in Calls, writeMessage(c) PROVE CloseInv'
    <3>1. \A d \in Calls : pc[d] \notin Unregistered => pc'[d] \notin Unregistered
      BY <2>4, Zenon DEF writeMessage, Unregistered, CallTypes
    <3> QED
      BY <2>4, <3>1, CloseInvKept, Zenon DEF writeMessage, chanVars, loopVars
  <2>5. ASSUME NEW c \in Calls, SelectCanceled(c) PROVE CloseInv'
    <3>1. \A d \in Calls : pc[d] \notin Unregistered => pc'[d] \notin Unregistered
      BY <2>5, Zenon DEF SelectCanceled, Unregistered, CallTypes
    <3> QED
      BY <2>5, <3>1, CloseInvKept, Zenon DEF SelectCanceled, chanVars, loopVars
  <2>6. ASSUME NEW c \in Calls, SelectWritten(c) PROVE CloseInv'
    <3>1. \A d \in Calls : pc[d] \notin Unregistered => pc'[d] \notin Unregistered
      BY <2>6, Zenon DEF SelectWritten, Unregistered, CallTypes
    <3> QED
      BY <2>6, <3>1, CloseInvKept, Zenon DEF SelectWritten, chanVars, loopVars
  <2>7. ASSUME NEW c \in Calls, SendFailed(c) PROVE CloseInv'
    <3>1. \A d \in Calls : pc[d] \notin Unregistered => pc'[d] \notin Unregistered
      BY <2>7, Zenon DEF SendFailed, Unregistered, CallTypes
    <3>2. deleteInvocation(id[c]) /\ UNCHANGED <<id, canceler>>
      BY <2>7, Zenon DEF SendFailed, loopVars
    <3> QED
      BY <3>1, <3>2, DeleteKeeps, Zenon
  <2>8. ASSUME NEW c \in Calls, WriteOk(c) PROVE CloseInv'
    BY <2>8, CloseInvKept, Zenon DEF WriteOk, callVars, chanVars, loopVars
  <2>9. ASSUME NEW c \in Calls, WriteError(c) PROVE CloseInv'
    BY <2>9, CloseInvKept, Zenon DEF WriteError, callVars, chanVars, loopVars
  <2>10. ASSUME NEW c \in Calls, MergePush(c) PROVE CloseInv'
    BY <2>10, CloseInvKept, Zenon DEF MergePush, callVars, chanVars, loopVars
  <2>11. ASSUME NEW c \in Calls, MergeClosed(c) PROVE CloseInv'
    BY <2>11, CloseInvKept, Zenon DEF MergeClosed, callVars, chanVars, loopVars
  <2>12. ASSUME NEW c \in Calls, MergeCanceled(c) PROVE CloseInv'
    BY <2>12, CloseInvKept, Zenon DEF MergeCanceled, callVars, chanVars, loopVars
  <2>13. ASSUME NEW c \in Calls, ForwardEnd(c) PROVE CloseInv'
    BY <2>13, CloseInvKept, Zenon DEF ForwardEnd, callVars, chanVars, loopVars
  <2>14. ASSUME NEW c \in Calls, MergeResult(c) PROVE CloseInv'
    <3>1. \A d \in Calls : /\ resultChan'[d].closed = resultChan[d].closed
                           /\ errChan'[d].closed = errChan[d].closed
      BY <2>14, ClosedKept, Zenon DEF MergeResult, ChanTypes
    <3> QED
      BY <2>14, <3>1, CloseInvKept, Zenon DEF MergeResult, callVars, loopVars
  <2>15. ASSUME NEW c \in Calls, MergeErr(c) PROVE CloseInv'
    <3>1. \A d \in Calls : /\ resultChan'[d].closed = resultChan[d].closed
                           /\ errChan'[d].closed = errChan[d].closed
      BY <2>15, ClosedKept, Zenon DEF MergeErr, ChanTypes
    <3> QED
      BY <2>15, <3>1, CloseInvKept, Zenon DEF MergeErr, callVars, loopVars
  <2>16. ASSUME NEW c \in Calls, Forward(c) PROVE CloseInv'
    <3>1. \A d \in Calls : /\ resultChan'[d].closed = resultChan[d].closed
                           /\ errChan'[d].closed = errChan[d].closed
      BY <2>16, ClosedKept, ZenonT(30) DEF Forward, ChanTypes
    <3> QED
      BY <2>16, <3>1, CloseInvKept, Zenon DEF Forward, callVars, loopVars
  <2>17. ASSUME NEW c \in Calls, CancelerSend(c) PROVE CloseInv'
    <3>1. ~errChan[c].closed
      BY <2>17, Zenon DEF CancelerSend, CloseInv, CloseOwnership
    <3>2. UNCHANGED <<id, pc, resultChans, resultChan, panicked>>
      BY <2>17, <3>1, Zenon DEF CancelerSend, callVars
    <3>3. \A d \in Calls : errChan'[d].closed = errChan[d].closed
      BY <2>17, ClosedKept, ZenonT(30) DEF CancelerSend, ChanTypes
    <3>4. /\ canceler[c] = "send" /\ canceler'[c] = "close"
          /\ \A d \in Calls : d # c => canceler'[d] = canceler[d]
      BY <2>17, Zenon DEF CancelerSend, LoopTypes
    <3> QED
      <4>1. RegisteredOpen'
        <5>1. \A i \in DOMAIN resultChans : resultChans[i] \in Calls
          BY Zenon DEF ChanTypes
        <5> QED
          BY <3>2, <3>3, <5>1, Zenon DEF CloseInv, RegisteredOpen
      <4>2. NoDoubleClose'
        BY <3>2, Zenon DEF CloseInv, NoDoubleClose
      <4>3. \A i \in DOMAIN resultChans' :
              LET d == resultChans'[i] IN
              id'[d] = i /\ pc'[d] \notin Unregistered /\ canceler'[d] = "none"
        <5> TAKE i \in DOMAIN resultChans'
        <5>1. i \in DOMAIN resultChans /\ resultChans'[i] = resultChans[i]
          BY <3>2, Zenon
        <5>2. /\ resultChans[i] \in Calls /\ id[resultChans[i]] = i
              /\ pc[resultChans[i]] \notin Unregistered /\ canceler[resultChans[i]] = "none"
          BY <5>1, Zenon DEF CloseInv, CloseOwnership, ChanTypes
        <5> QED
          BY <3>2, <3>4, <5>1, <5>2, Zenon
      <4>4. \A d \in Calls : canceler'[d] # "none" => pc'[d] \notin Unregistered
        BY <3>2, <3>4, Zenon DEF CloseInv, CloseOwnership
      <4>5. \A d \in Calls : canceler'[d] \in {"send", "close"} => ~errChan'[d].closed
        BY <3>3, <3>4, Zenon DEF CloseInv, CloseOwnership
      <4> QED
        BY <4>1, <4>2, <4>3, <4>4, <4>5, Zenon DEF CloseInv, CloseOwnership
  <2>18. ASSUME NEW c \in Calls, CancelerClose(c) PROVE CloseInv'
    <3>1. ~errChan[c].closed
      BY <2>18, Zenon DEF CancelerClose, CloseInv, CloseOwnership
    <3>2. UNCHANGED <<id, pc, resultChans, resultChan, panicked>>
      BY <2>18, <3>1, Zenon DEF CancelerClose, callVars
    <3>3. \A d \in Calls : d # c => errChan'[d] = errChan[d]
      BY <2>18, Zenon DEF CancelerClose, ChanTypes
    <3>4. /\ canceler[c] = "close" /\ canceler'[c] = "done"
          /\ \A d \in Calls : d # c => canceler'[d] = canceler[d]
      BY <2>18, Zenon DEF CancelerClose, LoopTypes
    <3>5. \A i \in DOMAIN resultChans : resultChans[i] \in Calls /\ resultChans[i] # c
      BY <3>4, Zenon DEF CloseInv, CloseOwnership, ChanTypes
    <3> QED
      <4>1. RegisteredOpen'
        BY <3>2, <3>3, <3>5, Zenon DEF CloseInv, RegisteredOpen
      <4>2. NoDoubleClose'
        BY <3>2, Zenon DEF CloseInv, NoDoubleClose
      <4>3. \A i \in DOMAIN resultChans' :
              LET d == resultChans'[i] IN
              id'[d] = i /\ pc'[d] \notin Unregistered /\ canceler'[d] = "none"
        <5> TAKE i \in DOMAIN resultChans'
        <5>1. i \in DOMAIN resultChans /\ resultChans'[i] = resultChans[i]
          BY <3>2, Zenon
        <5>2. /\ resultChans[i] \in Calls /\ resultChans[i] # c /\ id[resultChans[i]] = i
              /\ pc[resultChans[i]] \notin Unregistered /\ canceler[resultChans[i]] = "none"
          BY <3>5, <5>1, Zenon DEF CloseInv, CloseOwnership
        <5> QED
          BY <3>2, <3>4, <5>1, <5>2, Zenon
      <4>4. \A d \in Calls : canceler'[d] # "none" => pc'[d] \notin Unregistered
        BY <3>2, <3>4, Zenon DEF CloseInv, CloseOwnership
      <4>5. \A d \in Calls : canceler'[d] \in {"send", "close"} => ~errChan'[d].closed
        BY <3>3, <3>4, Zenon DEF CloseInv, CloseOwnership
      <4> QED
        BY <4>1, <4>2, <4>3, <4>4, <4>5, Zenon DEF CloseInv, CloseOwnership
  <2>19. CASE ReceiveCompletion
    BY <2>19, CloseInvKept, Zenon DEF ReceiveCompletion, callVars, chanVars, loopVars
  <2>20. CASE LookupCompletion
    BY <2>20, CloseInvKept, Zenon DEF LookupCompletion, callVars, chanVars, loopVars
  <2>21. CASE CompletionSent
    BY <2>21, CloseInvKept, Zenon DEF CompletionSent, callVars, chanVars, loopVars
  <2>22. CASE CompletionTimeout
    BY <2>22, CloseInvKept, Zenon DEF CompletionTimeout, callVars, chanVars, loopVars
  <2>23. CASE LoopFails
    BY <2>23, CloseInvKept, Zenon DEF LoopFails, callVars, chanVars, loopVars
  <2>24. CASE LoopCanceled
    BY <2>24, CloseInvKept, Zenon DEF LoopCanceled, callVars, chanVars, loopVars
  <2>25. CASE Abort
    BY <2>25, CloseInvKept, Zenon DEF Abort, callVars, chanVars, loopVars
  <2>26. CASE ServerAnswers
    BY <2>26, CloseInvKept, Zenon DEF ServerAnswers, callVars, chanVars, loopVars
  <2>27. CASE ConnectionCanceled
    BY <2>27, CloseInvKept, Zenon DEF ConnectionCanceled, callVars, chanVars, loopVars
  <2>28. CASE PartyCanceled
    BY <2>28, CloseInvKept, Zenon DEF PartyCanceled, callVars, chanVars, loopVars
  <2>29. CASE SenderSend
    <3>1. \A d \in Calls : /\ resultChan'[d].closed = resultChan[d].closed
                           /\ errChan'[d].closed = errChan[d].closed
      <4> DEFINE c == sender.call
                 x == Head(sender.todo)
      <4>1. c \in Calls /\ resultChan[c] \in Chan /\ errChan[c] \in Chan
        BY <2>29, SenderType, Zenon DEF SenderSend, ChanTypes
      <4>2. /\ Put(resultChan[c], x).closed = resultChan[c].closed
            /\ Put(errChan[c], x).closed = errChan[c].closed
        BY <4>1, ClosedKept, Zenon
      <4>3. /\ resultChan' \in {resultChan, [resultChan EXCEPT ![c] = Put(resultChan[c], x)]}
            /\ errChan' \in {errChan, [errChan EXCEPT ![c] = Put(errChan[c], x)]}
        BY <2>29, Zenon DEF SenderSend
      <4> HIDE DEF c, x
      <4> QED
        BY <4>1, <4>2, <4>3, Zenon DEF ChanTypes
    <3>2. panicked' # "close of closed channel" /\ UNCHANGED <<id, pc, resultChans, canceler>>
      BY <2>29, Zenon DEF SenderSend, callVars, CloseInv, NoDoubleClose
    <3> QED
      BY <3>1, <3>2, Zenon DEF CloseInv, RegisteredOpen, NoDoubleClose, CloseOwnership, ChanTypes
  <2>30. CASE CompletionDone
    BY <2>30, DeleteKeeps, Zenon DEF CompletionDone, callVars
  <2>31. CASE cancelAllInvokes
    <3>1. \A c \in Registered : /\ c \in Calls /\ ~resultChan[c].closed /\ ~errChan[c].closed
                               /\ pc[c] \notin Unregistered
      <4> TAKE c \in Registered
      <4>1. PICK i \in DOMAIN resultChans : c = resultChans[i]
        BY Zenon DEF Registered
      <4> QED
        BY <4>1, Zenon DEF CloseInv, RegisteredOpen, CloseOwnership, ChanTypes
    <3>2. UNCHANGED <<id, pc, errChan, panicked>> /\ DOMAIN resultChans' = {}
      BY <2>31, <3>1, Zenon DEF cancelAllInvokes, callVars
    <3>3. \A c \in Calls : canceler'[c] = IF c \in Registered THEN "send" ELSE canceler[c]
      BY <2>31, Zenon DEF cancelAllInvokes
    <3>4. RegisteredOpen' /\ NoDoubleClose'
      BY <3>2, Zenon DEF CloseInv, RegisteredOpen, NoDoubleClose
    <3>5. CloseOwnership'
      BY <3>1, <3>2, <3>3, Zenon DEF CloseInv, CloseOwnership
    <3> QED
      BY <3>4, <3>5, Zenon DEF CloseInv
  <2>32. CASE UNCHANGED vars
    BY <2>32, CloseInvKept, Zenon DEF vars, callVars, chanVars, loopVars
  <2> QED
    BY <2>1, <2>2, <2>3, <2>4, <2>5, <2>6, <2>7, <2>8, <2>9, <2>10, <2>11, <2>12, <2>13, <2>14, <2>15, <2>16, 
       <2>17, <2>18, <2>19, <2>20, <2>21, <2>22, <2>23, <2>24, <2>25, <2>26, <2>27, <2>28, <2>29, <2>30, <2>31, <2>32, Zenon
    DEF Next, Call, Write, Merge, Forwarder, Canceler, LoopStep, Environment
<1> QED
  BY <1>1, <1>2, TypeCorrect, PTL DEF Spec

\* However the callers' error paths, the deferred delete of
\* receiveCompletionItem, cancelAllInvokes and its goroutines interleave, no
\* channel of an invocation is closed twice, and the channels of a registered
\* invocation are open.
THEOREM ClosedOnce == Spec => [](RegisteredOpen /\ NoDoubleClose)
<1>1. CloseInv => RegisteredOpen /\ NoDoubleClose
  BY DEF CloseInv
<1> QED
  BY <1>1, CloseInvariant, PTL

-----------------------------------------------------------------------------
(* A send on a closed channel needs a race.                                *)

Loaded(c) == pc[c] \notin {"start", "load"}

\* A call keeps the id that GetNewID gave it, and what it has passed.
LEMMA IdsKept ==
  ASSUME TypeOK, [Next]_vars, NEW c \in Calls
  PROVE  /\ Loaded(c) => Loaded(c)' /\ id'[c] = id[c]
         /\ pc[c] \notin Unregistered => pc'[c] \notin Unregistered
         /\ pc[c] = "failed" => pc'[c] = "failed"
         /\ pc[c] = "sent" => pc'[c] = "sent"
<1> USE DEF TypeOK, CallTypes, Loaded, Unregistered
<1>1. CASE UNCHANGED <<pc, id>>
  BY <1>1, Zenon
<1>2. ASSUME NEW d \in Calls, NEW s \in {"load", "register", "check", "select", "delete", "sent", "failed"},
             pc' = [pc EXCEPT ![d] = s],
             \/ pc[d] = "start" /\ s = "load" /\ id' = id
             \/ pc[d] = "load" /\ s = "register" /\ id' = [id EXCEPT ![d] = lastID]
             \/ pc[d] \notin {"start", "load", "sent", "failed"} /\ s \notin Unregistered /\ id' = id
      PROVE  /\ Loaded(c) => Loaded(c)' /\ id'[c] = id[c]
             /\ pc[c] \notin Unregistered => pc'[c] \notin Unregistered
             /\ pc[c] = "failed" => pc'[c] = "failed"
             /\ pc[c] = "sent" => pc'[c] = "sent"
  BY <1>2, Zenon
<1>3. ASSUME NEW d \in Calls, Call(d)
      PROVE  /\ Loaded(c) => Loaded(c)' /\ id'[c] = id[c]
             /\ pc[c] \notin Unregistered => pc'[c] \notin Unregistered
             /\ pc[c] = "failed" => pc'[c] = "failed"
             /\ pc[c] = "sent" => pc'[c] = "sent"
  <2>1. CASE AddUint64(d)
    BY <1>2, <2>1, Zenon DEF AddUint64
  <2>2. CASE LoadUint64(d)
    BY <1>2, <2>2, Zenon DEF LoadUint64
  <2>3. CASE newInvocation(d)
    BY <1>2, <2>3, Zenon DEF newInvocation
  <2>4. CASE writeMessage(d)
    BY <1>2, <2>4, Zenon DEF writeMessage
  <2>5. CASE SelectCanceled(d)
    BY <1>2, <2>5, Zenon DEF SelectCanceled
  <2>6. CASE SelectWritten(d)
    BY <1>2, <2>6, Zenon DEF SelectWritten
  <2>7. CASE SendFailed(d)
    BY <1>2, <2>7, Zenon DEF SendFailed
  <2> QED
    BY <1>3, <2>1, <2>2, <2>3, <2>4, <2>5, <2>6, <2>7, Zenon DEF Call
<1>4. ASSUME NEW d \in Calls, Write(d) \/ Merge(d) \/ Forwarder(d) \/ Canceler(d)
      PROVE  UNCHANGED <<pc, id>>
  BY <1>4, Zenon DEF callVars, Write, Merge, Forwarder, Canceler, WriteOk, WriteError, MergeResult, MergeErr,
     MergePush, MergeClosed, MergeCanceled, Forward, ForwardEnd, CancelerSend, CancelerClose
<1>5. ASSUME ReceiveCompletion \/ LoopStep \/ SenderSend \/ Environment
      PROVE  UNCHANGED <<pc, id>>
  BY <1>5, Zenon DEF callVars, ReceiveCompletion, LoopStep, SenderSend, Environment, LookupCompletion,
     CompletionSent, CompletionDone, LoopCanceled, cancelAllInvokes, Abort, LoopFails,
     CompletionTimeout, ServerAnswers, ConnectionCanceled, PartyCanceled
<1>6. ASSUME UNCHANGED vars PROVE UNCHANGED <<pc, id>>
  BY <1>6, Zenon DEF vars, callVars
<1> HIDE DEF Loaded, Unregistered
<1> QED
  BY <1>1, <1>3, <1>4, <1>5, <1>6, Zenon DEF Next

\* While the goroutine of receiveCompletionItem has something to send, the loop
\* waits for it or has given up on it; the call it sends to has the id of the
\* completion, and its channels are open as long as the loop waits, unless a call
\* with that id has failed.  The goroutines of cancelAllInvokes come later.
RaceInv ==
  /\ sender.todo # <<>> => loop = "await" \/ verdict = "ending"
  /\ verdict = "ending" => loop \in {"delete", "ending", "canceled", "ended"}
  /\ sender.todo # <<>> => id[sender.call] = completion.id /\ pc[sender.call] \notin Unregistered
  /\ sender.todo # <<>> /\ loop = "await" =>
       \/ ~resultChan[sender.call].closed /\ ~errChan[sender.call].closed
       \/ \E c \in Calls : pc[c] = "failed" /\ id[c] = completion.id
  /\ \A c \in Calls : canceler[c] # "none" => loop \in {"canceled", "ended"}
  /\ PanicNeedsRace

\* RaceInv only depends on the loop, the ids and what is closed.
LEMMA RaceKept ==
  ASSUME TypeOK, RaceInv, [Next]_vars,
         UNCHANGED <<sender, loop, verdict, completion, canceler, panicked>>,
         \A c \in Calls : /\ ~resultChan[c].closed => ~resultChan'[c].closed
                          /\ ~errChan[c].closed => ~errChan'[c].closed
  PROVE  RaceInv'
<1>1. sender.todo # <<>> => sender.call \in Calls
  BY Zenon DEF TypeOK, LoopTypes
<1>2. \A c \in Calls : /\ pc[c] \notin Unregistered => pc'[c] \notin Unregistered /\ id'[c] = id[c]
                       /\ pc[c] = "failed" => pc'[c] = "failed" /\ id'[c] = id[c]
  BY IdsKept DEF Loaded, Unregistered
<1>3. PanicNeedsRace'
  BY <1>2, Zenon DEF RaceInv, PanicNeedsRace
<1>4. sender.todo # <<>> => id'[sender.call] = completion.id /\ pc'[sender.call] \notin Unregistered
  BY <1>1, <1>2 DEF RaceInv
<1>5. sender.todo # <<>> /\ loop = "await" =>
       \/ ~resultChan'[sender.call].closed /\ ~errChan'[sender.call].closed
       \/ \E c \in Calls : pc'[c] = "failed" /\ id'[c] = completion.id
  BY <1>1, <1>2 DEF RaceInv
<1> QED
  BY <1>3, <1>4, <1>5 DEF RaceInv

\* No step makes a goroutine send on a closed channel without the race.
LEMMA RaceStep ==
  ASSUME TypeOK, CloseInv, RaceInv, [Next]_vars
  PROVE  RaceInv'
<1> USE DEF TypeOK
<1> USE CallsAssumption
<1>1. ASSUME NEW c \in Calls, newInvocation(c) PROVE RaceInv'
  <2>1. \A d \in Calls : /\ ~resultChan[d].closed => ~resultChan'[d].closed
                         /\ ~errChan[d].closed => ~errChan'[d].closed
    BY <1>1, Zenon DEF newInvocation, ChanTypes, NewChan
  <2> QED
    BY <1>1, <2>1, RaceKept, Zenon DEF newInvocation, loopVars
<1>2. ASSUME NEW c \in Calls, AddUint64(c) \/ LoadUint64(c) \/ writeMessage(c) \/ SelectCanceled(c)
                              \/ SelectWritten(c)
      PROVE  RaceInv'
  BY <1>2, RaceKept, Zenon DEF AddUint64, LoadUint64, writeMessage, SelectCanceled, SelectWritten, chanVars, loopVars
<1>3. ASSUME NEW c \in Calls, Write(c) \/ MergePush(c) \/ MergeClosed(c) \/ MergeCanceled(c) \/ ForwardEnd(c)
      PROVE  RaceInv'
  BY <1>3, RaceKept, Zenon DEF Write, WriteOk, WriteError, MergePush, MergeClosed, MergeCanceled, ForwardEnd,
     chanVars, loopVars
<1>4. ASSUME NEW c \in Calls, MergeResult(c) \/ MergeErr(c) \/ Forward(c)
      PROVE  RaceInv'
  <2>1. \A d \in Calls : /\ resultChan'[d].closed = resultChan[d].closed
                         /\ errChan'[d].closed = errChan[d].closed
    <3>1. CASE MergeResult(c)
      BY <3>1, ClosedKept, Zenon DEF MergeResult, ChanTypes
    <3>2. CASE MergeErr(c)
      BY <3>2, ClosedKept, Zenon DEF MergeErr, ChanTypes
    <3>3. CASE Forward(c)
      BY <3>3, ClosedKept, ZenonT(30) DEF Forward, ChanTypes
    <3> QED
      BY <1>4, <3>1, <3>2, <3>3, Zenon
  <2>2. UNCHANGED <<sender, loop, verdict, completion, canceler, panicked>>
    BY <1>4, Zenon DEF MergeResult, MergeErr, Forward, loopVars
  <2> QED
    BY <2>1, <2>2, RaceKept, Zenon
<1>5. CASE ServerAnswers \/ ConnectionCanceled \/ PartyCanceled \/ UNCHANGED vars
  BY <1>5, RaceKept, Zenon DEF ServerAnswers, ConnectionCanceled, PartyCanceled, vars, chanVars, loopVars
<1>6. ASSUME NEW c \in Calls, SendFailed(c) PROVE RaceInv'
  <2>1. UNCHANGED <<sender, loop, verdict, completion, canceler>> /\ id' = id
    BY <1>6, Zenon DEF SendFailed, loopVars
  <2>2. \A d \in Calls : /\ pc[d] \notin Unregistered => pc'[d] \notin Unregistered
                         /\ pc[d] = "failed" => pc'[d] = "failed"
    BY IdsKept, Zenon
  <2>3. pc'[c] = "failed"
    BY <1>6, Zenon DEF SendFailed, CallTypes
  <2>4. panicked' = panicked \/ panicked' = "close of closed channel"
    BY <1>6, Zenon DEF SendFailed, deleteInvocation
  <2>5. PanicNeedsRace'
    BY <2>1, <2>2, <2>4, Zenon DEF RaceInv, PanicNeedsRace
  <2>6. ASSUME sender.todo # <<>>, loop = "await"
        PROVE  \/ ~resultChan'[sender.call].closed /\ ~errChan'[sender.call].closed
               \/ \E d \in Calls : pc'[d] = "failed" /\ id'[d] = completion.id
    <3>1. sender.call \in Calls /\ id[sender.call] = completion.id
      BY <2>6, Zenon DEF RaceInv, LoopTypes
    <3>2. CASE id[c] = completion.id
      BY <2>1, <2>3, <3>2, Zenon
    <3>3. CASE id[c] # completion.id
      <4>1. resultChan'[sender.call] = resultChan[sender.call] /\ errChan'[sender.call] = errChan[sender.call]
        <5>1. CASE id[c] \notin DOMAIN resultChans
          BY <1>6, <5>1, Zenon DEF SendFailed, deleteInvocation, chanVars
        <5>2. CASE id[c] \in DOMAIN resultChans
          <6>1. resultChans[id[c]] # sender.call
            BY <3>1, <3>3, <5>2, Zenon DEF CloseInv, CloseOwnership
          <6> QED
            BY <1>6, <3>1, <5>2, <6>1, Zenon DEF SendFailed, deleteInvocation, ChanTypes
        <5> QED
          BY <5>1, <5>2, Zenon
      <4> QED
        BY <2>1, <2>2, <2>6, <4>1, Zenon DEF RaceInv
    <3> QED
      BY <3>2, <3>3, Zenon
  <2>7. sender.todo # <<>> => id'[sender.call] = completion.id /\ pc'[sender.call] \notin Unregistered
    BY <2>1, <2>2, Zenon DEF RaceInv, LoopTypes
  <2> QED
    BY <2>1, <2>5, <2>6, <2>7, Zenon DEF RaceInv
<1>7. ASSUME NEW c \in Calls, CancelerSend(c) PROVE RaceInv'
  <2>1. ~errChan[c].closed
    BY <1>7, Zenon DEF CancelerSend, CloseInv, CloseOwnership
  <2>2. UNCHANGED <<sender, loop, verdict, completion, id, pc, panicked>>
    BY <1>7, <2>1, Zenon DEF CancelerSend, callVars
  <2>3. loop \in {"canceled", "ended"}
    BY <1>7, Zenon DEF CancelerSend, RaceInv
  <2> QED
    BY <2>2, <2>3, Zenon DEF RaceInv, PanicNeedsRace
<1>8. ASSUME NEW c \in Calls, CancelerClose(c) PROVE RaceInv'
  <2>1. ~errChan[c].closed
    BY <1>8, Zenon DEF CancelerClose, CloseInv, CloseOwnership
  <2>2. UNCHANGED <<sender, loop, verdict, completion, id, pc, panicked>>
    BY <1>8, <2>1, Zenon DEF CancelerClose, callVars
  <2>3. loop \in {"canceled", "ended"}
    BY <1>8, Zenon DEF CancelerClose, RaceInv
  <2> QED
    BY <2>2, <2>3, Zenon DEF RaceInv, PanicNeedsRace
<1>9. CASE ReceiveCompletion
  <2>1. loop = "receive" /\ loop' \in {"lookup", "ending"} /\ panicked = "no"
        /\ UNCHANGED <<sender, verdict, canceler, panicked>>
    BY <1>9 DEF ReceiveCompletion, Alive
  <2>2. sender.todo = <<>> /\ verdict # "ending" /\ \A c \in Calls : canceler[c] = "none"
    BY <2>1 DEF RaceInv
  <2> QED
    BY <2>1, <2>2 DEF RaceInv, PanicNeedsRace
<1>10. CASE LookupCompletion
  <2>1. loop = "lookup" /\ panicked = "no" /\ UNCHANGED <<completion, canceler, panicked, id, pc, resultChan, errChan>>
    BY <1>10 DEF LookupCompletion, Alive, callVars, chanVars
  <2>2. sender.todo = <<>> /\ verdict # "ending" /\ \A c \in Calls : canceler[c] = "none"
    BY <2>1 DEF RaceInv
  <2>3. CASE loop' = "await"
    <3>1. /\ completion.id \in DOMAIN resultChans /\ sender'.call = resultChans[completion.id]
          /\ verdict' = verdict
      <4>1. completion.id \in DOMAIN resultChans /\ completion.kind \in {"error", "value"}
        BY <1>10, <2>3, Zenon DEF LookupCompletion
      <4>2. sender' = [call |-> resultChans[completion.id], todo |-> Sends(completion)]
        BY <1>10, <4>1, Zenon DEF LookupCompletion
      <4>3. verdict' = verdict
        BY <1>10, <4>1, Zenon DEF LookupCompletion
      <4> QED
        BY <4>1, <4>2, <4>3, Zenon
    <3>2. /\ ~resultChan[sender'.call].closed /\ ~errChan[sender'.call].closed
          /\ id[sender'.call] = completion.id /\ pc[sender'.call] \notin Unregistered
      BY <3>1, Zenon DEF CloseInv, CloseOwnership, RegisteredOpen
    <3> QED
      BY <2>1, <2>2, <2>3, <3>1, <3>2 DEF RaceInv, PanicNeedsRace
  <2>4. CASE loop' # "await"
    <3>1. loop' = "delete" /\ sender' = sender
      BY <1>10, <2>4, Zenon DEF LookupCompletion
    <3> QED
      BY <2>1, <2>2, <3>1 DEF RaceInv, PanicNeedsRace
  <2> QED
    BY <2>3, <2>4, Zenon
<1>11. CASE SenderSend
  <2>1. /\ sender.todo # <<>> /\ sender.call \in Calls /\ panicked = "no"
        /\ sender'.call = sender.call
        /\ UNCHANGED <<loop, verdict, completion, canceler, id, pc>>
    BY <1>11, SenderType, Zenon DEF SenderSend, Alive, callVars, LoopTypes
  <2>2. \A d \in Calls : /\ resultChan'[d].closed = resultChan[d].closed
                         /\ errChan'[d].closed = errChan[d].closed
    <3> DEFINE c == sender.call
               x == Head(sender.todo)
    <3>1. c \in Calls /\ resultChan[c] \in Chan /\ errChan[c] \in Chan
      BY <2>1 DEF ChanTypes
    <3>2. /\ Put(resultChan[c], x).closed = resultChan[c].closed
          /\ Put(errChan[c], x).closed = errChan[c].closed
      BY <3>1, ClosedKept, Zenon
    <3>3. /\ resultChan' \in {resultChan, [resultChan EXCEPT ![c] = Put(resultChan[c], x)]}
          /\ errChan' \in {errChan, [errChan EXCEPT ![c] = Put(errChan[c], x)]}
      BY <1>11, Zenon DEF SenderSend
    <3> HIDE DEF c, x
    <3> QED
      BY <3>1, <3>2, <3>3, Zenon DEF ChanTypes
  <2>3. panicked' # "no" => resultChan[sender.call].closed \/ errChan[sender.call].closed
    BY <1>11, Zenon DEF SenderSend, Alive
  <2>4. PanicNeedsRace'
    BY <2>1, <2>3, Zenon DEF RaceInv, PanicNeedsRace
  <2> QED
    BY <2>1, <2>2, <2>4 DEF RaceInv
<1>12. CASE CompletionSent \/ CompletionTimeout
  <2>1. /\ loop = "await" /\ loop' = "delete" /\ panicked = "no"
        /\ sender.todo = <<>> \/ verdict' = "ending"
        /\ UNCHANGED <<sender, completion, canceler, id, pc, panicked>>
    BY <1>12, Zenon DEF CompletionSent, CompletionTimeout, Alive, callVars
  <2> QED
    BY <2>1 DEF RaceInv, PanicNeedsRace
<1>13. CASE CompletionDone
  <2>1. /\ loop = "delete" /\ loop' = verdict /\ panicked = "no"
        /\ UNCHANGED <<sender, verdict, completion, canceler, id, pc>>
        /\ panicked' \in {"no", "close of closed channel"}
    BY <1>13, Zenon DEF CompletionDone, deleteInvocation, Alive, callVars
  <2> QED
    BY <2>1, Zenon DEF RaceInv, PanicNeedsRace, LoopTypes
<1>14. CASE LoopFails \/ LoopCanceled
  <2>1. /\ loop = "receive" /\ loop' = "ending" /\ panicked = "no"
        /\ UNCHANGED <<sender, verdict, completion, canceler, panicked, id, pc>>
    BY <1>14, Zenon DEF LoopFails, LoopCanceled, Alive, callVars
  <2> QED
    BY <2>1 DEF RaceInv, PanicNeedsRace
<1>15. CASE cancelAllInvokes
  <2>1. /\ loop = "ending" /\ loop' = "canceled" /\ panicked = "no"
        /\ UNCHANGED <<sender, verdict, completion, id, pc>>
        /\ panicked' \in {"no", "close of closed channel"}
    BY <1>15, Zenon DEF cancelAllInvokes, Alive, callVars
  <2> QED
    BY <2>1, Zenon DEF RaceInv, PanicNeedsRace
<1>16. CASE Abort
  <2>1. /\ loop = "canceled" /\ loop' = "ended" /\ panicked = "no"
        /\ UNCHANGED <<sender, verdict, completion, canceler, panicked, id, pc>>
    BY <1>16 DEF Abort, Alive, callVars
  <2> QED
    BY <2>1 DEF RaceInv, PanicNeedsRace
<1> HIDE DEF RaceInv
<1> QED
  BY <1>1, <1>2, <1>3, <1>4, <1>5, <1>6, <1>7, <1>8, <1>9, <1>10, <1>11, <1>12, <1>13, <1>14, <1>15, <1>16, Zenon
     DEF Next, Call, Merge, Forwarder, Canceler, LoopStep, Environment

\* Every step keeps what the race depends on.
LEMMA RaceInvariant == Spec => []RaceInv
<1>1. Init => RaceInv
  BY DEF Init, RaceInv, PanicNeedsRace
<1>2. TypeOK /\ CloseInv /\ RaceInv /\ [Next]_vars => RaceInv'
  BY RaceStep
<1> QED
  BY <1>1, <1>2, TypeCorrect, CloseInvariant, PTL DEF Spec

\* A goroutine sends on a closed channel of an invocation only when a completion
\* races with the failing of a call of its id, or was not taken in time: the
\* goroutines of cancelAllInvokes never do (invokeclient.go).
THEOREM NoPanicWithoutRace == Spec => []PanicNeedsRace
<1>1. RaceInv => PanicNeedsRace
  BY DEF RaceInv
<1> QED
  BY <1>1, RaceInvariant, PTL

-----------------------------------------------------------------------------
(* The way of an answer to the user.                                       *)

\* The way of an answer to the user of call c: the goroutine of
\* receiveCompletionItem, the channels of the invocation, the goroutine that
\* merges them, its channel, and the channel the user reads.
Places == {"todo", "result", "err", "merge", "ir", "out"}
Pipe == [c \in Calls |-> [p \in Places |->
  CASE p = "todo" -> IF sender.call = c THEN sender.todo ELSE <<>>
    [] p = "result" -> resultChan[c].buf
    [] p = "err" -> errChan[c].buf
    [] p = "merge" -> IF merge[c].at = "push" THEN <<merge[c].item>> ELSE <<>>
    [] p = "ir" -> irCh[c].buf
    [] p = "out" -> out[c]]]

\* M is L after its first item at some place has gone to another place.
Moved(L, M) ==
  \E p, q \in Places : /\ p # q /\ L[p] # <<>>
                       /\ M[p] = Tail(L[p]) /\ M[q] = Append(L[q], Head(L[p]))
                       /\ \A r \in Places \ {p, q} : M[r] = L[r]

\* M is L with item x added at place p.
Added(L, M, p, x) == M[p] = Append(L[p], x) /\ \A r \in Places \ {p} : M[r] = L[r]

\* The sequence of one item.
LEMMA OneItem ==
  ASSUME NEW x
  PROVE  Append(<<>>, x) = <<x>> /\ <<x>> # <<>> /\ Head(<<x>>) = x /\ Tail(<<x>>) = <<>>
  OBVIOUS

\* Items are at every place.
LEMMA PipeType ==
  ASSUME TypeOK, NEW c \in Calls, NEW p \in Places
  PROVE  Pipe[c][p] \in Seq(Items)
<1>1. sender.todo \in Seq(Items)
  BY Zenon DEF TypeOK, LoopTypes
<1>2. resultChan[c].buf \in Seq(Items) /\ errChan[c].buf \in Seq(Items)
  BY Zenon DEF TypeOK, ChanTypes, Chan
<1>3. irCh[c].buf \in Seq(Items) /\ out[c] \in Seq(Items)
  BY Zenon DEF TypeOK, OutTypes, Chan
<1>4. merge[c].item \in Items
  BY Zenon DEF TypeOK, OutTypes, MergeState
<1>5. Pipe[c]["todo"] \in Seq(Items) /\ Pipe[c]["result"] \in Seq(Items) /\ Pipe[c]["err"] \in Seq(Items)
  BY <1>1, <1>2 DEF Pipe, Places
<1>6. Pipe[c]["merge"] \in Seq(Items) /\ Pipe[c]["ir"] \in Seq(Items) /\ Pipe[c]["out"] \in Seq(Items)
  BY <1>3, <1>4 DEF Pipe, Places
<1> QED
  BY <1>5, <1>6 DEF Places

\* What a channel operation does to the items in the channel.
LEMMA ChanItems ==
  ASSUME NEW ch \in Chan
  PROVE  /\ Close(ch).buf = ch.buf /\ Get(ch).buf = Tail(ch.buf)
         /\ \A x : Put(ch, x).buf = Append(ch.buf, x)
         /\ NewChan.buf = <<>>
  BY DEF Chan, Close, Get, Put, NewChan

\* deleteInvocation does not touch what is in the channels.
LEMMA DeleteItems ==
  ASSUME TypeOK, NEW i, deleteInvocation(i), NEW c \in Calls
  PROVE  resultChan'[c].buf = resultChan[c].buf /\ errChan'[c].buf = errChan[c].buf
<1>1. CASE i \notin DOMAIN resultChans
  BY <1>1 DEF deleteInvocation, chanVars
<1>2. CASE i \in DOMAIN resultChans
  <2>1. /\ resultChan' = [resultChan EXCEPT ![resultChans[i]] = Close(resultChan[resultChans[i]])]
        /\ errChan' = [errChan EXCEPT ![resultChans[i]] = Close(errChan[resultChans[i]])]
    BY <1>2, Zenon DEF deleteInvocation
  <2>2. /\ resultChans[i] \in Calls
        /\ \A d \in Calls : Close(resultChan[d]).buf = resultChan[d].buf /\ Close(errChan[d]).buf = errChan[d].buf
    BY <1>2, Zenon DEF TypeOK, ChanTypes, Chan, Close
  <2> QED
    BY <2>1, <2>2, Zenon DEF TypeOK, ChanTypes
<1> QED
  BY <1>1, <1>2

\* At the beginning nothing is under way to any call.
LEMMA PipeEmpty ==
  ASSUME Init
  PROVE  \A c \in Calls, p \in Places : Pipe[c][p] = <<>>
<1> SUFFICES ASSUME NEW c \in Calls, NEW p \in Places PROVE Pipe[c][p] = <<>>
  OBVIOUS
<1>1. /\ sender.todo = <<>> /\ resultChan[c].buf = <<>> /\ errChan[c].buf = <<>>
      /\ merge[c].at # "push" /\ irCh[c].buf = <<>> /\ out[c] = <<>>
  BY DEF Init, NewChan, Idle
<1>2. QED
  BY <1>1 DEF Pipe, Places

\* A step moves one item of call c on, or none, unless it registers c, fails it,
\* cancels it or looks it up for a completion.
LEMMA PipeStep ==
  ASSUME TypeOK, RaceInv, [Next]_vars, NEW c \in Calls
  PROVE  \/ \A p \in Places : Pipe'[c][p] = Pipe[c][p]
         \/ Moved(Pipe[c], Pipe'[c])
         \/ newInvocation(c) /\ \A p \in Places : Pipe'[c][p] \in {<<>>, Pipe[c][p]}
         \/ SendFailed(c) /\ Added(Pipe[c], Pipe'[c], "out", Item("client", None))
         \/ CancelerSend(c) /\ Added(Pipe[c], Pipe'[c], "err", Item("ended", None))
         \/ /\ LookupCompletion /\ completion.id \in DOMAIN resultChans
            /\ completion.kind \in {"error", "value"}
            /\ c = resultChans[completion.id] /\ Pipe'[c]["todo"] = Sends(completion)
            /\ \A p \in Places \ {"todo"} : Pipe'[c][p] = Pipe[c][p]
<1> DEFINE Same == \A p \in Places : Pipe'[c][p] = Pipe[c][p]
           Goal == \/ Same \/ Moved(Pipe[c], Pipe'[c])
                   \/ newInvocation(c) /\ \A p \in Places : Pipe'[c][p] \in {<<>>, Pipe[c][p]}
                   \/ SendFailed(c) /\ Added(Pipe[c], Pipe'[c], "out", Item("client", None))
                   \/ CancelerSend(c) /\ Added(Pipe[c], Pipe'[c], "err", Item("ended", None))
                   \/ /\ LookupCompletion /\ completion.id \in DOMAIN resultChans
                      /\ completion.kind \in {"error", "value"}
                      /\ c = resultChans[completion.id] /\ Pipe'[c]["todo"] = Sends(completion)
                      /\ \A p \in Places \ {"todo"} : Pipe'[c][p] = Pipe[c][p]
<1> SUFFICES Goal
  OBVIOUS
<1> USE DEF TypeOK
<1>0. ASSUME /\ sender' = sender /\ resultChan'[c].buf = resultChan[c].buf /\ errChan'[c].buf = errChan[c].buf
             /\ merge'[c] = merge[c] /\ irCh'[c].buf = irCh[c].buf /\ out'[c] = out[c]
      PROVE  Same
  <2>1. /\ Pipe'[c]["todo"] = Pipe[c]["todo"] /\ Pipe'[c]["result"] = Pipe[c]["result"]
        /\ Pipe'[c]["err"] = Pipe[c]["err"] /\ Pipe'[c]["merge"] = Pipe[c]["merge"]
        /\ Pipe'[c]["ir"] = Pipe[c]["ir"] /\ Pipe'[c]["out"] = Pipe[c]["out"]
    BY <1>0, Zenon DEF Pipe, Places
  <2> QED
    BY <2>1, Zenon DEF Places
<1>a. resultChan[c] \in Chan /\ errChan[c] \in Chan /\ irCh[c] \in Chan /\ merge[c] \in MergeState
  BY Zenon DEF ChanTypes, OutTypes
<1>1. ASSUME NEW d \in Calls, newInvocation(d) PROVE Goal
  <2>1. CASE d = c
    <3>1. /\ sender' = sender /\ resultChan'[c] = NewChan /\ errChan'[c] = NewChan
          /\ irCh' = irCh /\ out' = out
      BY <1>1, <2>1, Zenon DEF newInvocation, loopVars, ChanTypes
    <3>2. merge'[c] = merge[c] \/ merge'[c].at = "select"
      BY <1>1, <2>1, Zenon DEF newInvocation, Idle, OutTypes
    <3>3. /\ Pipe'[c]["todo"] = Pipe[c]["todo"] /\ Pipe'[c]["result"] = <<>>
          /\ Pipe'[c]["err"] = <<>> /\ Pipe'[c]["ir"] = Pipe[c]["ir"] /\ Pipe'[c]["out"] = Pipe[c]["out"]
      BY <3>1, <1>a, ChanItems, Zenon DEF Pipe, Places
    <3>4. Pipe'[c]["merge"] = Pipe[c]["merge"] \/ Pipe'[c]["merge"] = <<>>
      BY <3>2, Zenon DEF Pipe, Places
    <3>5. \A p \in Places : Pipe'[c][p] \in {<<>>, Pipe[c][p]}
      BY <3>3, <3>4, Zenon DEF Places
    <3> QED
      BY <1>1, <2>1, <3>5, Zenon
  <2>2. CASE d # c
    BY <1>0, <1>1, <2>2, Zenon DEF newInvocation, loopVars, ChanTypes, OutTypes
  <2> QED
    BY <2>1, <2>2, Zenon
<1>2. ASSUME NEW d \in Calls, AddUint64(d) \/ LoadUint64(d) \/ writeMessage(d) \/ SelectCanceled(d)
                              \/ SelectWritten(d) \/ Write(d) \/ ForwardEnd(d)
      PROVE  Same
  BY <1>0, <1>2, Zenon DEF AddUint64, LoadUint64, writeMessage, SelectCanceled, SelectWritten, Write, WriteOk, WriteError,
     ForwardEnd, chanVars, outVars, loopVars
<1>3. ASSUME NEW d \in Calls, SendFailed(d) PROVE Goal
  <2>1. sender' = sender /\ resultChan'[c].buf = resultChan[c].buf /\ errChan'[c].buf = errChan[c].buf
        /\ merge' = merge /\ irCh' = irCh /\ out' = [out EXCEPT ![d] = Append(out[d], Item("client", None))]
    BY <1>3, DeleteItems, Zenon DEF SendFailed, loopVars
  <2>2. CASE d = c
    <3>1. out'[c] = Append(out[c], Item("client", None))
      BY <2>1, <2>2, Zenon DEF OutTypes
    <3>2. Added(Pipe[c], Pipe'[c], "out", Item("client", None))
      <4>1. /\ Pipe'[c]["out"] = Append(Pipe[c]["out"], Item("client", None))
            /\ Pipe'[c]["todo"] = Pipe[c]["todo"] /\ Pipe'[c]["result"] = Pipe[c]["result"]
            /\ Pipe'[c]["err"] = Pipe[c]["err"] /\ Pipe'[c]["merge"] = Pipe[c]["merge"]
            /\ Pipe'[c]["ir"] = Pipe[c]["ir"]
        BY <2>1, <3>1, Zenon DEF Pipe, Places
      <4> QED
        BY <4>1, Zenon DEF Added, Places
    <3> QED
      BY <1>3, <2>2, <3>2, Zenon
  <2>3. CASE d # c
    BY <1>0, <2>1, <2>3, Zenon DEF OutTypes
  <2> QED
    BY <2>2, <2>3, Zenon
<1>4. ASSUME NEW d \in Calls, MergeResult(d) PROVE Goal
  <2>1. CASE d = c
    <3>1. /\ sender' = sender /\ resultChan'[c].buf = Tail(resultChan[c].buf) /\ errChan' = errChan
          /\ irCh' = irCh /\ out' = out /\ merge[c].at = "select" /\ resultChan[c].buf # <<>>
      BY <1>4, <2>1, <1>a, ChanItems, Zenon DEF MergeResult, loopVars, ChanTypes
    <3>2. merge'[c].at = "push" /\ merge'[c].item = Head(resultChan[c].buf)
      BY <1>4, <2>1, <1>a, Zenon DEF MergeResult, SetMerge, OutTypes, MergeState
    <3>3. /\ Pipe[c]["result"] # <<>> /\ Pipe'[c]["result"] = Tail(Pipe[c]["result"])
          /\ Pipe'[c]["merge"] = Append(Pipe[c]["merge"], Head(Pipe[c]["result"]))
      <4>1. Pipe[c]["result"] = resultChan[c].buf /\ Pipe'[c]["result"] = Tail(resultChan[c].buf)
        BY <3>1, Zenon DEF Pipe, Places
      <4>2. Pipe[c]["merge"] = <<>> /\ Pipe'[c]["merge"] = <<Head(resultChan[c].buf)>>
        BY <3>1, <3>2, Zenon DEF Pipe, Places
      <4> QED
        BY <3>1, <4>1, <4>2, OneItem, Zenon
    <3>4. /\ Pipe'[c]["todo"] = Pipe[c]["todo"] /\ Pipe'[c]["err"] = Pipe[c]["err"]
          /\ Pipe'[c]["ir"] = Pipe[c]["ir"] /\ Pipe'[c]["out"] = Pipe[c]["out"]
      BY <3>1, <3>2, Zenon DEF Pipe, Places
    <3>5. \A r \in Places \ {"result", "merge"} : Pipe'[c][r] = Pipe[c][r]
      BY <3>4, Zenon DEF Places
    <3> QED
      BY <3>3, <3>5, Zenon DEF Moved, Places
  <2>2. CASE d # c
    BY <1>0, <1>4, <2>2, Zenon DEF MergeResult, SetMerge, loopVars, ChanTypes, OutTypes
  <2> QED
    BY <2>1, <2>2, Zenon
<1>5. ASSUME NEW d \in Calls, MergeErr(d) PROVE Goal
  <2>1. CASE d = c
    <3>1. /\ sender' = sender /\ errChan'[c].buf = Tail(errChan[c].buf) /\ resultChan' = resultChan
          /\ irCh' = irCh /\ out' = out /\ merge[c].at = "select" /\ errChan[c].buf # <<>>
      BY <1>5, <2>1, <1>a, ChanItems, Zenon DEF MergeErr, loopVars, ChanTypes
    <3>2. merge'[c].at = "push" /\ merge'[c].item = Head(errChan[c].buf)
      BY <1>5, <2>1, <1>a, Zenon DEF MergeErr, SetMerge, OutTypes, MergeState
    <3>3. /\ Pipe[c]["err"] # <<>> /\ Pipe'[c]["err"] = Tail(Pipe[c]["err"])
          /\ Pipe'[c]["merge"] = Append(Pipe[c]["merge"], Head(Pipe[c]["err"]))
      <4>1. Pipe[c]["err"] = errChan[c].buf /\ Pipe'[c]["err"] = Tail(errChan[c].buf)
        BY <3>1, Zenon DEF Pipe, Places
      <4>2. Pipe[c]["merge"] = <<>> /\ Pipe'[c]["merge"] = <<Head(errChan[c].buf)>>
        BY <3>1, <3>2, Zenon DEF Pipe, Places
      <4> QED
        BY <3>1, <4>1, <4>2, OneItem, Zenon
    <3>4. /\ Pipe'[c]["todo"] = Pipe[c]["todo"] /\ Pipe'[c]["result"] = Pipe[c]["result"]
          /\ Pipe'[c]["ir"] = Pipe[c]["ir"] /\ Pipe'[c]["out"] = Pipe[c]["out"]
      BY <3>1, <3>2, Zenon DEF Pipe, Places
    <3>5. \A r \in Places \ {"err", "merge"} : Pipe'[c][r] = Pipe[c][r]
      BY <3>4, Zenon DEF Places
    <3> QED
      BY <3>3, <3>5, Zenon DEF Moved, Places
  <2>2. CASE d # c
    BY <1>0, <1>5, <2>2, Zenon DEF MergeErr, SetMerge, loopVars, ChanTypes, OutTypes
  <2> QED
    BY <2>1, <2>2, Zenon
<1>6. ASSUME NEW d \in Calls, MergePush(d) PROVE Goal
  <2>1. CASE d = c
    <3>1. /\ sender' = sender /\ errChan' = errChan /\ resultChan' = resultChan
          /\ irCh'[c].buf = Append(irCh[c].buf, merge[c].item) /\ out' = out /\ merge[c].at = "push"
      BY <1>6, <2>1, <1>a, ChanItems, ZenonT(30) DEF MergePush, chanVars, loopVars, OutTypes
    <3>2. merge'[c].at = "select"
      BY <1>6, <2>1, <1>a, Zenon DEF MergePush, SetMerge, OutTypes, MergeState
    <3>3. /\ Pipe[c]["merge"] # <<>> /\ Pipe'[c]["merge"] = Tail(Pipe[c]["merge"])
          /\ Pipe'[c]["ir"] = Append(Pipe[c]["ir"], Head(Pipe[c]["merge"]))
      <4>1. Pipe[c]["ir"] = irCh[c].buf /\ Pipe'[c]["ir"] = Append(irCh[c].buf, merge[c].item)
        BY <3>1, Zenon DEF Pipe, Places
      <4>2. Pipe[c]["merge"] = <<merge[c].item>> /\ Pipe'[c]["merge"] = <<>>
        BY <3>1, <3>2, Zenon DEF Pipe, Places
      <4> QED
        BY <4>1, <4>2, OneItem, Zenon
    <3>4. /\ Pipe'[c]["todo"] = Pipe[c]["todo"] /\ Pipe'[c]["result"] = Pipe[c]["result"]
          /\ Pipe'[c]["err"] = Pipe[c]["err"] /\ Pipe'[c]["out"] = Pipe[c]["out"]
      BY <3>1, <3>2, Zenon DEF Pipe, Places
    <3>5. \A r \in Places \ {"merge", "ir"} : Pipe'[c][r] = Pipe[c][r]
      BY <3>4, Zenon DEF Places
    <3> QED
      BY <3>3, <3>5, Zenon DEF Moved, Places
  <2>2. CASE d # c
    BY <1>0, <1>6, <2>2, Zenon DEF MergePush, SetMerge, chanVars, loopVars, OutTypes
  <2> QED
    BY <2>1, <2>2, Zenon
<1>7. ASSUME NEW d \in Calls, MergeClosed(d) \/ MergeCanceled(d) PROVE Same
  <2>1. UNCHANGED <<sender, resultChan, errChan, out>> /\ merge[d].at = "select"
    BY <1>7, Zenon DEF MergeClosed, MergeCanceled, chanVars, loopVars
  <2>2. irCh' = irCh \/ irCh' = [irCh EXCEPT ![d] = Close(irCh[d])]
    BY <1>7, Zenon DEF MergeClosed, MergeCanceled
  <2>3. irCh'[c].buf = irCh[c].buf
    BY <2>2, <1>a, ChanItems, ZenonT(30) DEF OutTypes
  <2>4. \E m \in MergeState : merge' = [merge EXCEPT ![d] = m] /\ m.at # "push"
    <3>1. merge[d] \in MergeState
      BY Zenon DEF OutTypes
    <3>2. CASE MergeCanceled(d)
      <4> DEFINE m == [merge[d] EXCEPT !.at = "off", !.item = NoItem]
      <4>1. m \in MergeState /\ m.at # "push"
        BY <3>1, ItemType, Zenon DEF MergeState
      <4>2. merge' = [merge EXCEPT ![d] = m]
        BY <3>2, Zenon DEF MergeCanceled, SetMerge
      <4> HIDE DEF m
      <4> QED
        BY <4>1, <4>2, Zenon
    <3>3. ASSUME NEW a \in {"off", "select"}, merge' = [merge EXCEPT ![d] = [merge[d] EXCEPT !.res = TRUE, !.at = a]]
          PROVE  \E m \in MergeState : merge' = [merge EXCEPT ![d] = m] /\ m.at # "push"
      <4> DEFINE m == [merge[d] EXCEPT !.res = TRUE, !.at = a]
      <4>1. m \in MergeState /\ m.at # "push"
        BY <3>1, Zenon DEF MergeState
      <4> HIDE DEF m
      <4> QED
        BY <3>3, <4>1, Zenon DEF m
    <3>4. ASSUME NEW a \in {"off", "select"}, merge' = [merge EXCEPT ![d] = [merge[d] EXCEPT !.err = TRUE, !.at = a]]
          PROVE  \E m \in MergeState : merge' = [merge EXCEPT ![d] = m] /\ m.at # "push"
      <4> DEFINE m == [merge[d] EXCEPT !.err = TRUE, !.at = a]
      <4>1. m \in MergeState /\ m.at # "push"
        BY <3>1, Zenon DEF MergeState
      <4> HIDE DEF m
      <4> QED
        BY <3>4, <4>1, Zenon DEF m
    <3>5. CASE MergeClosed(d)
      BY <3>3, <3>4, <3>5, Zenon DEF MergeClosed
    <3> QED
      BY <1>7, <3>2, <3>5, Zenon
  <2>5. (merge'[c].at # "push" /\ merge[c].at # "push") \/ merge'[c] = merge[c]
    BY <2>1, <2>4, Zenon DEF OutTypes
  <2>6. /\ Pipe'[c]["todo"] = Pipe[c]["todo"] /\ Pipe'[c]["result"] = Pipe[c]["result"]
        /\ Pipe'[c]["err"] = Pipe[c]["err"] /\ Pipe'[c]["merge"] = Pipe[c]["merge"]
        /\ Pipe'[c]["ir"] = Pipe[c]["ir"] /\ Pipe'[c]["out"] = Pipe[c]["out"]
    BY <2>1, <2>3, <2>5, Zenon DEF Pipe, Places
  <2> QED
    BY <2>6, Zenon DEF Places
<1>8. ASSUME NEW d \in Calls, Forward(d) PROVE Goal
  <2>1. CASE d = c /\ c \in Senders
    <3>1. /\ sender' = sender /\ errChan'[c].buf = Tail(errChan[c].buf) /\ resultChan' = resultChan
          /\ irCh' = irCh /\ merge' = merge /\ errChan[c].buf # <<>>
          /\ out'[c] = Append(out[c], Head(errChan[c].buf))
      BY <1>8, <2>1, <1>a, ChanItems, Zenon DEF Forward, Source, loopVars, ChanTypes, OutTypes
    <3>2. /\ Pipe[c]["err"] # <<>> /\ Pipe'[c]["err"] = Tail(Pipe[c]["err"])
          /\ Pipe'[c]["out"] = Append(Pipe[c]["out"], Head(Pipe[c]["err"]))
      BY <3>1, Zenon DEF Pipe, Places
    <3>3. /\ Pipe'[c]["todo"] = Pipe[c]["todo"] /\ Pipe'[c]["result"] = Pipe[c]["result"]
          /\ Pipe'[c]["merge"] = Pipe[c]["merge"] /\ Pipe'[c]["ir"] = Pipe[c]["ir"]
      BY <3>1, Zenon DEF Pipe, Places
    <3>4. \A r \in Places \ {"err", "out"} : Pipe'[c][r] = Pipe[c][r]
      BY <3>3, Zenon DEF Places
    <3> QED
      BY <3>2, <3>4, Zenon DEF Moved, Places
  <2>2. CASE d = c /\ c \notin Senders
    <3>1. /\ sender' = sender /\ irCh'[c].buf = Tail(irCh[c].buf) /\ resultChan' = resultChan
          /\ errChan' = errChan /\ merge' = merge /\ irCh[c].buf # <<>>
          /\ out'[c] = Append(out[c], Head(irCh[c].buf))
      BY <1>8, <2>2, <1>a, ChanItems, Zenon DEF Forward, Source, loopVars, OutTypes
    <3>2. /\ Pipe[c]["ir"] # <<>> /\ Pipe'[c]["ir"] = Tail(Pipe[c]["ir"])
          /\ Pipe'[c]["out"] = Append(Pipe[c]["out"], Head(Pipe[c]["ir"]))
      BY <3>1, Zenon DEF Pipe, Places
    <3>3. /\ Pipe'[c]["todo"] = Pipe[c]["todo"] /\ Pipe'[c]["result"] = Pipe[c]["result"]
          /\ Pipe'[c]["err"] = Pipe[c]["err"] /\ Pipe'[c]["merge"] = Pipe[c]["merge"]
      BY <3>1, Zenon DEF Pipe, Places
    <3>4. \A r \in Places \ {"ir", "out"} : Pipe'[c][r] = Pipe[c][r]
      BY <3>3, Zenon DEF Places
    <3> QED
      BY <3>2, <3>4, Zenon DEF Moved, Places
  <2>3. CASE d # c
    BY <1>0, <1>8, <2>3, Zenon DEF Forward, loopVars, ChanTypes, OutTypes
  <2> QED
    BY <2>1, <2>2, <2>3, Zenon
<1>9. ASSUME NEW d \in Calls, CancelerSend(d) PROVE Goal
  <2>1. CASE d = c
    <3>1. /\ sender' = sender /\ errChan'[c].buf = Append(errChan[c].buf, Item("ended", None))
          /\ resultChan' = resultChan /\ irCh' = irCh /\ merge' = merge /\ out' = out
      BY <1>9, <2>1, <1>a, ChanItems, ZenonT(30) DEF CancelerSend, outVars, ChanTypes
    <3>2. Added(Pipe[c], Pipe'[c], "err", Item("ended", None))
      <4>1. /\ Pipe'[c]["err"] = Append(Pipe[c]["err"], Item("ended", None))
            /\ Pipe'[c]["todo"] = Pipe[c]["todo"] /\ Pipe'[c]["result"] = Pipe[c]["result"]
            /\ Pipe'[c]["merge"] = Pipe[c]["merge"] /\ Pipe'[c]["ir"] = Pipe[c]["ir"]
            /\ Pipe'[c]["out"] = Pipe[c]["out"]
        BY <3>1, Zenon DEF Pipe, Places
      <4> QED
        BY <4>1, Zenon DEF Added, Places
    <3> QED
      BY <1>9, <2>1, <3>2, Zenon
  <2>2. CASE d # c
    BY <1>0, <1>9, <2>2, Zenon DEF CancelerSend, outVars, ChanTypes
  <2> QED
    BY <2>1, <2>2, Zenon
<1>10. ASSUME NEW d \in Calls, CancelerClose(d) PROVE Same
  <2>1. sender' = sender /\ resultChan' = resultChan /\ errChan'[c].buf = errChan[c].buf /\ UNCHANGED outVars
    BY <1>10, <1>a, ChanItems, Zenon DEF CancelerClose, ChanTypes
  <2> QED
    BY <1>0, <2>1, Zenon DEF outVars
<1>11. CASE LookupCompletion
  <2>1. /\ sender.todo = <<>> /\ UNCHANGED <<resultChan, errChan, merge, irCh, out>>
    BY <1>11, Zenon DEF LookupCompletion, RaceInv, chanVars, outVars
  <2>2. CASE completion.id \in DOMAIN resultChans /\ completion.kind \in {"error", "value"}
    <3>1. sender' = [call |-> resultChans[completion.id], todo |-> Sends(completion)]
      BY <1>11, <2>2, Zenon DEF LookupCompletion
    <3>2. sender'.call = resultChans[completion.id] /\ sender'.todo = Sends(completion)
      BY <3>1, Zenon
    <3>3. \A p \in Places \ {"todo"} : Pipe'[c][p] = Pipe[c][p]
      <4>1. /\ Pipe'[c]["result"] = Pipe[c]["result"] /\ Pipe'[c]["err"] = Pipe[c]["err"]
            /\ Pipe'[c]["merge"] = Pipe[c]["merge"] /\ Pipe'[c]["ir"] = Pipe[c]["ir"]
            /\ Pipe'[c]["out"] = Pipe[c]["out"]
        BY <2>1, Zenon DEF Pipe, Places
      <4> QED
        BY <4>1, Zenon DEF Places
    <3>4. CASE c = resultChans[completion.id]
      <4>1. Pipe'[c]["todo"] = Sends(completion)
        BY <3>2, <3>4, Zenon DEF Pipe, Places
      <4> QED
        BY <1>11, <2>2, <3>3, <3>4, <4>1, Zenon
    <3>5. CASE c # resultChans[completion.id]
      <4>1. Pipe'[c]["todo"] = Pipe[c]["todo"]
        BY <2>1, <3>2, <3>5, Zenon DEF Pipe, Places
      <4> QED
        BY <3>3, <4>1, Zenon
    <3> QED
      BY <3>4, <3>5, Zenon
  <2>3. CASE ~(completion.id \in DOMAIN resultChans /\ completion.kind \in {"error", "value"})
    BY <1>0, <1>11, <2>1, <2>3, Zenon DEF LookupCompletion
  <2> QED
    BY <2>2, <2>3, Zenon
<1>12. CASE SenderSend
  <2>1. /\ sender.todo # <<>> /\ sender.call \in Calls
        /\ sender'.call = sender.call /\ sender'.todo = Tail(sender.todo)
        /\ UNCHANGED <<merge, irCh, out>>
    BY <1>12, SenderType, Zenon DEF SenderSend, outVars, LoopTypes
  <2>2. \/ /\ resultChan' = [resultChan EXCEPT ![sender.call] = Put(resultChan[sender.call], Head(sender.todo))]
           /\ errChan' = errChan
        \/ /\ errChan' = [errChan EXCEPT ![sender.call] = Put(errChan[sender.call], Head(sender.todo))]
           /\ resultChan' = resultChan
    BY <1>12, Zenon DEF SenderSend
  <2>3. CASE c = sender.call /\ errChan' = errChan
             /\ resultChan' = [resultChan EXCEPT ![sender.call] = Put(resultChan[sender.call], Head(sender.todo))]
    <3>1. resultChan'[c].buf = Append(resultChan[c].buf, Head(sender.todo))
      <4>1. Put(resultChan[c], Head(sender.todo)).buf = Append(resultChan[c].buf, Head(sender.todo))
        BY <1>a, ChanItems, Zenon
      <4>2. resultChan'[c] = Put(resultChan[c], Head(sender.todo))
        BY <2>3, Zenon DEF ChanTypes
      <4> QED
        BY <4>1, <4>2, Zenon
    <3>2. /\ Pipe[c]["todo"] # <<>> /\ Pipe'[c]["todo"] = Tail(Pipe[c]["todo"])
          /\ Pipe'[c]["result"] = Append(Pipe[c]["result"], Head(Pipe[c]["todo"]))
      BY <2>1, <2>3, <3>1, Zenon DEF Pipe, Places
    <3>3. /\ Pipe'[c]["err"] = Pipe[c]["err"] /\ Pipe'[c]["merge"] = Pipe[c]["merge"]
          /\ Pipe'[c]["ir"] = Pipe[c]["ir"] /\ Pipe'[c]["out"] = Pipe[c]["out"]
      BY <2>1, <2>3, <3>1, Zenon DEF Pipe, Places
    <3>4. \A r \in Places \ {"todo", "result"} : Pipe'[c][r] = Pipe[c][r]
      BY <3>3, Zenon DEF Places
    <3> QED
      BY <3>2, <3>4, Zenon DEF Moved, Places
  <2>4. CASE c = sender.call /\ resultChan' = resultChan
             /\ errChan' = [errChan EXCEPT ![sender.call] = Put(errChan[sender.call], Head(sender.todo))]
    <3>1. errChan'[c].buf = Append(errChan[c].buf, Head(sender.todo))
      <4>1. Put(errChan[c], Head(sender.todo)).buf = Append(errChan[c].buf, Head(sender.todo))
        BY <1>a, ChanItems, Zenon
      <4>2. errChan'[c] = Put(errChan[c], Head(sender.todo))
        BY <2>4, Zenon DEF ChanTypes
      <4> QED
        BY <4>1, <4>2, Zenon
    <3>2. /\ Pipe[c]["todo"] # <<>> /\ Pipe'[c]["todo"] = Tail(Pipe[c]["todo"])
          /\ Pipe'[c]["err"] = Append(Pipe[c]["err"], Head(Pipe[c]["todo"]))
      BY <2>1, <2>4, <3>1, Zenon DEF Pipe, Places
    <3>3. /\ Pipe'[c]["result"] = Pipe[c]["result"] /\ Pipe'[c]["merge"] = Pipe[c]["merge"]
          /\ Pipe'[c]["ir"] = Pipe[c]["ir"] /\ Pipe'[c]["out"] = Pipe[c]["out"]
      BY <2>1, <2>4, <3>1, Zenon DEF Pipe, Places
    <3>4. \A r \in Places \ {"todo", "err"} : Pipe'[c][r] = Pipe[c][r]
      BY <3>3, Zenon DEF Places
    <3> QED
      BY <3>2, <3>4, Zenon DEF Moved, Places
  <2>5. CASE c # sender.call
    <3>1. resultChan'[c] = resultChan[c] /\ errChan'[c] = errChan[c]
      BY <2>2, <2>5, Zenon DEF ChanTypes
    <3>2. /\ Pipe'[c]["todo"] = Pipe[c]["todo"] /\ Pipe'[c]["result"] = Pipe[c]["result"]
        /\ Pipe'[c]["err"] = Pipe[c]["err"] /\ Pipe'[c]["merge"] = Pipe[c]["merge"]
        /\ Pipe'[c]["ir"] = Pipe[c]["ir"] /\ Pipe'[c]["out"] = Pipe[c]["out"]
      BY <2>1, <2>5, <3>1, Zenon DEF Pipe, Places
    <3> QED
      BY <3>2, Zenon DEF Places
  <2> QED
    BY <2>2, <2>3, <2>4, <2>5, Zenon
<1>13. CASE CompletionDone
  <2>1. resultChan'[c].buf = resultChan[c].buf /\ errChan'[c].buf = errChan[c].buf
        /\ sender' = sender /\ UNCHANGED <<merge, irCh, out>>
    BY <1>13, DeleteItems, Zenon DEF CompletionDone, outVars
  <2> QED
    BY <1>0, <2>1, Zenon
<1>14. CASE cancelAllInvokes
  <2>1. resultChan'[c].buf = resultChan[c].buf /\ errChan' = errChan
        /\ sender' = sender /\ UNCHANGED <<merge, irCh, out>>
    BY <1>14, <1>a, ChanItems, Zenon DEF cancelAllInvokes, outVars
  <2> QED
    BY <1>0, <2>1, Zenon
<1>15. CASE ReceiveCompletion \/ CompletionSent \/ LoopCanceled \/ Abort \/ Environment \/ UNCHANGED vars
  <2>1. UNCHANGED <<sender, resultChan, errChan, merge, irCh, out>>
    BY <1>15, Zenon DEF ReceiveCompletion, CompletionSent, LoopCanceled, Abort, Environment, LoopFails, CompletionTimeout,
       ServerAnswers, ConnectionCanceled, PartyCanceled, vars, chanVars, outVars, loopVars
  <2> QED
    BY <1>0, <2>1, Zenon
<1> HIDE DEF Same
<1>16. Same => Goal
  BY Zenon
<1> HIDE DEF Goal
<1> QED
  BY <1>1, <1>2, <1>3, <1>4, <1>5, <1>6, <1>7, <1>8, <1>9, <1>10, <1>11, <1>12, <1>13, <1>14, <1>15, <1>16, Zenon
     DEF Next, Call, Merge, Forwarder, Canceler, LoopStep

-----------------------------------------------------------------------------
(* An answer goes to its call.                                             *)

\* What answers an invocation message written by a call with the id of c, and
\* what answers none.
Answers == [c \in Calls |-> {x \in Items : \/ x.origin = None
                                           \/ /\ Loaded(c) /\ Loaded(x.origin)
                                              /\ id[x.origin] = id[c]}]

\* The completions of an invocation message, with its id.
Completions == {m \in Message : m.origin # None => Loaded(m.origin) /\ m.id = id[m.origin]}

\* A message on its way has the id of the call it comes from.
MessagesInv ==
  /\ \A c \in Calls : writer[c] # "none" => Loaded(c)
  /\ \A m \in wire : Loaded(m.call) /\ m.id = id[m.call]
  /\ incoming \in Seq(Completions)
  /\ completion \in Completions

\* Whatever is on its way to call c, or has arrived there, answers a call with
\* the id of c.
PipeInv == \A c \in Calls, p \in Places : Pipe[c][p] \in Seq(Answers[c])

\* A sequence over a set is a sequence over every larger set.
LEMMA SeqGrows ==
  ASSUME NEW A, NEW B, A \subseteq B
  PROVE  Seq(A) \subseteq Seq(B)
  OBVIOUS

\* The operations on a sequence over a set.
LEMMA SeqOps ==
  ASSUME NEW A, NEW s \in Seq(A)
  PROVE  /\ \A x \in A : Append(s, x) \in Seq(A)
         /\ s # <<>> => Head(s) \in A /\ Tail(s) \in Seq(A)
  OBVIOUS

\* An answer stays the answer of its call: ids do not change.
LEMMA AnswersKept ==
  ASSUME TypeOK, [Next]_vars
  PROVE  /\ \A c \in Calls : Answers[c] \subseteq Answers'[c]
         /\ \A c \in Calls : Seq(Answers[c]) \subseteq Seq(Answers'[c])
         /\ Completions \subseteq Completions'
         /\ Seq(Completions) \subseteq Seq(Completions')
<1>1. \A c \in Calls : Loaded(c) => Loaded(c)' /\ id'[c] = id[c]
  BY IdsKept
<1>2. \A x \in Items : x.origin = None \/ x.origin \in Calls
  BY DEF Items, Origins
<1>3. \A m \in Message : m.origin # None => m.origin \in Calls
  BY DEF Message, Origins
<1>4. \A c \in Calls : Answers[c] \subseteq Answers'[c]
  BY <1>1, <1>2 DEF Answers
<1>5. Completions \subseteq Completions'
  BY <1>1, <1>3 DEF Completions
<1> QED
  BY <1>4, <1>5, SeqGrows

\* The goroutine of receiveCompletionItem sends what answers the completion's call.
LEMMA SendsAnswers ==
  ASSUME NEW m, NEW A, \A k \in {"error", "value", "nil"} : Item(k, m.origin) \in A
  PROVE  Sends(m) \in Seq(A)
<1>1. ASSUME NEW x \in A, NEW y \in A
      PROVE  <<>> \in Seq(A) /\ <<x>> \in Seq(A) /\ <<x, y>> \in Seq(A)
  OBVIOUS
<1>2. \/ Sends(m) = <<Item("error", m.origin)>>
      \/ Sends(m) = <<Item("value", m.origin), Item("nil", m.origin)>>
      \/ Sends(m) = <<>>
  BY Zenon DEF Sends
<1> QED
  BY <1>1, <1>2, Zenon

\* Messages that stay where they are keep their ids.
LEMMA MessagesKept ==
  ASSUME TypeOK, [Next]_vars, MessagesInv, UNCHANGED <<writer, wire, incoming, completion>>
  PROVE  MessagesInv'
<1>1. \A m \in wire : m.call \in Calls
  BY Zenon DEF TypeOK, ConnTypes
<1>2. \A c \in Calls : Loaded(c) => Loaded(c)' /\ id'[c] = id[c]
  BY IdsKept
<1> QED
  BY <1>1, <1>2, AnswersKept DEF MessagesInv

\* Items that answer nobody can go to every call.
LEMMA NobodysAnswer ==
  ASSUME NEW c \in Calls
  PROVE  /\ NoItem \in Answers[c]
         /\ \A k \in {"value", "nil", "error", "ended", "client"} : Item(k, None) \in Answers[c]
<1>1. \A k \in {"value", "nil", "error", "ended", "client"} : Item(k, None) \in Items /\ Item(k, None).origin = None
  BY ItemType, Zenon DEF Origins, Item
<1> QED
  BY <1>1 DEF Answers, NoItem

\* The messages keep their ids at every step.
LEMMA MessagesStep ==
  ASSUME TypeOK, MessagesInv, [Next]_vars
  PROVE  MessagesInv'
<1> USE DEF TypeOK
<1>1. ASSUME NEW c \in Calls, writeMessage(c) PROVE MessagesInv'
  <2>1. \A d \in Calls : Loaded(d) => Loaded(d)' /\ id'[d] = id[d]
    BY IdsKept, Zenon
  <2>2. \A d \in Calls : writer'[d] # "none" => Loaded(d)
    BY <1>1, Zenon DEF writeMessage, MessagesInv, Loaded, ConnTypes
  <2>3. \A m \in wire : m.call \in Calls
    BY Zenon DEF ConnTypes
  <2>4. UNCHANGED <<wire, incoming, completion>>
    BY <1>1, Zenon DEF writeMessage, loopVars
  <2> QED
    BY <2>1, <2>2, <2>3, <2>4, AnswersKept, Zenon DEF MessagesInv
<1>2. ASSUME NEW c \in Calls, WriteOk(c) \/ WriteError(c) PROVE MessagesInv'
  <2>1. \A d \in Calls : Loaded(d) => Loaded(d)' /\ id'[d] = id[d]
    BY IdsKept, Zenon
  <2>2. Loaded(c) /\ \A d \in Calls : writer'[d] # "none" => Loaded(d)
    BY <1>2, Zenon DEF WriteOk, WriteError, MessagesInv, ConnTypes
  <2>3. \A m \in wire' : m.call \in Calls /\ Loaded(m.call) /\ m.id = id[m.call]
    <3>1. \A m \in wire : m.call \in Calls /\ Loaded(m.call) /\ m.id = id[m.call]
      BY Zenon DEF MessagesInv, ConnTypes
    <3>2. wire' = wire \/ wire' = wire \cup {[id |-> id[c], call |-> c]}
      BY <1>2, Zenon DEF WriteOk, WriteError
    <3>3. [id |-> id[c], call |-> c].id = id[c] /\ [id |-> id[c], call |-> c].call = c
      BY Zenon
    <3> QED
      BY <2>2, <3>1, <3>2, <3>3, Zenon
  <2>4. UNCHANGED <<incoming, completion>>
    BY <1>2, Zenon DEF WriteOk, WriteError, loopVars
  <2> QED
    BY <2>1, <2>2, <2>3, <2>4, AnswersKept, Zenon DEF MessagesInv
<1>3. CASE ReceiveCompletion
  <2>1. \A d \in Calls : Loaded(d) => Loaded(d)' /\ id'[d] = id[d]
    BY IdsKept, Zenon
  <2>2. Head(incoming) \in Completions /\ Tail(incoming) \in Seq(Completions)
    BY <1>3, SeqOps, Zenon DEF ReceiveCompletion, MessagesInv
  <2>3. completion' \in Completions /\ incoming' \in Seq(Completions) /\ UNCHANGED <<writer, wire>>
    BY <1>3, <2>2, Zenon DEF ReceiveCompletion
  <2>4. \A m \in wire : m.call \in Calls
    BY Zenon DEF ConnTypes
  <2> QED
    BY <2>1, <2>3, <2>4, AnswersKept, Zenon DEF MessagesInv
<1>4. CASE ServerAnswers
  <2>1. \A d \in Calls : Loaded(d) => Loaded(d)' /\ id'[d] = id[d]
    BY IdsKept, Zenon
  <2>2. PICK m \in wire, k \in Kinds : incoming' = Append(incoming, [id |-> m.id, kind |-> k, origin |-> m.call])
    BY <1>4, Zenon DEF ServerAnswers
  <2>3. [id |-> m.id, kind |-> k, origin |-> m.call] \in Completions
    BY Zenon DEF MessagesInv, Completions, Message, ConnTypes, Origins
  <2>4. incoming' \in Seq(Completions) /\ UNCHANGED <<writer, wire, completion>>
    <3>1. incoming \in Seq(Completions)
      BY Zenon DEF MessagesInv
    <3>2. Append(incoming, [id |-> m.id, kind |-> k, origin |-> m.call]) \in Seq(Completions)
      BY <2>3, <3>1, SeqOps, Zenon
    <3> QED
      BY <1>4, <2>2, <3>2, Zenon DEF ServerAnswers, loopVars
  <2>5. \A n \in wire : n.call \in Calls
    BY Zenon DEF ConnTypes
  <2> QED
    BY <2>1, <2>4, <2>5, AnswersKept, Zenon DEF MessagesInv
<1>5. ASSUME NEW c \in Calls, Call(c) PROVE MessagesInv'
  <2>1. writeMessage(c) \/ UNCHANGED <<writer, wire, incoming, completion>>
    BY <1>5, Zenon DEF Call, AddUint64, LoadUint64, newInvocation, SelectCanceled, SelectWritten, SendFailed,
       connVars, loopVars
  <2> QED
    BY <1>1, <2>1, MessagesKept, Zenon
<1>6. ASSUME NEW c \in Calls, Merge(c) \/ Forwarder(c) \/ Canceler(c) PROVE MessagesInv'
  <2>1. UNCHANGED <<writer, wire, incoming, completion>>
    BY <1>6, Zenon DEF Merge, Forwarder, Canceler, MergeResult, MergeErr, MergePush, MergeClosed, MergeCanceled,
       Forward, ForwardEnd, CancelerSend, CancelerClose, connVars, loopVars
  <2> QED
    BY <2>1, MessagesKept, Zenon
<1>7. CASE LoopStep \/ SenderSend
  <2>1. UNCHANGED <<writer, wire, incoming, completion>>
    BY <1>7, Zenon DEF LoopStep, SenderSend, LookupCompletion, CompletionSent, CompletionDone, LoopCanceled,
       cancelAllInvokes, Abort, connVars, loopVars
  <2> QED
    BY <2>1, MessagesKept, Zenon
<1>8. CASE Environment
  <2>1. ServerAnswers \/ UNCHANGED <<writer, wire, incoming, completion>>
    BY <1>8, Zenon DEF Environment, LoopFails, CompletionTimeout, ConnectionCanceled, PartyCanceled, connVars, loopVars
  <2> QED
    BY <1>4, <2>1, MessagesKept, Zenon
<1>9. CASE UNCHANGED vars
  BY <1>9, MessagesKept, Zenon DEF vars, connVars, loopVars
<1> QED
  BY <1>2, <1>3, <1>5, <1>6, <1>7, <1>8, <1>9, Zenon DEF Next, Write

\* An item that moves on stays an answer of its call.
LEMMA MovedAnswers ==
  ASSUME NEW L, NEW M, NEW A, \A p \in Places : L[p] \in Seq(A), Moved(L, M)
  PROVE  \A p \in Places : M[p] \in Seq(A)
<1>1. PICK p \in Places, q \in Places :
        /\ L[p] # <<>> /\ M[p] = Tail(L[p]) /\ M[q] = Append(L[q], Head(L[p]))
        /\ \A r \in Places \ {p, q} : M[r] = L[r]
  BY DEF Moved
<1>2. L[p] \in Seq(A) /\ L[q] \in Seq(A)
  OBVIOUS
<1>3. M[p] \in Seq(A) /\ M[q] \in Seq(A)
  BY <1>1, <1>2, SeqOps
<1> QED
  BY <1>1, <1>3, Zenon

\* What goes to a call answers it: receiveCompletionItem looks up the channels of
\* the completion's id.
LEMMA PipeInvStep ==
  ASSUME TypeOK, CloseInv, RaceInv, MessagesInv, PipeInv, [Next]_vars
  PROVE  PipeInv'
<1> SUFFICES ASSUME NEW c \in Calls PROVE \A p \in Places : Pipe'[c][p] \in Seq(Answers[c])
  BY AnswersKept DEF PipeInv
<1>1. \A p \in Places : Pipe[c][p] \in Seq(Answers[c])
  BY DEF PipeInv
<1>2. CASE \A p \in Places : Pipe'[c][p] = Pipe[c][p]
  BY <1>1, <1>2
<1>3. CASE Moved(Pipe[c], Pipe'[c])
  BY <1>1, <1>3, MovedAnswers
<1>4. CASE \A p \in Places : Pipe'[c][p] \in {<<>>, Pipe[c][p]}
  <2>1. <<>> \in Seq(Answers[c])
    OBVIOUS
  <2> QED
    BY <1>1, <1>4, <2>1, Zenon
<1>5. ASSUME NEW q \in Places, NEW x \in Answers[c], Added(Pipe[c], Pipe'[c], q, x)
      PROVE  \A p \in Places : Pipe'[c][p] \in Seq(Answers[c])
  <2>1. Append(Pipe[c][q], x) \in Seq(Answers[c])
    BY <1>1, SeqOps, Zenon
  <2> QED
    BY <1>1, <1>5, <2>1, Zenon DEF Added
<1>6. CASE SendFailed(c) /\ Added(Pipe[c], Pipe'[c], "out", Item("client", None))
  BY <1>5, <1>6, NobodysAnswer DEF Places
<1>7. CASE CancelerSend(c) /\ Added(Pipe[c], Pipe'[c], "err", Item("ended", None))
  BY <1>5, <1>7, NobodysAnswer DEF Places
<1>8. CASE /\ completion.id \in DOMAIN resultChans /\ c = resultChans[completion.id]
           /\ Pipe'[c]["todo"] = Sends(completion)
           /\ \A p \in Places \ {"todo"} : Pipe'[c][p] = Pipe[c][p]
  <2>1. id[c] = completion.id /\ Loaded(c)
    BY <1>8 DEF CloseInv, CloseOwnership, Unregistered, Loaded
  <2>2. /\ completion.origin \in Origins
        /\ completion.origin # None => Loaded(completion.origin) /\ completion.id = id[completion.origin]
    BY DEF MessagesInv, Completions, Message
  <2>3. ASSUME NEW k \in {"error", "value", "nil"}
        PROVE  Item(k, completion.origin) \in Answers[c]
    <3>1. Item(k, completion.origin) \in Items /\ Item(k, completion.origin).origin = completion.origin
      BY <2>2, ItemType, Zenon DEF Item
    <3> QED
      BY <2>1, <2>2, <3>1 DEF Answers
  <2>4. Sends(completion) \in Seq(Answers[c])
    BY <2>3, SendsAnswers
  <2> QED
    BY <1>1, <1>8, <2>4
<1> QED
  BY <1>2, <1>3, <1>4, <1>6, <1>7, <1>8, PipeStep

\* What the user of a call reads answers that call, or one that GetNewID gave the
\* same id (loop.go:191-195): however calls, completions and the end of the loop
\* interleave, an answer is never given to a call with another id.
THEOREM AnswersTheCall == Spec => []OwnAnswer
<1>1. Init => MessagesInv /\ PipeInv
  <2> SUFFICES ASSUME Init PROVE MessagesInv /\ PipeInv
    OBVIOUS
  <2>1. completion \in Completions
    BY DEF Init, Completions, Message, Kinds, Origins
  <2>2. MessagesInv
    BY <2>1 DEF Init, MessagesInv
  <2>3. \A c \in Calls, p \in Places : Pipe[c][p] = <<>>
    BY PipeEmpty
  <2>4. PipeInv
    <3>1. \A c \in Calls : <<>> \in Seq(Answers[c])
      OBVIOUS
    <3> QED
      BY <2>3, <3>1, Zenon DEF PipeInv
  <2> QED
    BY <2>2, <2>4
<1>2. /\ TypeOK /\ CloseInv /\ RaceInv /\ MessagesInv /\ PipeInv /\ [Next]_vars
      => MessagesInv' /\ PipeInv'
  BY MessagesStep, PipeInvStep
<1>3. TypeOK /\ PipeInv => OwnAnswer
  <2> SUFFICES ASSUME TypeOK, PipeInv, NEW c \in Calls, NEW n \in DOMAIN out[c]
               PROVE  out[c][n].origin \in {c, None} \/ \E d \in Calls \ {c} : id[d] = id[c]
    BY DEF OwnAnswer
  <2>1. out[c] \in Seq(Answers[c])
    BY Zenon DEF PipeInv, Pipe, Places
  <2>2. out[c][n] \in Answers[c]
    BY <2>1
  <2>3. out[c][n] \in Items /\ (out[c][n].origin = None \/ id[out[c][n].origin] = id[c])
    BY <2>2 DEF Answers
  <2> QED
    BY <2>3 DEF Items, Origins
<1> QED
  BY <1>1, <1>2, <1>3, TypeCorrect, CloseInvariant, RaceInvariant, PTL DEF Spec

-----------------------------------------------------------------------------
(* A call is answered once.                                                *)

\* Two items of a call are a value and the nil that follows it.
Pair(x, y) == \/ x.kind = "value" /\ y.kind = "nil"
              \/ x.kind = "nil" /\ y.kind = "value"
Paired(L) ==
  \A p, q \in Places : \A m \in DOMAIN L[p], n \in DOMAIN L[q] :
    (p = q /\ m = n) \/ Pair(L[p][m], L[q][n])

\* The calls that nothing is on its way to.
Unanswered == {c \in Calls : \A p \in Places : Pipe[c][p] = <<>>}

\* A registered call is one that nothing is on its way to, or the one the loop is
\* answering and about to take out, so it is answered once; and nothing has been
\* sent to a call that is told of the end of the loop.
OnceInv ==
  \A c \in Calls :
    /\ pc[c] \in Unregistered => c \in Unanswered
    /\ c \in Registered => pc[c] # "failed"
    /\ c \in Registered => \/ c \in Unanswered
                           \/ loop \in {"await", "delete"} /\ completion.id = id[c]
    /\ canceler[c] = "send" => c \in Unanswered \/ pc[c] = "failed"
    /\ pc[c] \notin {"sent", "failed"} => out[c] = <<>>
    /\ pc[c] = "failed" => Len(out[c]) = 1
    /\ pc[c] # "failed" => Paired(Pipe[c])

\* An item that moves on makes no second pair.
LEMMA MovedPaired ==
  ASSUME NEW L, NEW M, \A p \in Places : L[p] \in Seq(Items), Paired(L), Moved(L, M)
  PROVE  Paired(M)
<1>1. PICK p \in Places, q \in Places :
        /\ p # q /\ L[p] # <<>> /\ M[p] = Tail(L[p]) /\ M[q] = Append(L[q], Head(L[p]))
        /\ \A r \in Places \ {p, q} : M[r] = L[r]
  BY DEF Moved
<1> DEFINE From(r, n) == IF r = p \/ (r = q /\ n = Len(L[q]) + 1) THEN p ELSE r
           Nth(r, n) == IF r = p THEN n + 1 ELSE IF r = q /\ n = Len(L[q]) + 1 THEN 1 ELSE n
<1>2. L[p] \in Seq(Items) /\ L[q] \in Seq(Items)
  OBVIOUS
<1>3. ASSUME NEW n \in DOMAIN M[p]
      PROVE  n \in Nat \ {0} /\ n + 1 \in DOMAIN L[p] /\ M[p][n] = L[p][n + 1]
  BY <1>1, <1>2, <1>3
<1>4. ASSUME NEW n \in DOMAIN M[q]
      PROVE  \/ n = Len(L[q]) + 1 /\ 1 \in DOMAIN L[p] /\ M[q][n] = L[p][1]
             \/ n # Len(L[q]) + 1 /\ n \in DOMAIN L[q] /\ M[q][n] = L[q][n]
  BY <1>1, <1>2, <1>4
<1>5. ASSUME NEW r \in Places, NEW n \in DOMAIN M[r]
      PROVE  /\ n \in Nat /\ From(r, n) \in Places /\ Nth(r, n) \in DOMAIN L[From(r, n)]
             /\ M[r][n] = L[From(r, n)][Nth(r, n)]
  <2>1. CASE r = p
    BY <1>3, <1>5, <2>1
  <2>2. CASE r = q
    BY <1>1, <1>2, <1>4, <1>5, <2>2, SMTT(30)
  <2>3. CASE r # p /\ r # q
    BY <1>1, <1>5, <2>3
  <2> QED
    BY <2>1, <2>2, <2>3
<1>6. ASSUME NEW r \in Places, NEW n \in DOMAIN M[r], NEW s \in Places, NEW k \in DOMAIN M[s],
             From(r, n) = From(s, k), Nth(r, n) = Nth(s, k)
      PROVE  r = s /\ n = k
  <2>1. /\ n \in Nat /\ k \in Nat
        /\ r = p => n # 0
        /\ s = p => k # 0
    BY <1>3, <1>5, <1>6
  <2> QED
    BY <1>1, <1>6, <2>1
<1> HIDE DEF From, Nth
<1> QED
  BY <1>5, <1>6, SMTT(30) DEF Paired

\* deleteInvocation takes out who has the id, if anybody.
LEMMA DeleteRegistered ==
  ASSUME TypeOK, CloseInv, NEW i, deleteInvocation(i), NEW c \in Calls, c \in Registered'
  PROVE  c \in Registered /\ id[c] # i
<1>1. PICK j \in DOMAIN resultChans' : resultChans'[j] = c
  BY DEF Registered
<1>2. j \in DOMAIN resultChans /\ resultChans[j] = c /\ j # i
  <2>1. CASE i \in DOMAIN resultChans
    <3>1. resultChans' = [k \in DOMAIN resultChans \ {i} |-> resultChans[k]]
      BY <2>1, Zenon DEF deleteInvocation
    <3> QED
      BY <1>1, <3>1
  <2>2. CASE i \notin DOMAIN resultChans
    BY <1>1, <2>2 DEF deleteInvocation, chanVars
  <2> QED
    BY <2>1, <2>2
<1> QED
  BY <1>2 DEF Registered, CloseInv, CloseOwnership

\* Only newInvocation registers; who is answered by the completion in hand stays
\* so until it is taken out; only cancelAllInvokes tells the registered calls of
\* the end; a failed call is not registered.
LEMMA RegisteredStep ==
  ASSUME TypeOK, CloseInv, RaceInv, [Next]_vars, NEW c \in Calls
  PROVE  /\ c \in Registered' => c \in Registered \/ newInvocation(c)
         /\ c \in Registered' /\ loop \in {"await", "delete"} /\ completion.id = id[c]
              => loop' \in {"await", "delete"} /\ completion'.id = completion.id
         /\ canceler'[c] = "send" => canceler[c] = "send" \/ (cancelAllInvokes /\ c \in Registered)
         /\ SendFailed(c) => c \notin Registered'
         /\ pc'[c] = "failed" => pc[c] = "failed" \/ SendFailed(c)
         /\ out'[c] = out[c] \/ pc[c] = "sent" \/ SendFailed(c)
<1> DEFINE Reg == c \in Registered' => c \in Registered \/ newInvocation(c)
           Ans == c \in Registered' /\ loop \in {"await", "delete"} /\ completion.id = id[c]
                    => loop' \in {"await", "delete"} /\ completion'.id = completion.id
           Can == canceler'[c] = "send" => canceler[c] = "send" \/ (cancelAllInvokes /\ c \in Registered)
           Fai == /\ SendFailed(c) => c \notin Registered'
                  /\ pc'[c] = "failed" => pc[c] = "failed" \/ SendFailed(c)
           Out == out'[c] = out[c] \/ pc[c] = "sent" \/ SendFailed(c)
<1> SUFFICES Reg /\ Ans /\ Can /\ Fai /\ Out
  OBVIOUS
<1> USE DEF TypeOK
<1>0. ASSUME resultChans' = resultChans PROVE c \in Registered' => c \in Registered
  BY <1>0, Zenon DEF Registered
<1>1. ASSUME NEW d \in Calls, newInvocation(d) PROVE Reg /\ Ans /\ Can /\ Fai /\ Out
  <2>1. UNCHANGED <<loop, completion, canceler, out>> /\ ~SendFailed(c)
    BY <1>1, Zenon DEF newInvocation, loopVars, SendFailed, outVars, CallTypes
  <2>2. pc'[c] = "failed" => pc[c] = "failed"
    BY <1>1, Zenon DEF newInvocation, CallTypes
  <2>3. Reg
    BY <1>1, Zenon DEF newInvocation, Registered
  <2> QED
    BY <2>1, <2>2, <2>3, Zenon
<1>2. ASSUME NEW d \in Calls, AddUint64(d) \/ LoadUint64(d) \/ writeMessage(d) \/ SelectCanceled(d)
                              \/ SelectWritten(d)
      PROVE  Reg /\ Ans /\ Can /\ Fai /\ Out
  <2>1. UNCHANGED <<resultChans, loop, completion, canceler, out>>
    BY <1>2, Zenon DEF AddUint64, LoadUint64, writeMessage, SelectCanceled, SelectWritten, chanVars, outVars, loopVars
  <2>2. pc'[c] = "failed" => pc[c] = "failed"
    BY <1>2, Zenon DEF AddUint64, LoadUint64, writeMessage, SelectCanceled, SelectWritten, CallTypes
  <2>3. SendFailed(c) => pc[c] = "delete" /\ pc'[c] = "failed"
    BY Zenon DEF SendFailed, CallTypes
  <2> QED
    BY <1>0, <2>1, <2>2, <2>3, Zenon
<1>3. ASSUME NEW d \in Calls, SendFailed(d) PROVE Reg /\ Ans /\ Can /\ Fai /\ Out
  <2>1. UNCHANGED <<loop, completion, canceler>> /\ deleteInvocation(id[d])
    BY <1>3, Zenon DEF SendFailed, loopVars
  <2>2. c \in Registered' => c \in Registered /\ id[c] # id[d]
    BY <2>1, DeleteRegistered, Zenon
  <2>3. SendFailed(c) => c = d
    BY <1>3, Zenon DEF SendFailed, CallTypes
  <2>4. c # d => pc'[c] = pc[c] /\ out'[c] = out[c]
    <3>1. pc' = [pc EXCEPT ![d] = "failed"] /\ out' = [out EXCEPT ![d] = Append(out[d], Item("client", None))]
      BY <1>3, Zenon DEF SendFailed
    <3> QED
      BY <3>1, Zenon DEF CallTypes, OutTypes
  <2> QED
    BY <1>3, <2>1, <2>2, <2>3, <2>4, Zenon
<1>4. ASSUME NEW d \in Calls, Write(d) \/ Merge(d) \/ Forwarder(d) PROVE Reg /\ Ans /\ Can /\ Fai /\ Out
  <2>1. UNCHANGED <<resultChans, loop, completion, canceler, pc>>
    BY <1>4, Zenon DEF Write, Merge, Forwarder, WriteOk, WriteError, MergeResult, MergeErr, MergePush, MergeClosed,
       MergeCanceled, Forward, ForwardEnd, callVars, chanVars, loopVars
  <2>2. out'[c] = out[c] \/ pc[c] = "sent"
    BY <1>4, Zenon DEF Write, Merge, Forwarder, WriteOk, WriteError, MergeResult, MergeErr, MergePush, MergeClosed,
       MergeCanceled, Forward, ForwardEnd, outVars, OutTypes
  <2>3. ~SendFailed(c)
    BY <2>1, Zenon DEF SendFailed, CallTypes
  <2> QED
    BY <1>0, <2>1, <2>2, <2>3, Zenon
<1>5. ASSUME NEW d \in Calls, Canceler(d) PROVE Reg /\ Ans /\ Can /\ Fai /\ Out
  <2>1. UNCHANGED <<resultChans, loop, completion, pc, out>>
    BY <1>5, Zenon DEF Canceler, CancelerSend, CancelerClose, callVars, outVars
  <2>2. canceler'[c] = "send" => canceler[c] = "send"
    BY <1>5, Zenon DEF Canceler, CancelerSend, CancelerClose, LoopTypes
  <2>3. ~SendFailed(c)
    BY <2>1, Zenon DEF SendFailed, CallTypes
  <2> QED
    BY <1>0, <2>1, <2>2, <2>3, Zenon
<1>6. CASE CompletionDone
  <2>1. UNCHANGED <<completion, canceler, pc, out>> /\ deleteInvocation(completion.id)
    BY <1>6, Zenon DEF CompletionDone, callVars, outVars
  <2>2. c \in Registered' => c \in Registered /\ id[c] # completion.id
    BY <2>1, DeleteRegistered, Zenon
  <2>3. ~SendFailed(c)
    BY <2>1, Zenon DEF SendFailed, CallTypes
  <2> QED
    BY <2>1, <2>2, <2>3, Zenon
<1>7. CASE cancelAllInvokes
  <2>1. UNCHANGED <<completion, pc, out>> /\ loop = "ending" /\ DOMAIN resultChans' = {}
    BY <1>7, Zenon DEF cancelAllInvokes, callVars, outVars
  <2>2. c \notin Registered'
    BY <2>1, Zenon DEF Registered
  <2>3. canceler'[c] = "send" => canceler[c] = "send" \/ c \in Registered
    BY <1>7, Zenon DEF cancelAllInvokes
  <2>4. ~SendFailed(c)
    BY <2>1, Zenon DEF SendFailed, CallTypes
  <2> QED
    BY <1>7, <2>1, <2>2, <2>3, <2>4, Zenon
<1>8. CASE CompletionSent \/ CompletionTimeout \/ SenderSend \/ LookupCompletion \/ ReceiveCompletion \/ LoopFails
           \/ LoopCanceled \/ Abort
  <2>1. UNCHANGED <<resultChans, canceler, pc, out>>
    BY <1>8, Zenon DEF CompletionSent, CompletionTimeout, SenderSend, LookupCompletion, ReceiveCompletion, LoopFails,
       LoopCanceled, Abort, callVars, chanVars, outVars
  <2>2. loop \in {"await", "delete"} => loop' \in {"await", "delete"} /\ completion' = completion
    BY <1>8, Zenon DEF CompletionSent, CompletionTimeout, SenderSend, LookupCompletion, ReceiveCompletion, LoopFails,
       LoopCanceled, Abort
  <2>3. ~SendFailed(c)
    BY <2>1, Zenon DEF SendFailed, CallTypes
  <2> QED
    BY <1>0, <2>1, <2>2, <2>3, Zenon
<1>9. CASE ServerAnswers \/ ConnectionCanceled \/ PartyCanceled \/ UNCHANGED vars
  <2>1. UNCHANGED <<resultChans, canceler, pc, out, loop, completion>>
    BY <1>9, Zenon DEF ServerAnswers, ConnectionCanceled, PartyCanceled, vars, callVars, chanVars, outVars, loopVars
  <2>2. ~SendFailed(c)
    BY <2>1, Zenon DEF SendFailed, CallTypes
  <2> QED
    BY <1>0, <2>1, <2>2, Zenon
<1> HIDE DEF Reg, Ans, Can, Fai, Out
<1> QED
  BY <1>1, <1>2, <1>3, <1>4, <1>5, <1>6, <1>7, <1>8, <1>9, Zenon DEF Next, Call, LoopStep, Environment

\* What is sent to a call that nothing is on its way to makes one pair at most.
LEMMA FirstPaired ==
  ASSUME NEW M, NEW q \in Places, \A p \in Places \ {q} : M[p] = <<>>,
         \/ M[q] = <<>>
         \/ \E x \in Items : M[q] = <<x>>
         \/ \E x, y \in Items : M[q] = <<x, y>> /\ x.kind = "value" /\ y.kind = "nil"
  PROVE  Paired(M)
<1>1. ASSUME NEW p \in Places, NEW n \in DOMAIN M[p] PROVE p = q
  BY <1>1
<1>2. CASE M[q] = <<>>
  BY <1>1, <1>2 DEF Paired
<1>3. ASSUME NEW x \in Items, M[q] = <<x>> PROVE Paired(M)
  BY <1>1, <1>3 DEF Paired
<1>4. ASSUME NEW x \in Items, NEW y \in Items, M[q] = <<x, y>>, x.kind = "value", y.kind = "nil"
      PROVE  Paired(M)
  <2>1. DOMAIN M[q] = {1, 2} /\ M[q][1] = x /\ M[q][2] = y
    BY <1>4
  <2> QED
    BY <1>1, <1>4, <2>1 DEF Paired, Pair
<1> QED
  BY <1>2, <1>3, <1>4

\* Each part of OnceInv for one call: a completion is looked up only by a call that
\* is registered and unanswered, and looking it up is the last the loop does for it.
LEMMA OnceStep ==
  ASSUME TypeOK, CloseInv, RaceInv, OnceInv, [Next]_vars
  PROVE  OnceInv'
<1> SUFFICES ASSUME NEW c \in Calls
             PROVE  /\ pc'[c] \in Unregistered => c \in Unanswered'
                    /\ c \in Registered' => pc'[c] # "failed"
                    /\ c \in Registered' => \/ c \in Unanswered'
                                            \/ loop' \in {"await", "delete"} /\ completion'.id = id'[c]
                    /\ canceler'[c] = "send" => c \in Unanswered' \/ pc'[c] = "failed"
                    /\ pc'[c] \notin {"sent", "failed"} => out'[c] = <<>>
                    /\ pc'[c] = "failed" => Len(out'[c]) = 1
                    /\ pc'[c] # "failed" => Paired(Pipe'[c])
  BY DEF OnceInv
<1>1. /\ pc[c] \in Unregistered => c \in Unanswered
      /\ c \in Registered => pc[c] # "failed"
      /\ c \in Registered => c \in Unanswered \/ (loop \in {"await", "delete"} /\ completion.id = id[c])
      /\ canceler[c] = "send" => c \in Unanswered \/ pc[c] = "failed"
      /\ pc[c] \notin {"sent", "failed"} => out[c] = <<>>
      /\ pc[c] = "failed" => Len(out[c]) = 1
      /\ pc[c] # "failed" => Paired(Pipe[c])
  BY DEF OnceInv
<1>2. /\ pc[c] \notin Unregistered => pc'[c] \notin Unregistered /\ id'[c] = id[c]
      /\ pc[c] = "failed" => pc'[c] = "failed"
      /\ pc[c] = "sent" => pc'[c] = "sent"
  BY IdsKept DEF Loaded, Unregistered
<1>3. /\ c \in Registered => pc[c] \notin Unregistered /\ canceler[c] = "none"
      /\ canceler[c] # "none" => pc[c] \notin Unregistered
  BY DEF CloseInv, CloseOwnership, Registered
<1>4. c \in Registered' => c \in Registered \/ newInvocation(c)
  BY RegisteredStep
<1>5. c \in Registered' /\ loop \in {"await", "delete"} /\ completion.id = id[c]
        => loop' \in {"await", "delete"} /\ completion'.id = completion.id
  BY RegisteredStep
<1>6. canceler'[c] = "send" => canceler[c] = "send" \/ (cancelAllInvokes /\ c \in Registered)
  BY RegisteredStep
<1>7. /\ SendFailed(c) => c \notin Registered'
      /\ pc'[c] = "failed" => pc[c] = "failed" \/ SendFailed(c)
      /\ out'[c] = out[c] \/ pc[c] = "sent" \/ SendFailed(c)
  BY RegisteredStep
<1>8. SendFailed(c) => /\ pc[c] = "delete" /\ pc'[c] = "failed"
                       /\ out'[c] = Append(out[c], Item("client", None))
  BY Zenon DEF SendFailed, TypeOK, CallTypes, OutTypes
<1>9. newInvocation(c) => pc[c] = "register" /\ pc'[c] = "check"
  BY Zenon DEF newInvocation, TypeOK, CallTypes
<1>10. cancelAllInvokes => loop = "ending" /\ c \notin Registered' /\ pc' = pc
  BY Zenon DEF cancelAllInvokes, callVars, Registered
<1>11. /\ pc'[c] \notin {"sent", "failed"} => out'[c] = <<>>
       /\ pc'[c] = "failed" => Len(out'[c]) = 1
  <2>1. Len(<<Item("client", None)>>) = 1 /\ Append(<<>>, Item("client", None)) = <<Item("client", None)>>
    OBVIOUS
  <2>2. SendFailed(c) => Len(out'[c]) = 1
    BY <1>1, <1>8, <2>1, Zenon
  <2> QED
    BY <1>1, <1>2, <1>7, <1>8, <2>2
<1>12. c \in Registered' => pc'[c] # "failed"
  BY <1>1, <1>4, <1>7, <1>9
<1>13. c \in Registered' /\ c \notin Unanswered /\ ~newInvocation(c)
         => loop' \in {"await", "delete"} /\ completion'.id = id'[c]
  BY <1>1, <1>2, <1>3, <1>4, <1>5
<1>14. canceler'[c] = "send" => c \in Unanswered \/ pc'[c] = "failed"
  BY <1>1, <1>2, <1>6, <1>10
<1> DEFINE Goal == /\ pc'[c] \in Unregistered => c \in Unanswered'
                   /\ c \in Registered' => \/ c \in Unanswered'
                                           \/ loop' \in {"await", "delete"} /\ completion'.id = id'[c]
                   /\ canceler'[c] = "send" => c \in Unanswered' \/ pc'[c] = "failed"
                   /\ pc'[c] # "failed" => Paired(Pipe'[c])
<1>15. ASSUME \A p \in Places : Pipe'[c][p] = Pipe[c][p] PROVE Goal
  <2>1. c \in Unanswered <=> c \in Unanswered'
    BY <1>15 DEF Unanswered
  <2>2. Paired(Pipe[c]) => Paired(Pipe'[c])
    BY <1>15 DEF Paired
  <2>3. newInvocation(c) => c \in Unanswered
    BY <1>1, <1>9 DEF Unregistered
  <2> QED
    BY <1>1, <1>2, <1>13, <1>14, <2>1, <2>2, <2>3
<1>16. ASSUME Moved(Pipe[c], Pipe'[c]) PROVE Goal
  <2>1. c \notin Unanswered
    BY <1>16 DEF Unanswered, Moved
  <2>2. ~newInvocation(c)
    BY <1>1, <1>9, <2>1 DEF Unregistered
  <2>3. Paired(Pipe[c]) => Paired(Pipe'[c])
    BY <1>16, PipeType, MovedPaired
  <2> QED
    BY <1>1, <1>2, <1>13, <1>14, <2>1, <2>2, <2>3
<1>17. ASSUME newInvocation(c) /\ \A p \in Places : Pipe'[c][p] \in {<<>>, Pipe[c][p]} PROVE Goal
  <2>1. c \in Unanswered
    BY <1>1, <1>9, <1>17 DEF Unregistered
  <2>2. \A p \in Places : Pipe'[c][p] = <<>>
    BY <1>17, <2>1 DEF Unanswered
  <2>3. c \in Unanswered' /\ Paired(Pipe'[c])
    BY <2>2 DEF Unanswered, Paired
  <2> QED
    BY <2>3
<1>18. ASSUME SendFailed(c) PROVE Goal
  BY <1>7, <1>8, <1>18 DEF Unregistered
<1>19. ASSUME CancelerSend(c) /\ Added(Pipe[c], Pipe'[c], "err", Item("ended", None)) PROVE Goal
  <2>1. canceler[c] = "send" /\ canceler'[c] = "close" /\ pc' = pc /\ resultChans' = resultChans
    BY <1>19, Zenon DEF CancelerSend, callVars, TypeOK, LoopTypes
  <2>2. c \notin Registered'
    BY <1>3, <2>1 DEF Registered
  <2>3. ASSUME pc[c] # "failed" PROVE Paired(Pipe'[c])
    <3>1. \A p \in Places : Pipe[c][p] = <<>>
      BY <1>1, <2>1, <2>3 DEF Unanswered
    <3>2. \A p \in Places \ {"err"} : Pipe'[c][p] = <<>>
      BY <1>19, <3>1 DEF Added
    <3>3. Pipe'[c]["err"] = <<Item("ended", None)>>
      BY <1>19, <3>1, OneItem, Zenon DEF Added, Places
    <3>4. Item("ended", None) \in Items
      BY ItemType DEF Origins
    <3> QED
      BY <3>2, <3>3, <3>4, FirstPaired DEF Places
  <2> QED
    BY <1>3, <2>1, <2>2, <2>3
<1>20. ASSUME /\ LookupCompletion /\ completion.id \in DOMAIN resultChans
              /\ completion.kind \in {"error", "value"}
              /\ c = resultChans[completion.id] /\ Pipe'[c]["todo"] = Sends(completion)
              /\ \A p \in Places \ {"todo"} : Pipe'[c][p] = Pipe[c][p]
       PROVE  Goal
  <2>1. loop = "lookup" /\ loop' = "await" /\ UNCHANGED <<completion, pc, id, canceler>>
    BY <1>20 DEF LookupCompletion, callVars
  <2>2. c \in Registered /\ id[c] = completion.id
    BY <1>20 DEF Registered, CloseInv, CloseOwnership
  <2>3. \A p \in Places : Pipe[c][p] = <<>>
    BY <1>1, <2>1, <2>2 DEF Unanswered
  <2>4. \/ Pipe'[c]["todo"] = <<Item("error", completion.origin)>>
        \/ Pipe'[c]["todo"] = <<Item("value", completion.origin), Item("nil", completion.origin)>>
        \/ Pipe'[c]["todo"] = <<>>
    BY <1>20, Zenon DEF Sends
  <2>5. /\ \A k \in {"error", "value", "nil"} : Item(k, completion.origin) \in Items
        /\ Item("value", completion.origin).kind = "value" /\ Item("nil", completion.origin).kind = "nil"
    BY ItemType, Zenon DEF TypeOK, LoopTypes, Message, Item
  <2>6. Paired(Pipe'[c])
    <3>1. \A p \in Places \ {"todo"} : Pipe'[c][p] = <<>>
      BY <1>20, <2>3
    <3> QED
      BY <2>4, <2>5, <3>1, FirstPaired DEF Places
  <2> QED
    BY <1>3, <2>1, <2>2, <2>6
<1> HIDE DEF Goal
<1>21. Goal
  BY <1>15, <1>16, <1>17, <1>18, <1>19, <1>20, PipeStep, ZenonT(30)
<1> QED
  BY <1>11, <1>12, <1>21 DEF Goal

\* A call is answered once (invokeclient.go:31-117): its user reads one error, or a
\* value and the nil that follows it, however often the server answers and however
\* the completion, the failing of the call and the end of the loop interleave.
THEOREM NoSecondAnswer == Spec => []AnsweredOnce
<1>1. Init => OnceInv
  <2> SUFFICES ASSUME Init PROVE OnceInv
    OBVIOUS
  <2>1. \A c \in Calls, p \in Places : Pipe[c][p] = <<>>
    BY PipeEmpty
  <2>2. ASSUME NEW c \in Calls PROVE c \in Unanswered /\ Paired(Pipe[c])
    <3>1. c \in Unanswered
      BY <2>1, Zenon DEF Unanswered
    <3>2. \A p \in Places : DOMAIN Pipe[c][p] = {}
      BY <2>1
    <3>3. Paired(Pipe[c])
      BY <3>2, Zenon DEF Paired
    <3>4. QED
      BY <3>1, <3>3
  <2> QED
    BY <2>2 DEF Init, OnceInv
<1>2. TypeOK /\ CloseInv /\ RaceInv /\ OnceInv /\ [Next]_vars => OnceInv'
  BY OnceStep
<1>3. TypeOK /\ OnceInv => AnsweredOnce
  <2> SUFFICES ASSUME TypeOK, OnceInv, NEW c \in Calls
               PROVE  LET kinds == [n \in DOMAIN out[c] |-> out[c][n].kind]
                      IN \/ Len(kinds) <= 1
                         \/ kinds \in {<<"value", "nil">>, <<"nil", "value">>}
    BY DEF AnsweredOnce
  <2> DEFINE kinds == [n \in DOMAIN out[c] |-> out[c][n].kind]
  <2> SUFFICES Len(kinds) <= 1 \/ kinds \in {<<"value", "nil">>, <<"nil", "value">>}
    OBVIOUS
  <2>1. out[c] \in Seq(Items)
    BY Zenon DEF TypeOK, OutTypes
  <2>2. kinds \in Seq({"value", "nil", "error", "ended", "client"}) /\ Len(kinds) = Len(out[c])
    <3>1. \A x \in Items : x.kind \in {"value", "nil", "error", "ended", "client"}
      BY DEF Items
    <3>2. /\ Len(out[c]) \in Nat /\ DOMAIN out[c] = 1 .. Len(out[c])
          /\ \A n \in 1 .. Len(out[c]) : out[c][n] \in Items
      BY <2>1
    <3>3. kinds = [n \in 1 .. Len(out[c]) |-> out[c][n].kind]
      BY <3>2
    <3> HIDE DEF kinds
    <3> QED
      BY <3>1, <3>2, <3>3
  <2>3. CASE pc[c] = "failed"
    BY <2>2, <2>3 DEF OnceInv
  <2>4. CASE pc[c] # "failed"
    <3>1. \A m, n \in DOMAIN out[c] : m = n \/ Pair(out[c][m], out[c][n])
      <4>1. Paired(Pipe[c]) /\ Pipe[c]["out"] = out[c] /\ "out" \in Places
        BY <2>4, Zenon DEF OnceInv, Pipe, Places
      <4> QED
        BY <4>1 DEF Paired
    <3>2. \A m, n \in 1 .. Len(kinds) : \/ m = n
                                        \/ kinds[m] = "value" /\ kinds[n] = "nil"
                                        \/ kinds[m] = "nil" /\ kinds[n] = "value"
      BY <2>1, <2>2, <3>1 DEF Pair
    <3> HIDE DEF kinds
    <3>3. Len(kinds) \in Nat
      BY <2>2
    <3>4. ASSUME Len(kinds) > 2 PROVE FALSE
      <4>1. 1 \in 1 .. Len(kinds) /\ 2 \in 1 .. Len(kinds) /\ 3 \in 1 .. Len(kinds)
        BY <3>3, <3>4
      <4> QED
        BY <3>2, <4>1
    <3>5. CASE Len(kinds) = 2
      <4>1. kinds = <<kinds[1], kinds[2]>>
        BY <2>2, <3>5
      <4>2. \/ kinds[1] = "value" /\ kinds[2] = "nil"
            \/ kinds[1] = "nil" /\ kinds[2] = "value"
        BY <3>2, <3>5
      <4> QED
        BY <4>1, <4>2
    <3>6. Len(kinds) <= 1 \/ Len(kinds) = 2
      BY <3>3, <3>4
    <3> QED
      BY <3>5, <3>6, Zenon
  <2> QED
    BY <2>3, <2>4
<1> QED
  BY <1>1, <1>2, <1>3, TypeCorrect, CloseInvariant, RaceInvariant, PTL DEF Spec
=============================================================================
