----------------------------- MODULE ITransport -----------------------------
(***************************************************************************)
(* What HttpConnection relies on when it uses a transport: the contract    *)
(* behind the ITransport interface of the JavaScript client (signalr.js).  *)
(* HttpConnection calls connect once and, while the transport is its own,  *)
(* stop at most once; the transport calls onreceive and onclose.           *)
(*                                                                         *)
(* A rejected transport may still come to life: an EventSource reconnects  *)
(* by itself and a failed connect does not close it.                       *)
(***************************************************************************)
EXTENDS Naturals

VARIABLES
  result,    \* the promise returned by connect
  revived,   \* the transport works although connect was rejected
  received,  \* number of calls of onreceive
  closes,    \* number of calls of onclose
  stopped    \* stop was called

vars == <<result, revived, received, closes, stopped>>

\* The transport may call HttpConnection back.
Live == closes = 0 /\ (result = "resolved" \/ revived)

Init ==
  /\ result = "none"
  /\ revived = FALSE
  /\ received = 0
  /\ closes = 0
  /\ stopped = FALSE

Connect ==
  /\ result = "none"
  /\ result' = "pending"
  /\ UNCHANGED <<revived, received, closes, stopped>>

\* A first poll answered by anything but 200 is an end and still a success.
Resolve ==
  /\ result = "pending"
  /\ result' = "resolved"
  /\ closes' \in {0, 1}
  /\ UNCHANGED <<revived, received, stopped>>

Reject ==
  /\ result = "pending"
  /\ result' = "rejected"
  /\ UNCHANGED <<revived, received, closes, stopped>>

Revive ==
  /\ result = "rejected" /\ ~revived
  /\ revived' = TRUE
  /\ UNCHANGED <<result, received, closes, stopped>>

\* A handler that throws makes the transport close.
Receive ==
  /\ Live
  /\ received' = received + 1
  /\ closes' \in {0, 1}
  /\ UNCHANGED <<result, revived, stopped>>

Close ==
  /\ Live
  /\ closes' = 1
  /\ UNCHANGED <<result, revived, received, stopped>>

\* HttpConnection forgets the transport when onclose is called.
Stop ==
  /\ Live /\ ~stopped /\ result = "resolved"
  /\ stopped' = TRUE
  /\ closes' \in {0, 1}
  /\ UNCHANGED <<result, revived, received>>

Next == Connect \/ Resolve \/ Reject \/ Revive \/ Receive \/ Close \/ Stop

Safe == Init /\ [][Next]_vars

\* connect settles, and stop raises onclose.
Spec == Safe /\ WF_vars(Resolve \/ Reject) /\ WF_vars(stopped /\ Close)
=============================================================================
