------------------------------ MODULE MCClient ------------------------------
(***************************************************************************)
(* The two parts of a Go client, its invocations (InvokeClient) and its    *)
(* life (ClientState).  Their models share no variable, so a behaviour of  *)
(* both is a behaviour of each and it is enough to let one part run while  *)
(* the other has not begun.                                                *)
(***************************************************************************)
EXTENDS InvokeClient, ClientLife

VARIABLE part  \* the part that runs

BothInit == Init /\ S!Init /\ part \in {"invocations", "state"}

BothNext ==
  \/ part = "invocations" /\ Next /\ UNCHANGED <<stateVars, part>>
  \/ part = "state" /\ S!Next /\ UNCHANGED <<vars, part>>

BothSpec == BothInit /\ [][BothNext]_<<vars, stateVars, part>>

\* The fairness of both modules, for the part that runs.
FairBoth ==
  /\ BothSpec
  /\ LET on == part = "invocations" IN
     /\ \A c \in Calls : /\ WF_vars(on /\ Call(c)) /\ WF_vars(on /\ Merge(c))
                         /\ WF_vars(on /\ Forwarder(c)) /\ WF_vars(on /\ Canceler(c))
     /\ WF_vars(on /\ LoopStep) /\ WF_vars(on /\ SenderSend)
  /\ LET on == part = "state" IN
     /\ \A o \in S!Observers : WF_stateVars(on /\ S!Observer(o))
     /\ \A r \in S!Runs : WF_stateVars(on /\ S!Watch(r)) /\ WF_stateVars(on /\ S!SetConnected(r))
     /\ \A w \in Waiters : WF_stateVars(on /\ S!Wait(w))
     /\ WF_stateVars(on /\ S!Main) /\ WF_stateVars(on /\ S!StopWaited)
=============================================================================
