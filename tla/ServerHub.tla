------------------------------ MODULE ServerHub ------------------------------
(***************************************************************************)
(* One server: which hub instance serves which call of a connection        *)
(* (invocationTarget and, with a PerConnectionHubFactory, the              *)
(* connectionHubs map), the goroutines that call the hub's OnConnected and *)
(* OnDisconnected, and what a panic in them does to the whole server       *)
(* (recoverHubLifeCyclePanic).                                             *)
(*                                                                         *)
(* Three actors look for the hub of a connection: the goroutine started by *)
(* onConnected, the loop for every invocation, and the goroutine started   *)
(* by onDisconnected.  The map is locked for the lookup and for the store, *)
(* not in between.  The lifetime manager is the subject of HubLifetime.    *)
(***************************************************************************)
EXTENDS Naturals, FiniteSets

CONSTANTS Conns,           \* connections served, by ConnectionID
          MaxInvocations   \* bound on the invocations received per connection

ASSUME InvocationsBound == MaxInvocations \in Nat

VARIABLES
  perConnection,     \* a PerConnectionHubFactory is configured
  loop,              \* per connection: control state of Serve and loop.Run
  err,               \* per connection: why the loop ended
  closeMsg,          \* per connection: allowReconnect of the Close message sent
  pc,                \* per actor and connection: control state of its lookup
  local,             \* per actor and connection: the hub it found or made
  connectionHubs,    \* per connection: number of the stored hub, 0 for none
  created,           \* per connection: calls of perConnectionHubFactory
  used,              \* history: per connection, the hubs methods were called on
  invocations,       \* per connection: invocations received
  reconnectAllowed,  \* server.reconnectAllowed
  serverDone         \* "no", or who canceled the server's context first

Lifecycle == {"OnConnected", "OnDisconnected"}
Actors == Lifecycle \cup {"Invoke"}

hubVars == <<connectionHubs, created>>
serverVars == <<reconnectAllowed, serverDone>>
vars == <<perConnection, loop, err, closeMsg, pc, local, hubVars, used, invocations, serverVars>>

Init ==
  /\ perConnection \in BOOLEAN
  /\ loop = [c \in Conns |-> "new"]
  /\ err = [c \in Conns |-> "none"]
  /\ closeMsg = [c \in Conns |-> "none"]
  /\ pc = [t \in Actors |-> [c \in Conns |-> "off"]]
  /\ local = [t \in Actors |-> [c \in Conns |-> 0]]
  /\ connectionHubs = [c \in Conns |-> 0]
  /\ created = [c \in Conns |-> 0]
  /\ used = [c \in Conns |-> {}]
  /\ invocations = [c \in Conns |-> 0]
  /\ reconnectAllowed = TRUE
  /\ serverDone = "no"

-----------------------------------------------------------------------------
(* The connection's loop *)

\* Serve after the handshake, and onConnected at the start of Run: the
\* goroutine that will call hub.OnConnected is started.
onConnected(c) ==
  /\ loop[c] = "new"
  /\ loop' = [loop EXCEPT ![c] = "receive"]
  /\ pc' = [pc EXCEPT !["OnConnected"][c] = "lookup"]
  /\ UNCHANGED <<perConnection, err, closeMsg, local, hubVars, used, invocations, serverVars>>

\* handleInvocationMessage asks for the target before it does anything else.
handleInvocationMessage(c) ==
  /\ loop[c] = "receive"
  /\ invocations[c] < MaxInvocations
  /\ invocations' = [invocations EXCEPT ![c] = @ + 1]
  /\ loop' = [loop EXCEPT ![c] = "dispatch"]
  /\ pc' = [pc EXCEPT !["Invoke"][c] = "lookup"]
  /\ UNCHANGED <<perConnection, err, closeMsg, local, hubVars, used, serverVars>>

\* The method is started on the hub that was found; the loop goes on.
CallMethod(c) ==
  /\ pc["Invoke"][c] = "call"
  /\ used' = [used EXCEPT ![c] = @ \cup ({local["Invoke"][c]} \ {0})]
  /\ local' = [local EXCEPT !["Invoke"][c] = 0]
  /\ pc' = [pc EXCEPT !["Invoke"][c] = "off"]
  /\ loop' = [loop EXCEPT ![c] = "receive"]
  /\ UNCHANGED <<perConnection, err, closeMsg, hubVars, invocations, serverVars>>

\* The loop ends: a close message without error, an error of the connection
\* or a timeout, or the server's context.
LoopEnds(c, why) ==
  /\ loop[c] = "receive"
  /\ why = "server" => serverDone # "no"
  /\ err' = [err EXCEPT ![c] = why]
  /\ loop' = [loop EXCEPT ![c] = "disconnect"]
  /\ UNCHANGED <<perConnection, closeMsg, pc, local, hubVars, used, invocations, serverVars>>

\* onDisconnected: the goroutine for hub.OnDisconnected is started first ...
onDisconnected(c) ==
  /\ loop[c] = "disconnect"
  /\ pc' = [pc EXCEPT !["OnDisconnected"][c] = "lookup"]
  /\ loop' = [loop EXCEPT ![c] = "remove"]
  /\ UNCHANGED <<perConnection, err, closeMsg, local, hubVars, used, invocations, serverVars>>

\* Mutation: the stored hub is not removed.
removeConnectionHub_Keeps(c) ==
  /\ loop[c] = "remove"
  /\ loop' = [loop EXCEPT ![c] = "close"]
  /\ UNCHANGED <<perConnection, err, closeMsg, pc, local, hubVars, used, invocations, serverVars>>

\* ... and the stored hub is removed after the lifetime manager was told.
removeConnectionHub(c) ==
  /\ loop[c] = "remove"
  /\ connectionHubs' = [connectionHubs EXCEPT ![c] = 0]
  /\ loop' = [loop EXCEPT ![c] = "close"]
  /\ UNCHANGED <<perConnection, err, closeMsg, pc, local, created, used, invocations, serverVars>>

\* The end of Run: an error is followed by a Close message.
CloseConnection(c) ==
  /\ loop[c] = "close"
  /\ closeMsg' = IF err[c] = "close" THEN closeMsg
                 ELSE [closeMsg EXCEPT ![c] = IF reconnectAllowed THEN "allow" ELSE "deny"]
  /\ loop' = [loop EXCEPT ![c] = "ended"]
  /\ UNCHANGED <<perConnection, err, pc, local, hubVars, used, invocations, serverVars>>

-----------------------------------------------------------------------------
(* invocationTarget, in the goroutine of actor t *)

\* Without PerConnectionHubFactory every call gets a hub of its own.
newHub(t, c) ==
  /\ ~perConnection
  /\ pc[t][c] = "lookup"
  /\ pc' = [pc EXCEPT ![t][c] = "call"]
  /\ UNCHANGED <<perConnection, loop, err, closeMsg, local, hubVars, used, invocations, serverVars>>

\* getConnectionHub under the read lock; without a hub, the factory makes one.
getConnectionHub(t, c) ==
  /\ perConnection
  /\ pc[t][c] = "lookup"
  /\ IF connectionHubs[c] # 0
     THEN /\ local' = [local EXCEPT ![t][c] = connectionHubs[c]]
          /\ pc' = [pc EXCEPT ![t][c] = "call"]
          /\ UNCHANGED created
     ELSE /\ created' = [created EXCEPT ![c] = @ + 1]
          /\ local' = [local EXCEPT ![t][c] = created[c] + 1]
          /\ pc' = [pc EXCEPT ![t][c] = "store"]
  /\ UNCHANGED <<perConnection, loop, err, closeMsg, connectionHubs, used, invocations, serverVars>>

\* setConnectionHub under the lock, whatever is stored by now.
setConnectionHub(t, c) ==
  /\ pc[t][c] = "store"
  /\ connectionHubs' = [connectionHubs EXCEPT ![c] = local[t][c]]
  /\ pc' = [pc EXCEPT ![t][c] = "call"]
  /\ UNCHANGED <<perConnection, loop, err, closeMsg, local, created, used, invocations, serverVars>>

-----------------------------------------------------------------------------
(* hub.OnConnected and hub.OnDisconnected *)

LifecycleReturns(t, c) ==
  /\ t \in Lifecycle
  /\ pc[t][c] = "call"
  /\ local' = [local EXCEPT ![t][c] = 0]
  /\ pc' = [pc EXCEPT ![t][c] = "done"]
  /\ UNCHANGED <<perConnection, loop, err, closeMsg, hubVars, used, invocations, serverVars>>

\* The hub panics: recoverHubLifeCyclePanic first withdraws reconnectAllowed ...
recoverHubLifeCyclePanic(t, c) ==
  /\ t \in Lifecycle
  /\ pc[t][c] = "call"
  /\ local' = [local EXCEPT ![t][c] = 0]
  /\ reconnectAllowed' = FALSE
  /\ pc' = [pc EXCEPT ![t][c] = "cancel"]
  /\ UNCHANGED <<perConnection, loop, err, closeMsg, hubVars, used, invocations, serverDone>>

\* Mutation: the context of the server is not canceled.
CancelServer_Forgets(t, c) ==
  /\ pc[t][c] = "cancel"
  /\ pc' = [pc EXCEPT ![t][c] = "panicked"]
  /\ UNCHANGED <<perConnection, loop, err, closeMsg, local, hubVars, used, invocations, serverVars>>

\* ... and then cancels the context of the server.
CancelServer(t, c) ==
  /\ pc[t][c] = "cancel"
  /\ serverDone' = IF serverDone = "no" THEN "panic" ELSE serverDone
  /\ pc' = [pc EXCEPT ![t][c] = "panicked"]
  /\ UNCHANGED <<perConnection, loop, err, closeMsg, local, hubVars, used, invocations,
                 reconnectAllowed>>

\* The context passed to NewServer is canceled by its owner.
OwnerCancels ==
  /\ serverDone = "no"
  /\ serverDone' = "owner"
  /\ UNCHANGED <<perConnection, loop, err, closeMsg, pc, local, hubVars, used, invocations,
                 reconnectAllowed>>

-----------------------------------------------------------------------------

LoopStep(c) ==
  \/ onConnected(c)
  \/ CallMethod(c)
  \/ LoopEnds(c, "server")
  \/ onDisconnected(c)
  \/ removeConnectionHub(c)
  \/ CloseConnection(c)

LookupStep(t, c) ==
  \/ newHub(t, c)
  \/ getConnectionHub(t, c)
  \/ setConnectionHub(t, c)
  \/ LifecycleReturns(t, c)
  \/ recoverHubLifeCyclePanic(t, c)
  \/ CancelServer(t, c)

Next ==
  \/ \E c \in Conns :
       \/ LoopStep(c)
       \/ handleInvocationMessage(c)
       \/ LoopEnds(c, "close")
       \/ LoopEnds(c, "error")
       \/ \E t \in Actors : LookupStep(t, c)
  \/ OwnerCancels

Spec == Init /\ [][Next]_vars

\* The goroutines run and, once the server's context is done, the select of
\* the loop takes that case after finitely many other messages (their number
\* is bounded here).  Nothing obliges a peer or the owner to end anything.
FairSpec ==
  /\ Spec
  /\ \A c \in Conns :
       /\ WF_vars(LoopStep(c))
       /\ \A t \in Actors : WF_vars(LookupStep(t, c))

-----------------------------------------------------------------------------
(* Properties *)

\* Every variable has its type; an actor that stores or calls has a hub, and
\* the stored hub is one the factory made for this connection.
TypeOK ==
  /\ perConnection \in BOOLEAN
  /\ loop \in [Conns -> {"new", "receive", "dispatch", "disconnect", "remove",
                         "close", "ended"}]
  /\ err \in [Conns -> {"none", "close", "error", "server"}]
  /\ closeMsg \in [Conns -> {"none", "allow", "deny"}]
  /\ pc \in [Actors -> [Conns -> {"off", "lookup", "store", "call", "done", "cancel",
                                  "panicked"}]]
  /\ local \in [Actors -> [Conns -> Nat]]
  /\ connectionHubs \in [Conns -> Nat]
  /\ created \in [Conns -> Nat]
  /\ \A c \in Conns :
       /\ connectionHubs[c] <= created[c]
       /\ \A t \in Actors :
            /\ local[t][c] <= created[c]
            /\ pc[t][c] \in {"store", "call"} /\ perConnection => local[t][c] # 0
  /\ used \in [Conns -> SUBSET (Nat \ {0})]
  /\ invocations \in [Conns -> 0 .. MaxInvocations]
  /\ reconnectAllowed \in BOOLEAN
  /\ serverDone \in {"no", "owner", "panic"}

\* onDisconnected takes the hub of the connection out of the map for good: a
\* hub that is found there after removeConnectionHub (server.go:160-169) was
\* stored later, by OnConnected's or OnDisconnected's goroutine, and none of
\* the connection's methods was ever called on it.
LeftoverServedNoMethod ==
  \A c \in Conns :
    loop[c] \in {"close", "ended"} /\ connectionHubs[c] # 0
      => connectionHubs[c] \notin used[c]

\* A panic in OnConnected or OnDisconnected ends every loop of the server
\* ("close connection, allow no reconnect", server.go:202), and a loop it has ended
\* tells its peer not to reconnect: reconnectAllowed is withdrawn before the
\* context is canceled (server.go:198-206, read in loop.go:142).
PanicEndsLoops ==
  /\ \A t \in Lifecycle, c \in Conns :
       pc[t][c] = "cancel" ~> \A d \in Conns : loop[d] = "ended"
  /\ [](serverDone = "panic" => \A c \in Conns : err[c] = "server" => closeMsg[c] # "allow")

\* serveroptions.go:101-103: "created once when the connection is established
\* and reused for all method invocations on that connection".
OneHubPerConnection ==
  \A c \in Conns : Cardinality(used[c]) <= 1

\* PER_CONNECTION_HUB_EXAMPLE.md:90: "When the connection closes, the hub
\* instance is automatically removed from the map".
HubRemoved ==
  \A c \in Conns :
    loop[c] = "ended" /\ (\A t \in Actors : pc[t][c] \notin {"lookup", "store"})
      => connectionHubs[c] = 0
=============================================================================
