----------------------------- MODULE HubLifetime -----------------------------
(***************************************************************************)
(* The default lifetime manager: the clients map, the groups and the sends *)
(* to all clients, one client or a group (hublifetimemanager.go), as the   *)
(* loops of several connections and any number of hub methods use it at    *)
(* the same time.                                                          *)
(*                                                                         *)
(* clients and groups are sync.Maps: each Load, Store, LoadOrStore and     *)
(* Delete is atomic, Range is not.  A key that is in the map during the    *)
(* whole Range is visited once; one that is stored or deleted meanwhile is *)
(* visited once or not at all.  The members of a group have a lock of      *)
(* their own, and groups are never deleted.  Every send is a goroutine.    *)
(***************************************************************************)
EXTENDS FiniteSets

CONSTANTS Conns,   \* connections, by ConnectionID
          Groups,  \* names of groups
          Calls    \* calls of the lifetime manager by hub methods or the server

VARIABLES
  conn,      \* per connection: "new", "on", then in OnDisconnected "deleted",
             \* "ranging", and "off"
  aborted,   \* connections whose context is done, writes to them fail
  clients,   \* connections in the clients map
  groups,    \* names in the groups map
  members,   \* per group: its members
  must,      \* per connection: the groups its OnDisconnected has to visit
  visited,   \* per connection: the groups its OnDisconnected has visited
  pc,        \* per call: control state
  adding,    \* per call: the group and connection an AddToGroup has loaded
  targets,   \* per call: the clients an InvokeAll has to visit
  sent,      \* per call: the connections a send was started to
  pending,   \* per call: the sends that are not over
  received,  \* per call: the connections that were written to
  late       \* history: members added after their OnDisconnected had begun

connVars == <<conn, aborted, clients, must, visited>>
groupVars == <<groups, members, late>>
sendVars == <<targets, sent, pending, received>>
vars == <<connVars, groupVars, pc, adding, sendVars>>

Init ==
  /\ conn = [c \in Conns |-> "new"]
  /\ aborted = {}
  /\ clients = {}
  /\ groups = {}
  /\ members = [g \in Groups |-> {}]
  /\ must = [c \in Conns |-> {}]
  /\ visited = [c \in Conns |-> {}]
  /\ pc = [o \in Calls |-> "idle"]
  /\ adding = [o \in Calls |-> {}]
  /\ targets = [o \in Calls |-> {}]
  /\ sent = [o \in Calls |-> {}]
  /\ pending = [o \in Calls |-> {}]
  /\ received = [o \in Calls |-> {}]
  /\ late = {}

-----------------------------------------------------------------------------
(* Connections come and go *)

OnConnected(c) ==
  /\ conn[c] = "new"
  /\ conn' = [conn EXCEPT ![c] = "on"]
  /\ clients' = clients \cup {c}
  /\ UNCHANGED <<aborted, must, visited, groupVars, pc, adding, sendVars>>

\* The connection fails, or Run aborts it at its end.
Abort(c) ==
  /\ conn[c] # "new"
  /\ c \notin aborted
  /\ aborted' = aborted \cup {c}
  /\ UNCHANGED <<conn, clients, must, visited, groupVars, pc, adding, sendVars>>

\* OnDisconnected: first the client is deleted ...
OnDisconnected(c) ==
  /\ conn[c] = "on"
  /\ conn' = [conn EXCEPT ![c] = "deleted"]
  /\ clients' = clients \ {c}
  /\ UNCHANGED <<aborted, must, visited, groupVars, pc, adding, sendVars>>

\* ... then it ranges over the groups ...
RangeGroups(c) ==
  /\ conn[c] = "deleted"
  /\ conn' = [conn EXCEPT ![c] = "ranging"]
  /\ must' = [must EXCEPT ![c] = groups]
  /\ UNCHANGED <<aborted, clients, visited, groupVars, pc, adding, sendVars>>

\* Mutation: a group is visited and the connection stays in it.
VisitGroup_Keeps(c, g) ==
  /\ conn[c] = "ranging"
  /\ g \in groups \ visited[c]
  /\ visited' = [visited EXCEPT ![c] = @ \cup {g}]
  /\ UNCHANGED <<conn, aborted, clients, must, groupVars, pc, adding, sendVars>>

\* ... and removes the connection from each of them.
VisitGroup(c, g) ==
  /\ conn[c] = "ranging"
  /\ g \in groups \ visited[c]
  /\ visited' = [visited EXCEPT ![c] = @ \cup {g}]
  /\ members' = [members EXCEPT ![g] = @ \ {c}]
  /\ UNCHANGED <<conn, aborted, clients, must, groups, late, pc, adding, sendVars>>

DisconnectedDone(c) ==
  /\ conn[c] = "ranging"
  /\ must[c] \subseteq visited[c]
  /\ conn' = [conn EXCEPT ![c] = "off"]
  /\ UNCHANGED <<aborted, clients, must, visited, groupVars, pc, adding, sendVars>>

-----------------------------------------------------------------------------
(* Groups *)

\* AddToGroup loads the client ...
AddToGroup(o, g, c) ==
  /\ pc[o] = "idle"
  /\ IF c \in clients
     THEN /\ pc' = [pc EXCEPT ![o] = "add"]
          /\ adding' = [adding EXCEPT ![o] = {<<g, c>>}]
     ELSE /\ pc' = [pc EXCEPT ![o] = "done"]
          /\ UNCHANGED adding
  /\ UNCHANGED <<connVars, groupVars, sendVars>>

\* ... makes sure that there is a group and puts the client in.
AddMember(o, g, c) ==
  /\ pc[o] = "add"
  /\ <<g, c>> \in adding[o]
  /\ groups' = groups \cup {g}
  /\ members' = [members EXCEPT ![g] = @ \cup {c}]
  /\ late' = IF conn[c] = "on" THEN late ELSE late \cup {<<g, c>>}
  /\ adding' = [adding EXCEPT ![o] = {}]
  /\ pc' = [pc EXCEPT ![o] = "done"]
  /\ UNCHANGED <<connVars, sendVars>>

RemoveFromGroup(o, g, c) ==
  /\ pc[o] = "idle"
  /\ members' = [members EXCEPT ![g] = @ \ {c}]
  /\ pc' = [pc EXCEPT ![o] = "done"]
  /\ UNCHANGED <<connVars, groups, late, adding, sendVars>>

-----------------------------------------------------------------------------
(* Sends *)

InvokeAll(o) ==
  /\ pc[o] = "idle"
  /\ pc' = [pc EXCEPT ![o] = "range"]
  /\ targets' = [targets EXCEPT ![o] = clients]
  /\ UNCHANGED <<connVars, groupVars, adding, sent, pending, received>>

VisitClient(o, c) ==
  /\ pc[o] = "range"
  /\ c \in clients \ sent[o]
  /\ sent' = [sent EXCEPT ![o] = @ \cup {c}]
  /\ pending' = [pending EXCEPT ![o] = @ \cup {c}]
  /\ UNCHANGED <<connVars, groupVars, pc, adding, targets, received>>

\* Mutation: Range ends with its first client (the callback returns false).
InvokeAllDone_AfterFirst(o) ==
  /\ pc[o] = "range"
  /\ sent[o] # {} \/ targets[o] \cap clients = {}
  /\ pc' = [pc EXCEPT ![o] = "done"]
  /\ UNCHANGED <<connVars, groupVars, adding, sendVars>>

InvokeAllDone(o) ==
  /\ pc[o] = "range"
  /\ targets[o] \cap clients \subseteq sent[o]
  /\ pc' = [pc EXCEPT ![o] = "done"]
  /\ UNCHANGED <<connVars, groupVars, adding, sendVars>>

InvokeClient(o, c) ==
  /\ pc[o] = "idle"
  /\ pc' = [pc EXCEPT ![o] = "done"]
  /\ sent' = [sent EXCEPT ![o] = {c} \cap clients]
  /\ pending' = [pending EXCEPT ![o] = {c} \cap clients]
  /\ UNCHANGED <<connVars, groupVars, adding, targets, received>>

InvokeGroup(o, g) ==
  /\ pc[o] = "idle"
  /\ pc' = [pc EXCEPT ![o] = "done"]
  /\ sent' = [sent EXCEPT ![o] = members[g]]
  /\ pending' = [pending EXCEPT ![o] = members[g]]
  /\ UNCHANGED <<connVars, groupVars, adding, targets, received>>

\* The goroutine of one send; writeMessage fails when the context is done.
SendInvocation(o, c) ==
  /\ c \in pending[o]
  /\ pending' = [pending EXCEPT ![o] = @ \ {c}]
  /\ received' = IF c \in aborted THEN received
                 ELSE [received EXCEPT ![o] = @ \cup {c}]
  /\ UNCHANGED <<connVars, groupVars, pc, adding, targets, sent>>

-----------------------------------------------------------------------------

Next ==
  \/ \E c \in Conns :
       \/ OnConnected(c)
       \/ Abort(c)
       \/ OnDisconnected(c)
       \/ RangeGroups(c)
       \/ DisconnectedDone(c)
       \/ \E g \in Groups : VisitGroup(c, g)
  \/ \E o \in Calls :
       \/ InvokeAll(o)
       \/ InvokeAllDone(o)
       \/ \E g \in Groups : InvokeGroup(o, g)
       \/ \E c \in Conns :
            \/ VisitClient(o, c)
            \/ InvokeClient(o, c)
            \/ SendInvocation(o, c)
            \/ \E g \in Groups :
                 \/ AddToGroup(o, g, c)
                 \/ AddMember(o, g, c)
                 \/ RemoveFromGroup(o, g, c)

Spec == Init /\ [][Next]_vars

-----------------------------------------------------------------------------
(* Properties *)

\* Every variable has its type; only existing groups have members, the clients
\* are the connections between OnConnected and OnDisconnected, and a call has
\* loaded a client to add exactly while it is about to add it.
TypeOK ==
  /\ conn \in [Conns -> {"new", "on", "deleted", "ranging", "off"}]
  /\ aborted \subseteq Conns
  /\ clients = {c \in Conns : conn[c] = "on"}
  /\ groups \subseteq Groups
  /\ members \in [Groups -> SUBSET Conns]
  /\ \A g \in Groups : members[g] # {} => g \in groups
  /\ must \in [Conns -> SUBSET Groups]
  /\ visited \in [Conns -> SUBSET Groups]
  /\ pc \in [Calls -> {"idle", "add", "range", "done"}]
  /\ adding \in [Calls -> SUBSET (Groups \X Conns)]
  /\ \A o \in Calls, g \in Groups, c \in Conns :
       <<g, c>> \in adding[o] => pc[o] = "add" /\ conn[c] # "new"
  /\ targets \in [Calls -> SUBSET Conns]
  /\ sent \in [Calls -> SUBSET Conns]
  /\ pending \in [Calls -> SUBSET Conns]
  /\ received \in [Calls -> SUBSET Conns]
  /\ late \subseteq Groups \X Conns

\* Whoever is a member of a group and not a client is in an OnDisconnected that
\* has still to visit the group, or was added by an AddToGroup that had loaded
\* it before it was deleted (hublifetimemanager.go:74-80 and 110-115): no other
\* order of the steps of the calls leaves a connection behind.
MembersAccounted ==
  \A c \in Conns, g \in Groups :
    c \in members[g] =>
      \/ conn[c] \in {"on", "deleted"}
      \/ conn[c] = "ranging" /\ g \in must[c] \ visited[c]
      \/ <<g, c>> \in late

\* A client that was connected when InvokeAll began, and still is, has been
\* written to or is about to be when InvokeAll returns, whatever clients come and
\* go during the Range (hublifetimemanager.go:82-89); only a connection whose
\* context is done is left out.
AllReceive ==
  \A o \in Calls, c \in Conns :
    pc[o] = "done" /\ c \in targets[o] \cap clients =>
      c \in received[o] \cup pending[o] \cup aborted

\* hubcontext_test.go:389-390: "OnDisconnected removes the connection from all
\* groups so InvokeGroup no longer reaches it".
DisconnectedLeaveGroups ==
  \A c \in Conns, g \in Groups : conn[c] = "off" => c \notin members[g]
=============================================================================
