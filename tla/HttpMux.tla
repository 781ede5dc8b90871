------------------------------ MODULE HttpMux --------------------------------
(***************************************************************************)
(* The HTTP entry of a server (httpmux.go): negotiate requests, GET        *)
(* requests that become Server-Sent-Events or WebSocket connections, POST  *)
(* requests that carry the client's messages of an SSE connection, and the *)
(* reaper of negotiations that nobody came back for.  All share            *)
(* connectionMap, which is locked for single reads and writes only.        *)
(*                                                                         *)
(* Every negotiation has a ConnectionID; with negotiateVersion 1 the map   *)
(* key is a token that differs from it.  An SSE connection takes the key   *)
(* of the request as its ConnectionID, a WebSocket connection the          *)
(* ConnectionID of the negotiation.  Ids are random and never drawn twice. *)
(***************************************************************************)
EXTENDS Naturals, FiniteSets

CONSTANTS Sessions,    \* ids drawn by newConnectionID
          Gets,        \* GET requests
          Posts,       \* POST requests
          MaxPending   \* MaxNegotiationConnections, 0 for no limit

ASSUME MaxPendingAssumption == MaxPending \in Nat

ID(n) == <<"id", n>>
Token(n) == <<"token", n>>
Keys == {"id", "token"} \X Sessions
SomeKey == CHOOSE k \in Keys : TRUE  \* of a request that has not come yet

VARIABLES
  entry,     \* connectionMap: what kind of connection a key has, or "none"
  drawn,     \* sessions whose ids are drawn
  direct,    \* sessions of WebSockets without negotiation
  expired,   \* keys of negotiations older than the handshake timeout
  get,       \* per GET request: its control state
  key,       \* per GET request: the key it asks for
  transport, \* per GET request: "sse" or "websocket"
  post,      \* per POST request: its control state or the answer
  postKey,   \* per POST request: the key it asks for
  early,     \* POST requests whose key was negotiated and not initiated when they came
  released,  \* history: keys that were reaped or whose connection has ended
  serverDone \* the server's context is done

getVars == <<get, key, transport>>
postVars == <<post, postKey, early>>
vars == <<entry, drawn, direct, expired, getVars, postVars, released, serverDone>>

Init ==
  /\ entry = [k \in Keys |-> "none"]
  /\ drawn = {} /\ direct = {} /\ expired = {}
  /\ get = [r \in Gets |-> "idle"]
  /\ key = [r \in Gets |-> SomeKey]
  /\ transport = [r \in Gets |-> "sse"]
  /\ post = [p \in Posts |-> "idle"]
  /\ postKey = [p \in Posts |-> SomeKey]
  /\ early = {} /\ released = {}
  /\ serverDone = FALSE

Pending == {k \in Keys : entry[k] = "negotiate"}

\* The ConnectionID under which the connection of request r is served.
ConnectionID(r) == IF transport[r] = "sse" THEN key[r] ELSE ID(key[r][2])

-----------------------------------------------------------------------------
(* Negotiation *)

LimitReached == MaxPending > 0 /\ Cardinality(Pending) >= MaxPending

\* negotiate adds an entry under the id (version 0) or the token (version 1),
\* or answers 429 and keeps nothing.
negotiate(n, k) ==
  /\ n \notin drawn
  /\ k \in {ID(n), Token(n)}
  /\ drawn' = drawn \cup {n}
  /\ entry' = IF LimitReached THEN entry ELSE [entry EXCEPT ![k] = "negotiate"]
  /\ UNCHANGED <<direct, expired, getVars, postVars, released, serverDone>>

\* Time passes: an entry is older than ttl.
Expire(k) ==
  /\ entry[k] = "negotiate"
  /\ k \notin expired
  /\ expired' = expired \cup {k}
  /\ UNCHANGED <<entry, drawn, direct, getVars, postVars, released, serverDone>>

\* Mutation: the reaper does not look at the type of the connection.
reaperLoop_AnyType ==
  /\ ~serverDone
  /\ expired # {}
  /\ entry' = [k \in Keys |-> IF k \in expired THEN "none" ELSE entry[k]]
  /\ released' = released \cup expired
  /\ expired' = {}
  /\ UNCHANGED <<drawn, direct, getVars, postVars, serverDone>>

\* A tick of reaperLoop.
reaperLoop ==
  /\ ~serverDone
  /\ expired \cap Pending # {}
  /\ entry' = [k \in Keys |-> IF k \in expired \cap Pending THEN "none" ELSE entry[k]]
  /\ released' = released \cup (expired \cap Pending)
  /\ expired' = expired \ Pending
  /\ UNCHANGED <<drawn, direct, getVars, postVars, serverDone>>

ServerCanceled ==
  /\ ~serverDone
  /\ serverDone' = TRUE
  /\ UNCHANGED <<entry, drawn, direct, expired, getVars, postVars, released>>

-----------------------------------------------------------------------------
(* GET requests *)

\* handleGet with an id, for one of the transports.
handleGet(r, k, t) ==
  /\ get[r] = "idle"
  /\ k[2] \in drawn
  /\ get' = [get EXCEPT ![r] = "lookup"]
  /\ key' = [key EXCEPT ![r] = k]
  /\ transport' = [transport EXCEPT ![r] = t]
  /\ UNCHANGED <<entry, drawn, direct, expired, postVars, released, serverDone>>

\* handleWebsocket without an id makes a negotiation of its own.
DirectWebsocket(r, n) ==
  /\ get[r] = "idle"
  /\ n \notin drawn
  /\ drawn' = drawn \cup {n}
  /\ direct' = direct \cup {n}
  /\ entry' = [entry EXCEPT ![ID(n)] = "negotiate"]
  /\ get' = [get EXCEPT ![r] = "lookup"]
  /\ key' = [key EXCEPT ![r] = ID(n)]
  /\ transport' = [transport EXCEPT ![r] = "websocket"]
  /\ UNCHANGED <<expired, postVars, released, serverDone>>

\* Request r is over and its key forgotten.
Answered(r, how) ==
  /\ get' = [get EXCEPT ![r] = how]
  /\ key' = [key EXCEPT ![r] = SomeKey]
  /\ transport' = [transport EXCEPT ![r] = "sse"]

\* Mutation: the entry is taken out of the map when it is found.
Lookup_Takes(r) ==
  /\ get[r] = "lookup"
  /\ IF entry[key[r]] = "negotiate"
     THEN /\ entry' = [entry EXCEPT ![key[r]] = "none"]
          /\ get' = [get EXCEPT ![r] = "store"]
     ELSE get' = [get EXCEPT ![r] = "refused"] /\ UNCHANGED entry
  /\ UNCHANGED <<drawn, direct, expired, key, transport, postVars, released, serverDone>>

\* The lookup under the read lock: only a negotiation may be initiated, what
\* is in use (409, or the WebSocket closed with 1002) or unknown is refused.
Lookup(r) ==
  /\ get[r] = "lookup"
  /\ IF entry[key[r]] = "negotiate"
     THEN get' = [get EXCEPT ![r] = "store"] /\ UNCHANGED <<key, transport>>
     ELSE Answered(r, "refused")
  /\ UNCHANGED <<entry, drawn, direct, expired, postVars, released, serverDone>>

\* serveConnection stores the connection under its ConnectionID ...
StoreConnection(r) ==
  /\ get[r] = "store"
  /\ entry' = [entry EXCEPT ![ConnectionID(r)] = transport[r]]
  /\ get' = [get EXCEPT ![r] = "serve"]
  /\ UNCHANGED <<drawn, direct, expired, key, transport, postVars, released, serverDone>>

\* ... and removes what the map has there when Serve has returned.
RemoveConnection(r) ==
  /\ get[r] = "serve"
  /\ entry' = [entry EXCEPT ![ConnectionID(r)] = "none"]
  /\ released' = released \cup {ConnectionID(r)}
  /\ Answered(r, "ended")
  /\ UNCHANGED <<drawn, direct, expired, postVars, serverDone>>

-----------------------------------------------------------------------------
(* POST requests *)

handlePost(p, k) ==
  /\ post[p] = "idle"
  /\ k[2] \in drawn
  /\ post' = [post EXCEPT ![p] = "look"]
  /\ postKey' = [postKey EXCEPT ![p] = k]
  /\ early' = IF entry[k] = "negotiate" THEN early \cup {p} ELSE early
  /\ UNCHANGED <<entry, drawn, direct, expired, getVars, released, serverDone>>

\* One round of handlePost's loop: an SSE connection consumes the request, a
\* negotiation is looked at again later, anything else is refused.
PostRound(p) ==
  /\ post[p] = "look"
  /\ post' = [post EXCEPT ![p] =
       CASE entry[postKey[p]] = "sse" -> "consumed"
         [] entry[postKey[p]] = "websocket" -> "409"
         [] entry[postKey[p]] = "none" -> "404"
         [] entry[postKey[p]] = "negotiate" -> "sleep"]
  /\ UNCHANGED <<entry, drawn, direct, expired, getVars, postKey, early, released, serverDone>>

\* After 10 ms it looks again, until the handshake timeout (425).
PostSleeps(p) ==
  /\ post[p] = "sleep"
  /\ post' = [post EXCEPT ![p] = "look"]
  /\ UNCHANGED <<entry, drawn, direct, expired, getVars, postKey, early, released, serverDone>>

PostTimeout(p) ==
  /\ post[p] = "sleep"
  /\ post' = [post EXCEPT ![p] = "425"]
  /\ UNCHANGED <<entry, drawn, direct, expired, getVars, postKey, early, released, serverDone>>

-----------------------------------------------------------------------------

Next ==
  \/ \E n \in Sessions, t \in {"id", "token"} : negotiate(n, <<t, n>>)
  \/ \E k \in Keys : Expire(k)
  \/ reaperLoop
  \/ ServerCanceled
  \/ \E r \in Gets :
       \/ \E k \in Keys, t \in {"sse", "websocket"} : handleGet(r, k, t)
       \/ \E n \in Sessions : DirectWebsocket(r, n)
       \/ Lookup(r)
       \/ StoreConnection(r)
       \/ RemoveConnection(r)
  \/ \E p \in Posts :
       \/ \E k \in Keys : handlePost(p, k)
       \/ PostRound(p)
       \/ PostSleeps(p)
       \/ PostTimeout(p)

Spec == Init /\ [][Next]_vars

-----------------------------------------------------------------------------
(* Properties *)

\* Every variable has its type; entries have ids that were drawn, and tokens
\* are the keys of negotiations and SSE connections only.
TypeOK ==
  /\ entry \in [Keys -> {"none", "negotiate", "sse", "websocket"}]
  /\ drawn \subseteq Sessions /\ direct \subseteq drawn
  /\ \A k \in Keys : entry[k] # "none" => k[2] \in drawn
  /\ \A n \in Sessions : entry[Token(n)] # "websocket"
  /\ \A n \in direct : entry[Token(n)] = "none"
  /\ expired \subseteq Keys
  /\ get \in [Gets -> {"idle", "lookup", "refused", "store", "serve", "ended"}]
  /\ key \in [Gets -> Keys]
  /\ transport \in [Gets -> {"sse", "websocket"}]
  /\ post \in [Posts -> {"idle", "look", "sleep", "consumed", "404", "409", "425"}]
  /\ postKey \in [Posts -> Keys]
  /\ early \subseteq Posts
  /\ released \subseteq Keys
  /\ serverDone \in BOOLEAN

\* A POST that comes after the negotiation and races the GET of its own
\* connection never finds the key unknown: there is no moment between the
\* negotiation and the connection without an entry (httpmux.go:75-93 and
\* 302-305), only the reaper and the end of a connection take it away.
NoGap ==
  \A p \in early : post[p] = "404" => postKey[p] \in released

\* A connection that is served leaves the map only when a connection of the
\* same id has ended; the reaper takes nothing but negotiations
\* (httpmux.go:43-49 and 307-309).
ServedStay ==
  [][\A k \in Keys :
       entry[k] \in {"sse", "websocket"} /\ entry'[k] = "none"
         => \E r \in Gets : get[r] = "serve" /\ get'[r] = "ended" /\ ConnectionID(r) = k]_vars

\* httpmux.go:169 and 214: a request for a "connectionID in use" or "Already
\* initiated" is refused.
OneConnectionPerID ==
  \A r, q \in Gets :
    get[r] = "serve" /\ get[q] = "serve" /\ ConnectionID(r) = ConnectionID(q) => r = q

\* serveroptions.go:115: "MaxNegotiationConnections limits the number of
\* pending (unfinished) negotiate connections".
PendingBounded ==
  MaxPending > 0 => Cardinality(Pending) <= MaxPending

\* httpserver_test.go:174-175: a POST before the GET is established "should
\* return 425 Too Early after handshakeTimeout".
EarlyPostIsTooEarly ==
  \A p \in early :
    post[p] = "404" => \E r \in Gets : get[r] \in {"serve", "ended"}
=============================================================================
