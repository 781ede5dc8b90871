------------------------------ MODULE MCServer ------------------------------
(***************************************************************************)
(* Three parts of a Go server that run beside each other: the HTTP entry   *)
(* (HttpMux), a Server-Sent-Events connection (ServerSSE) and the lifetime *)
(* manager (HubLifetime).  Their models share no variable, so a behaviour  *)
(* of all is a behaviour of each and it is enough to let one part run      *)
(* while the others have not begun.                                        *)
(***************************************************************************)
EXTENDS HttpMux, TLC

CONSTANTS Writes, Bodies, MaxChunks,  \* of ServerSSE; Bodies are its Posts
          Conns, Groups, Calls        \* of HubLifetime

VARIABLES part,  \* the part that runs
          ctxDone, mx, write, jobs, jobsClosed, results, closer, handler, answer, body, chunks,
          postWriting, reader, rw, panicked,
          conn, aborted, clients, groups, members, must, visited, pc, adding, targets, sent,
          pending, received, late

sseVars == <<ctxDone, mx, write, jobs, jobsClosed, results, closer, handler, answer, body, chunks,
             postWriting, reader, rw, panicked>>
lifetimeVars == <<conn, aborted, clients, groups, members, must, visited, pc, adding, targets,
                  sent, pending, received, late>>

E == INSTANCE ServerSSE WITH Posts <- Bodies, post <- body
L == INSTANCE HubLifetime

ASSUME SSEAssumption == E!Bounds

PartsInit == Init /\ E!Init /\ L!Init /\ part \in {"mux", "sse", "lifetime"}

PartsNext ==
  \/ part = "mux" /\ Next /\ UNCHANGED <<part, sseVars, lifetimeVars>>
  \/ part = "sse" /\ E!Next /\ UNCHANGED <<part, vars, lifetimeVars>>
  \/ part = "lifetime" /\ L!Next /\ UNCHANGED <<part, vars, sseVars>>

PartsSpec == PartsInit /\ [][PartsNext]_<<part, vars, sseVars, lifetimeVars>>

\* Gets and Conns are the same model values, and so are Bodies and Groups, and
\* Writes and Calls: no state holds both, and one permutation serves two parts.
Symmetry == Permutations(Gets) \cup Permutations(Writes) \cup Permutations(Bodies)

-----------------------------------------------------------------------------
(* The properties of ServerSSE and of HubLifetime.                         *)

\* No Write of an SSE connection sends to the closed job channel, whenever the
\* context is canceled.
NoSendOnClosed == E!NoSendOnClosed

\* Whoever is a member of a group is connected, is about to be removed by its
\* OnDisconnected, or was added by a call that had loaded it before.
MembersAccounted == L!MembersAccounted

\* InvokeAll misses no client that is connected from its beginning to its end.
AllReceive == L!AllReceive
=============================================================================
