------------------------------ MODULE MCJsCalls ------------------------------
(***************************************************************************)
(* The calls of the JavaScript client (JsCalls) and the promises its        *)
(* browsers may need (JsPromise).  The models share no variable, so a       *)
(* behaviour of both is a behaviour of each and it is enough to let one    *)
(* run while the other has not begun.                                      *)
(***************************************************************************)
EXTENDS JsCalls

CONSTANTS MaxPromises, MaxResolves, MaxThenables  \* of JsPromise; MaxResolves is its MaxCalls

VARIABLES part,  \* the part that runs
          made, kind, settled, result, subscribers, foreign, jobs, scheduled, index, remaining,
          entries, parent, called, resolves, follows

promiseVars == <<made, kind, settled, result, subscribers, foreign, jobs, scheduled, index, remaining,
                 entries, parent, called, resolves, follows>>

P == INSTANCE JsPromise WITH MaxCalls <- MaxResolves, state <- settled, queue <- jobs, calls <- resolves

PartsInit == Init /\ P!Init /\ part \in {"calls", "promises"}

PartsNext ==
  \/ part = "calls" /\ Next /\ UNCHANGED <<part, promiseVars>>
  \/ part = "promises" /\ P!Next /\ UNCHANGED <<part, vars>>

PartsSpec == PartsInit /\ [][PartsNext]_<<part, vars, promiseVars>>

-----------------------------------------------------------------------------
(* The properties of JsPromise.                                            *)

\* The callbacks registered on a promise by then are called once each, in the order
\* of their registration and only when it has settled.
HandlersInOrder == P!HandlersInOrder

\* When no flush is to come, the callbacks of settled promises were called, a
\* promise resolved once with another one has its outcome, and so has the promise
\* of Promise.all.
OutcomesMatch == P!OutcomesMatch
=============================================================================
