----------------------------- MODULE JsPromise -----------------------------
(***************************************************************************)
(* The promises of the JavaScript client (signalr.js bundles es6-promise   *)
(* for browsers that have none): settling, then, the resolution of a       *)
(* promise with another promise or with a foreign thenable, Promise.all,   *)
(* and the queue of callbacks that asap fills and flush empties.           *)
(*                                                                         *)
(* The code runs on one thread.  The application calls in at any time: from *)
(* events, and from the callbacks, which flush runs one after the other.   *)
(* As a step of flush is the call of one callback, what a callback calls   *)
(* are steps before the one in which it returns.  The operators on s, the  *)
(* heap, are the functions of the source.  A value is represented by the   *)
(* promise that was first fulfilled or rejected with it.                   *)
(***************************************************************************)
EXTENDS Naturals, Sequences, FiniteSets, Functions

CONSTANTS MaxPromises,  \* bound on the promises
          MaxCalls,     \* bound on the calls of the functions resolve and reject
          MaxThenables  \* bound on the foreign thenables

VARIABLES
  made,         \* number of promises, the variable id
  kind,         \* what made it: new Promise, then, all or an entry of all
  state,        \* _state
  result,       \* _result: whose value it is
  subscribers,  \* _subscribers
  foreign,      \* the thenable a promise is resolved with; its flag sealed
  queue,        \* the jobs of asap that have not run
  scheduled,    \* flush is to be called, or runs
  index,        \* the loop variable of publish
  remaining,    \* per Enumerator, by its promise: _remaining
  entries,      \* and its input
  parent,       \* the promise then was called on
  called,       \* number of calls of invokeCallback for the promise of then
  calls,        \* number of calls of the functions resolve and reject
  follows       \* the promise a promise was first resolved with

vars == <<made, kind, state, result, subscribers, foreign, queue, scheduled, index, remaining,
          entries, parent, called, calls, follows>>

Promises == 1..MaxPromises
Made == 1..made

\* A subscriber: the promise of then, a promise that adopts the outcome of
\* another one, or an entry of an Enumerator.  A job of asap.
Subscriber(how, to) == [how |-> how, to |-> to]
Job(what, p, c) == [what |-> what, p |-> p, c |-> c]

TypeOK ==
  /\ made \in 0..MaxPromises
  /\ kind \in [Promises -> {"none", "new", "then", "all", "entry"}]
  /\ state \in [Promises -> {"pending", "fulfilled", "rejected"}]
  /\ \A f \in {result, parent, follows} : f \in [Promises -> 0..made]
  /\ \A p \in Promises : /\ entries[p] \in Seq(Made)
                         /\ subscribers[p] \in Seq([how : {"then", "adopt", "all"}, to : Made])
  /\ foreign \in [Promises -> {"none", "queued", "open", "sealed"}]
  /\ queue \in Seq([what : {"publish", "invoke", "foreign"}, p : Made, c : 0..made])
  /\ scheduled \in BOOLEAN
  /\ index \in 0..MaxPromises /\ remaining \in [Promises -> 0..2]
  /\ called \in [Promises -> 0..2] /\ calls \in [Promises -> 0..MaxCalls]

Init ==
  /\ made = 0 /\ kind = [p \in Promises |-> "none"]
  /\ state = [p \in Promises |-> "pending"] /\ result = [p \in Promises |-> 0]
  /\ subscribers = [p \in Promises |-> <<>>]
  /\ foreign = [p \in Promises |-> "none"]
  /\ queue = <<>> /\ scheduled = FALSE /\ index = 0
  /\ remaining = [p \in Promises |-> 0] /\ entries = [p \in Promises |-> <<>>]
  /\ parent = [p \in Promises |-> 0] /\ called = [p \in Promises |-> 0]
  /\ calls = [p \in Promises |-> 0] /\ follows = [p \in Promises |-> 0]

heap == [made |-> made, kind |-> kind, state |-> state, result |-> result,
         subscribers |-> subscribers, foreign |-> foreign, queue |-> queue,
         scheduled |-> scheduled, remaining |-> remaining, called |-> called, follows |-> follows]

Becomes(s) ==
  /\ made' = s.made /\ kind' = s.kind /\ state' = s.state /\ result' = s.result
  /\ subscribers' = s.subscribers /\ foreign' = s.foreign /\ queue' = s.queue
  /\ scheduled' = s.scheduled /\ remaining' = s.remaining /\ called' = s.called
  /\ follows' = s.follows

-----------------------------------------------------------------------------
(* The functions of es6-promise.                                           *)

\* The first callback of an empty queue schedules flush.  While flush runs a
\* callback, it is still at the head of the queue.
asap(s, job) == [s EXCEPT !.queue = Append(@, job), !.scheduled = @ \/ s.queue = <<>>]

makePromise(s, k) == [s EXCEPT !.made = @ + 1, !.kind[s.made + 1] = k]

fulfill(s, p, v) ==
  IF s.state[p] # "pending"
  THEN s
  ELSE LET t == [s EXCEPT !.state[p] = "fulfilled", !.result[p] = v] IN
       IF s.subscribers[p] = <<>> THEN t ELSE asap(t, Job("publish", p, 0))

reject(s, p, v) ==
  IF s.state[p] # "pending"
  THEN s
  ELSE asap([s EXCEPT !.state[p] = "rejected", !.result[p] = v], Job("publish", p, 0))

subscribe(s, p, subscriber) ==
  LET t == [s EXCEPT !.subscribers[p] = Append(@, subscriber)] IN
  IF s.subscribers[p] = <<>> /\ s.state[p] # "pending" THEN asap(t, Job("publish", p, 0)) ELSE t

\* The outcome q has is passed on to p.
settleAs(s, p, q) ==
  IF s.state[q] = "fulfilled" THEN fulfill(s, p, s.result[q]) ELSE reject(s, p, s.result[q])

handleOwnThenable(s, p, q) ==
  IF s.state[q] # "pending" THEN settleAs(s, p, q) ELSE subscribe(s, q, Subscriber("adopt", p))

handleForeignThenable(s, p) == asap([s EXCEPT !.foreign[p] = "queued"], Job("foreign", p, 0))

\* With 0, a value that is not a thenable, or with the promise q.
resolve(s, p, q) ==
  CASE q = 0 -> fulfill(s, p, p)
    [] q = p -> reject(s, p, p)
    [] OTHER -> handleOwnThenable([s EXCEPT !.follows[p] = IF @ = 0 THEN q ELSE @], p, q)

\* What the callback of then does: there is none for the outcome, it throws, or it
\* returns a value (0) or a promise.
Out(does, q) == [does |-> does, with |-> q]
Outs == {Out(does, 0) : does \in {"nothing", "throws"}} \cup {Out("returns", q) : q \in 0..made}

\* c is the promise of then, called on p.
invokeCallback(s, p, c, out) ==
  LET t == [s EXCEPT !.called[c] = @ + 1] IN
  CASE out.does = "nothing" -> settleAs(t, c, p)
    [] out.does = "throws"  -> reject(t, c, c)
    [] OTHER                -> resolve(t, c, out.with)

\* One entry of the promise a of an Enumerator has settled.
settledAt(s, a, st, v) ==
  LET t == IF s.state[a] # "pending"
           THEN s
           ELSE LET u == [s EXCEPT !.remaining[a] = @ - 1] IN
                IF st = "rejected" THEN reject(u, a, v) ELSE u
  IN  IF t.remaining[a] = 0 THEN fulfill(t, a, a) ELSE t

willSettleAt(s, a, m) == subscribe(s, m, Subscriber("all", a))

\* Mutation: an entry that has settled is stored, but not counted.
eachEntry_Uncounted(s, a, q) ==
  LET m == s.made + 1 IN
  CASE s.state[q] = "rejected"  -> reject(s, a, s.result[q])
    [] s.state[q] = "fulfilled" -> s
    [] OTHER -> willSettleAt(handleOwnThenable([makePromise(s, "entry") EXCEPT !.follows[m] = q], m, q), a, m)

\* A pending entry q gets a promise m of its own that adopts its outcome.
eachEntry(s, a, q) ==
  IF s.state[q] # "pending"
  THEN settledAt(s, a, s.state[q], s.result[q])
  ELSE LET m == s.made + 1 IN
       willSettleAt(handleOwnThenable([makePromise(s, "entry") EXCEPT !.follows[m] = q], m, q), a, m)

\* The Enumerator of two entries.
enumerate(s, a, input) ==
  LET t == eachEntry(eachEntry([s EXCEPT !.remaining[a] = 2], a, input[1]), a, input[2]) IN
  IF t.remaining[a] = 0 THEN fulfill(t, a, a) ELSE t

\* What publish does for one subscriber of p.
notify(s, p, subscriber, out) ==
  CASE subscriber.how = "then"  -> invokeCallback(s, p, subscriber.to, out)
    [] subscriber.how = "adopt" -> settleAs(s, subscriber.to, p)
    [] OTHER                    -> settledAt(s, subscriber.to, s.state[p], s.result[p])

-----------------------------------------------------------------------------
(* What the application calls.                                             *)

\* new Promise(resolver); such promises are made before all others, as one that is
\* not used yet changes nothing.
Construct ==
  /\ made < MaxPromises /\ \A p \in Made : kind[p] = "new"
  /\ Becomes(makePromise(heap, "new"))
  /\ UNCHANGED <<index, entries, parent, calls>>

Calling(p) ==
  /\ kind[p] = "new" /\ FoldFunction(+, 0, calls) < MaxCalls
  /\ calls' = [calls EXCEPT ![p] = @ + 1]

\* The functions the resolver is given: resolvePromise, with a value or a promise,
\* with a foreign thenable, and rejectPromise, which a resolver that throws calls too.
resolvePromise(p, q) ==
  /\ Calling(p)
  /\ Becomes(resolve(heap, p, q))
  /\ UNCHANGED <<index, entries, parent>>

resolveWithThenable(p) ==
  /\ Calling(p) /\ foreign[p] = "none"
  /\ Cardinality({q \in Made : foreign[q] # "none"}) < MaxThenables
  /\ Becomes(handleForeignThenable(heap, p))
  /\ UNCHANGED <<index, entries, parent>>

rejectPromise(p) ==
  /\ Calling(p)
  /\ Becomes(reject(heap, p, p))
  /\ UNCHANGED <<index, entries, parent>>

\* Mutation: the callback is called at once when the promise has settled.
then_Sync(p) ==
  LET c == made + 1
      s == makePromise(heap, "then")
  IN  /\ made < MaxPromises
      /\ parent' = [parent EXCEPT ![c] = p]
      /\ Becomes(IF state[p] # "pending"
                 THEN invokeCallback(s, p, c, Out("nothing", 0))
                 ELSE subscribe(s, p, Subscriber("then", c)))
      /\ UNCHANGED <<index, entries, calls>>

then(p) ==
  LET c == made + 1
      s == makePromise(heap, "then")
  IN  /\ made < MaxPromises
      /\ parent' = [parent EXCEPT ![c] = p]
      /\ Becomes(IF state[p] # "pending"
                 THEN asap(s, Job("invoke", p, c))
                 ELSE subscribe(s, p, Subscriber("then", c)))
      /\ UNCHANGED <<index, entries, calls>>

all(input) ==
  LET a == made + 1
      s == enumerate(makePromise(heap, "all"), a, input)
  IN  /\ made + 1 + Cardinality({i \in 1..2 : state[input[i]] = "pending"}) <= MaxPromises
      /\ entries' = [entries EXCEPT ![a] = input]
      /\ Becomes(s)
      /\ UNCHANGED <<index, parent, calls>>

\* A foreign thenable calls one of the functions its then was given; sealed
\* makes every other call return at once.
ThenableSettles(p) ==
  /\ foreign[p] = "open"
  /\ LET s == [heap EXCEPT !.foreign[p] = "sealed"] IN
     \/ \E q \in 0..made : Becomes(resolve(s, p, q))
     \/ Becomes(reject(s, p, p))
  /\ UNCHANGED <<index, entries, parent, calls>>

-----------------------------------------------------------------------------
(* flush, one callback at a time.                                          *)

Runs(what) == scheduled /\ queue # <<>> /\ Head(queue).what = what

\* A callback has returned; after the last one flush ends.
ran(s) == [s EXCEPT !.queue = Tail(@), !.scheduled = Tail(s.queue) # <<>>]

publish(out) ==
  LET p == Head(queue).p
      last == Len(subscribers[p])
      s == notify(heap, p, subscribers[p][index + 1], out)
  IN  /\ Runs("publish")
      /\ (last = 0 \/ subscribers[p][index + 1].how # "then") => out = Out("nothing", 0)
      /\ \/ last = 0 /\ Becomes(ran(heap)) /\ index' = 0
         \/ index + 1 < last /\ Becomes(s) /\ index' = index + 1
         \/ index + 1 = last /\ Becomes(ran([s EXCEPT !.subscribers[p] = <<>>])) /\ index' = 0
      /\ UNCHANGED <<entries, parent, calls>>

InvokeLater(out) ==
  LET job == Head(queue) IN
  /\ Runs("invoke")
  /\ Becomes(ran(invokeCallback(heap, job.p, job.c, out)))
  /\ UNCHANGED <<index, entries, parent, calls>>

\* The thenable's then is called; it throws, or keeps the functions it is given.
CallThenable ==
  LET p == Head(queue).p
      s == ran(heap)
  IN  /\ Runs("foreign")
      /\ \/ Becomes([s EXCEPT !.foreign[p] = "open"])
         \/ Becomes(reject([s EXCEPT !.foreign[p] = "sealed"], p, p))
      /\ UNCHANGED <<index, entries, parent, calls>>

flush == (\E out \in Outs : publish(out) \/ InvokeLater(out)) \/ CallThenable

Next ==
  \/ Construct
  \/ \E p \in Made : rejectPromise(p) \/ resolveWithThenable(p) \/ then(p) \/ ThenableSettles(p)
  \/ \E p \in Made, q \in 0..made : resolvePromise(p, q)
  \/ \E p \in Made : \E q \in p..made : all(<<p, q>>)
  \/ flush

Spec == Init /\ [][Next]_vars

-----------------------------------------------------------------------------
(* Properties.                                                             *)

\* The callbacks that then registers on a promise are called in the order of their
\* registration, each of them once and only when the promise has settled,
\* though those registered before it settled wait in _subscribers for publish and
\* those registered after it go to the queue of asap at once.
HandlersInOrder ==
  \A c \in Made :
    /\ called[c] <= 1
    /\ called[c] = 1 => /\ state[parent[c]] # "pending"
                        /\ \A b \in 1..(c - 1) : parent[b] = parent[c] => called[b] = 1

Follows(p, q) == state[p] = state[q] /\ (state[p] # "pending" => result[p] = result[q])

\* When no flush is to come, every callback of a settled promise was called, a
\* promise that was resolved with another one has its outcome (unless the resolver
\* called its functions again), and the promise of Promise.all is rejected as one
\* of its entries if one is, fulfilled if all of them are, and pending otherwise,
\* whichever of them had settled before the call.
OutcomesMatch ==
  ~scheduled =>
    \A p \in Made :
      /\ kind[p] = "then" /\ state[parent[p]] # "pending" => called[p] = 1
      /\ follows[p] # 0 /\ calls[p] <= 1 => Follows(p, follows[p])
      /\ kind[p] = "all" =>
           LET E == {entries[p][1], entries[p][2]} IN
           /\ (state[p] = "rejected") = (\E q \in E : state[q] = "rejected")
           /\ state[p] = "rejected" => \E q \in E : Follows(p, q)
           /\ (state[p] = "fulfilled") = (\A q \in E : state[q] = "fulfilled")

\* The same for every promise, with no condition on the calls, as signalr.js:967-970
\* says: "the original promise's settled state will match the value's settled
\* state".  It does not hold: a second call of the functions of the resolver
\* settles a promise that waits for another one.
ResolvedIsFollowed == ~scheduled => \A p \in Made : follows[p] # 0 => Follows(p, follows[p])

\* A promise that has settled keeps its state and its result.
SettledOnce == [][\A p \in Promises : state[p] # "pending" => state'[p] = state[p] /\ result'[p] = result[p]]_vars
=============================================================================
