----------------------- MODULE JsHubConnectionProofs -----------------------
(***************************************************************************)
(* Proofs about JsHubConnection, for every number of frames, of calls of   *)
(* stop and of starts of the HttpConnection.                               *)
(*                                                                         *)
(* Each method of the source is shown to keep the invariants, from the     *)
(* methods it calls; an action is one of them applied to the heap.         *)
(***************************************************************************)
EXTENDS JsHubConnection, TLAPS

-----------------------------------------------------------------------------
(* Changes of the heap.                                                    *)

\* The numbers of starts.
LEMMA Numbers == 0 \in Conn0 /\ Conns \subseteq Conn0 /\ Conns = Conn0 \ {0}
  BY ConnectsAssumption DEF Conn0, Conns

\* The starts of the HttpConnection are numbered as they come.
BoundsInv(s) ==
  /\ \A f \in Frames : s.frame[f].c <= s.connects
  /\ s.http.state # "Disconnected" => s.connects # 0
  /\ s.http.state = "Disconnecting" => s.http.stopPromise # 0


\* connectionStarted is not set while startWithStateTransitions runs, so that
\* completeClose does not make the HubConnection Disconnected.
StartsInv(s) ==
  /\ \A f, g \in Frames : s.frame[f].by = "start" /\ s.frame[g].by = "start" => f = g
  /\ \A f \in Frames : s.frame[f].by = "start" => ~s.hub.started /\ s.hub.state # "Disconnected"
  /\ s.hub.state = "Disconnected" => ~s.hub.started
  /\ s.hub.state = "Connecting" => \E f \in Frames : s.frame[f].by = "start"
  /\ \A f \in Frames : s.frame[f].at = "delay" => s.frame[f].by = "reconnect"


\* The HttpConnection is stopped, or being stopped.
Down(s) == s.http.state \in {"Disconnected", "Disconnecting"}


FailsInv(s) ==
  \A f \in Frames : s.frame[f].c = s.connects =>
    /\ s.frame[f].at \in {"failing", "rejected", "awaitStop"} => Down(s)
    /\ s.frame[f].at = "ok" => s.http.state # "Connecting"


Sound(s) == s \in Heap /\ BoundsInv(s) /\ StartsInv(s) /\ FailsInv(s)


\* The promise it returns.
LEMMA NoAwait == Nothing \in Awaits
  BY DEF Awaits

Early == {"negotiate", "renegotiate", "connect"}


\* An open transport is the one of the last start and the one the connection
\* holds.  A start that has not connected is the last one, and the only one; nobody
\* stops a transport then.  HttpConnection.stop is under way for the last start.
Held(s) ==
  /\ \A c \in Conns : s.conn[c].live =>
       /\ s.http.transport = c /\ c = s.connects
       /\ s.http.state \in {"Connected", "Disconnecting"}
  /\ s.http.state = "Disconnected" => s.http.transport = 0
  /\ \A f \in Frames : s.frame[f].at \in Early =>
       /\ s.frame[f].c = s.connects /\ s.http.state \in {"Connecting", "Disconnecting"}
       /\ s.frame[f].at # "negotiate" => s.http.transport = s.connects
       /\ \A c \in Conns : ~s.conn[c].live /\ s.conn[c].stop \notin {"transport", "tail"}
       /\ \A g \in Frames : s.frame[g].at \in Early => g = f
  /\ \A c \in Conns :
       /\ s.conn[c].stop = "awaitStart" => c = s.connects /\ Down(s)
       /\ s.conn[c].stop = "transport" => c = s.connects /\ s.http.state = "Disconnecting"
       /\ s.conn[c].stop = "tail" => \A d \in Conns : ~s.conn[d].live


\* The handshake of the frame is answered: it makes the HubConnection Connected.
Settling(s, f) ==
  \/ s.frame[f].at = "resolved"
  \/ s.frame[f].at = "handshake" /\ s.frame[f].handshake = "resolved"


TimerInv(s) ==
  /\ ~Down(s)
  /\ s.hub.state = "Connected" \/ \E f \in Frames : Settling(s, f)
  => s.hub.timeout \/ s.http.inherentKeepAlive


\* The fields of the heap are the variables.
LEMMA HeapParts ==
  /\ heap.http = http /\ heap.hub = hub /\ heap.frame = frame /\ heap.conn = conn
  /\ heap.connects = connects /\ heap.caller = caller
BY Zenon DEF heap

\* The inductive invariant.  What it says of transports and of the timer holds of
\* applications that call start and stop in their own events only.
LifeInv ==
  /\ skip \in BOOLEAN /\ reacts \in BOOLEAN /\ Sound(heap)
  /\ ~reacts => Held(heap) /\ TimerInv(heap)


\* The invariant holds before the first call.
LEMMA LifeStart == Init => LifeInv
<1> SUFFICES ASSUME Init
             PROVE  LifeInv
  BY Zenon
<1> DEFINE s == heap
<1>1. /\ s.http = http /\ s.hub = hub /\ s.frame = frame /\ s.conn = conn
      /\ s.connects = connects /\ s.caller = caller
  BY HeapParts, Zenon
<1>2. heap \in Heap
  <2>1. http \in HttpFields /\ connects \in Conn0
    BY Numbers, Zenon DEF Init, HttpFields, HttpStates, HubStates
  <2>2. hub \in HubFields
    BY NoAwait, Numbers, Zenon DEF Init, HubFields, HubStates
  <2>3. NoFrame \in FrameFields
    BY NoAwait, Numbers, Zenon DEF NoFrame, FrameFields
  <2>4. frame \in [Frames -> FrameFields]
    BY <2>3, Zenon DEF Init
  <2>5. conn \in [Conns -> ConnFields]
    BY Numbers, Zenon DEF Init, ConnFields, Kinds
  <2>6. caller \in [Stops -> CallerFields]
    BY NoAwait, Zenon DEF Init, CallerFields
  <2> QED
    BY <2>1, <2>2, <2>4, <2>5, <2>6, Zenon DEF heap, Heap
<1> HIDE DEF s
<1>3. /\ s.http.state = "Disconnected" /\ s.http.transport = 0 /\ s.connects = 0
      /\ s.hub.state = "Disconnected" /\ ~s.hub.started
      /\ \A f \in Frames : s.frame[f].by = "none" /\ s.frame[f].at = "off" /\ s.frame[f].c = 0
      /\ \A c \in Conns : ~s.conn[c].live /\ s.conn[c].stop = "none"
  BY <1>1 DEF Init, NoFrame
<1>4. Sound(s)
  BY <1>2, <1>3 DEF s, Sound, BoundsInv, StartsInv, FailsInv, Down
<1>5. Held(s) /\ TimerInv(s)
  BY <1>3, Zenon DEF Held, TimerInv, Early, Down
<1> QED
  BY <1>4, <1>5, Zenon DEF LifeInv, Init, s

\* Options and the kind of application never change.
Fixed == skip' = skip /\ reacts' = reacts


\* A step that a method makes does not change the options.
LEMMA BecomesFixed ==
  ASSUME NEW t, Becomes(t)
  PROVE  Fixed
BY Zenon DEF Becomes, Fixed

\* No step changes the options of the connection, nor what the application does.
LEMMA OptionsKept ==
  ASSUME Next
  PROVE  Fixed
<1>1. ASSUME NEW f \in Frames
      PROVE  /\ HttpStartContinues(f) => Fixed
             /\ HttpStartStopped(f) => Fixed
             /\ SendHandshake(f) => Fixed
             /\ HandshakeSent(f) => Fixed
             /\ HandshakeNotSent(f) => Fixed
             /\ HandshakeContinues(f) => Fixed
             /\ HandshakeThrows(f) => Fixed
             /\ HubStarted(f) => Fixed
             /\ HubReconnected(f) => Fixed
             /\ StartRejected(f) => Fixed
             /\ NegotiationFails(f) => Fixed
             /\ RenegotiationAnswered(f) => Fixed
             /\ TransportOpens(f) => Fixed
             /\ TransportOpensClosed(f) => Fixed
             /\ TransportFails(f) => Fixed
             /\ DelayElapses(f) => Fixed
  BY BecomesFixed, Zenon
     DEF HttpStartContinues, HttpStartStopped, SendHandshake, HandshakeSent, HandshakeNotSent,
         HandshakeContinues, HandshakeThrows, HubStarted, HubReconnected, StartRejected,
         NegotiationFails, RenegotiationAnswered, TransportOpens, TransportOpensClosed,
         TransportFails, DelayElapses
<1>2. ASSUME NEW f \in Frames, NEW k \in Kinds
      PROVE  /\ NegotiationAnswered(f, k) => Fixed
             /\ TransportFallsBack(f, k) => Fixed
  BY BecomesFixed, Zenon DEF NegotiationAnswered, TransportFallsBack
<1>3. ASSUME NEW f \in Frames, NEW retry \in BOOLEAN, NEW act \in Acts
      PROVE  ReconnectRejected(f, retry, act) => Fixed
  BY BecomesFixed, Zenon DEF ReconnectRejected
<1>4. ASSUME NEW c \in Conns
      PROVE  /\ TransportStopped(c) => Fixed
             /\ StopCompletes(c) => Fixed
  BY BecomesFixed, Zenon DEF TransportStopped, StopCompletes
<1>5. ASSUME NEW c \in Conns, NEW retry \in BOOLEAN, NEW act \in Acts
      PROVE  /\ StopTransport(c, retry, act) => Fixed
             /\ PollingStops(c, retry, act) => Fixed
             /\ TransportCloses(c, retry, act) => Fixed
             /\ HandshakeRefused(c, retry, act) => Fixed
             /\ \A what \in {"other", "bad", "reconnect", "close"} :
                  DataArrives(c, what, retry, act) => Fixed
  BY BecomesFixed, Zenon
     DEF StopTransport, PollingStops, TransportCloses, HandshakeRefused, DataArrives
<1>6. ASSUME NEW u \in Stops
      PROVE  /\ StopContinues(u) => Fixed
             /\ StopReturns(u) => Fixed
             /\ \A act \in Acts : Stop(u, act) => Fixed
  BY BecomesFixed, Zenon DEF StopContinues, StopReturns, Stop
<1>7. /\ ServerTimeout => Fixed
      /\ PingFires => Fixed
      /\ \A ok \in BOOLEAN : PingAnswered(ok) => Fixed
      /\ Start => Fixed
  BY BecomesFixed, Zenon DEF ServerTimeout, PingFires, PingAnswered, Start
<1>8. CASE Continue
  BY <1>1, <1>3, <1>4, <1>5, <1>6, <1>8, Zenon DEF Continue
<1>9. CASE Answer
  BY <1>1, <1>2, <1>5, <1>9, Zenon DEF Answer
<1>10. CASE Event
  BY <1>1, <1>5, <1>7, <1>10, Zenon DEF Event
<1> QED
  BY <1>6, <1>7, <1>8, <1>9, <1>10, Zenon DEF Next

SetHttp(s, a) == [s EXCEPT !.http = a]


SetConn(s, c, r) == [s EXCEPT !.conn = [s.conn EXCEPT ![c] = r]]


\* The fields of a heap have their types.
LEMMA Parts ==
  ASSUME NEW s \in Heap
  PROVE  /\ s = [http |-> s.http, hub |-> s.hub, frame |-> s.frame, conn |-> s.conn,
                 connects |-> s.connects, caller |-> s.caller]
         /\ s.http \in HttpFields /\ s.hub \in HubFields /\ s.frame \in [Frames -> FrameFields]
         /\ s.conn \in [Conns -> ConnFields] /\ s.connects \in Conn0
         /\ s.caller \in [Stops -> CallerFields]
  BY Zenon DEF Heap

\* What the changes change, and what not.
LEMMA SetHttpEffect ==
  ASSUME NEW s \in Heap, NEW a \in HttpFields, NEW t, t = SetHttp(s, a)
  PROVE  /\ t \in Heap /\ t.http = a /\ t.hub = s.hub /\ t.frame = s.frame /\ t.conn = s.conn
         /\ t.connects = s.connects /\ t.caller = s.caller
  BY Zenon DEF Heap, SetHttp

\* The fields of one start of the HttpConnection are replaced.
LEMMA SetConnEffect ==
  ASSUME NEW s \in Heap, NEW c \in Conns, NEW r \in ConnFields, NEW t, t = SetConn(s, c, r)
  PROVE  /\ t \in Heap /\ t.http = s.http /\ t.hub = s.hub /\ t.frame = s.frame
         /\ t.connects = s.connects /\ t.caller = s.caller
         /\ t.conn[c] = r /\ \A d \in Conns : d # c => t.conn[d] = s.conn[d]
  BY Zenon DEF Heap, SetConn

\* The HttpConnection is stopped, or was stopped before.
Halts(s, t) ==
  /\ Down(t) /\ t.connects = s.connects /\ t.http.transport = s.http.transport
  /\ \A c \in Conns : t.conn[c].live = s.conn[c].live
  /\ Down(s) => /\ t.http.state = s.http.state
                /\ \A c \in Conns : t.conn[c].stop = s.conn[c].stop
  /\ ~Down(s) => /\ t.http.state = "Disconnecting" /\ t.conn[s.connects].stop = "awaitStart"
                 /\ \A c \in Conns : c # s.connects => t.conn[c].stop = s.conn[c].stop


\* HttpConnection.stop begins to stop a connection that is not down, and touches no
\* frame and no field of the HubConnection.
LEMMA HttpStopFacts ==
  /\ \A s, t :
       Sound(s) /\ t = httpStop(s) =>
         Sound(t) /\ Halts(s, t) /\ t.frame = s.frame /\ t.hub = s.hub
\* HttpConnection.stop, up to its first await.
<1>HttpStopEffect.
  ASSUME NEW s, s \in Heap, BoundsInv(s), NEW t, t = httpStop(s)
  PROVE  /\ t \in Heap /\ t.hub = s.hub /\ t.frame = s.frame /\ t.connects = s.connects
         /\ t.caller = s.caller /\ Down(t)
         /\ t.http.transport = s.http.transport
         /\ t.http.inherentKeepAlive = s.http.inherentKeepAlive
         /\ Down(s) => t = s
         /\ ~Down(s) => /\ t.http.state = "Disconnecting" /\ t.http.stopPromise = s.connects
                        /\ s.connects \in Conns
                        /\ t.conn[s.connects].live = s.conn[s.connects].live
                        /\ t.conn[s.connects].stop = "awaitStart"
                        /\ \A d \in Conns : d # s.connects => t.conn[d] = s.conn[d]
  <2> USE <1>HttpStopEffect
  <2>1. CASE Down(s)
    <3>1. t = s
      BY <2>1, Zenon DEF httpStop, Down
    <3> QED
      BY <2>1, <3>1, Zenon DEF Down
  <2>2. CASE ~Down(s)
    <3> DEFINE n == s.connects
               a == [s.http EXCEPT !.state = "Disconnecting", !.stopPromise = n]
               r == [s.conn[n] EXCEPT !.stop = "awaitStart"]
               u == SetHttp(s, a)
    <3>1. n \in Conns /\ n \in Conn0
      BY <2>2, Parts, Numbers, Zenon DEF BoundsInv, Down
    <3>2. s.http \in HttpFields /\ s.conn[n] \in ConnFields
      BY <3>1, Parts, Zenon
    <3>3. /\ a \in HttpFields /\ a.state = "Disconnecting" /\ a.stopPromise = n
          /\ a.transport = s.http.transport /\ a.inherentKeepAlive = s.http.inherentKeepAlive
      BY <3>1, <3>2, Zenon DEF HttpFields, HttpStates, HubStates
    <3>4. r \in ConnFields /\ r.live = s.conn[n].live /\ r.stop = "awaitStart"
      BY <3>2, Zenon DEF ConnFields
    <3>5. t = SetConn(u, n, r)
      BY <2>2, Parts, Zenon DEF httpStop, Down, SetHttp, SetConn
    <3> HIDE DEF a, r
    <3>6. /\ u \in Heap /\ u.http = a /\ u.hub = s.hub /\ u.frame = s.frame /\ u.conn = s.conn
          /\ u.connects = s.connects /\ u.caller = s.caller
      BY <3>3, SetHttpEffect
    <3> HIDE DEF u
    <3>7. /\ t \in Heap /\ t.http = a /\ t.hub = s.hub /\ t.frame = s.frame
          /\ t.connects = s.connects /\ t.caller = s.caller
          /\ t.conn[n] = r /\ \A d \in Conns : d # n => t.conn[d] = s.conn[d]
      BY <3>1, <3>4, <3>5, <3>6, SetConnEffect
    <3> QED
      BY <2>2, <3>1, <3>3, <3>4, <3>7, Zenon DEF Down
  <2> QED
    BY <2>1, <2>2, Zenon
<1>HttpStopSound.
  ASSUME NEW s, Sound(s), NEW t, t = httpStop(s)
  PROVE  Sound(t)
  <2> USE <1>HttpStopSound
  <2>1. /\ t \in Heap /\ t.hub = s.hub /\ t.frame = s.frame /\ t.connects = s.connects /\ Down(t)
        /\ Down(s) => t = s
        /\ ~Down(s) => t.http.state = "Disconnecting" /\ t.http.stopPromise = s.connects
    BY <1>HttpStopEffect DEF Sound
  <2>2. BoundsInv(t)
    BY <2>1, Zenon DEF Sound, BoundsInv, Down
  <2>3. StartsInv(t)
    BY <2>1 DEF Sound, StartsInv
  <2>4. FailsInv(t)
    BY <2>1, Zenon DEF FailsInv, Down
  <2> QED
    BY <2>1, <2>2, <2>3, <2>4, Zenon DEF Sound
<1>HttpStopHalts.
  ASSUME NEW s, Sound(s), NEW t, t = httpStop(s)
  PROVE  Sound(t) /\ Halts(s, t) /\ t.frame = s.frame /\ t.hub = s.hub
  <2> USE <1>HttpStopHalts
  <2>1. s \in Heap /\ BoundsInv(s)
    BY Zenon DEF Sound
  <2>2. /\ t.hub = s.hub /\ t.frame = s.frame /\ t.connects = s.connects
        /\ Down(t) /\ t.http.transport = s.http.transport
        /\ Down(s) => t = s
        /\ ~Down(s) => /\ t.http.state = "Disconnecting"
                       /\ s.connects \in Conns
                       /\ t.conn[s.connects].live = s.conn[s.connects].live
                       /\ t.conn[s.connects].stop = "awaitStart"
                       /\ \A d \in Conns : d # s.connects => t.conn[d] = s.conn[d]
    BY <2>1, <1>HttpStopEffect
  <2>3. Halts(s, t)
    <3>1. CASE Down(s)
      BY <2>2, <3>1, Zenon DEF Halts
    <3>2. CASE ~Down(s)
      BY <2>2, <3>2, Zenon DEF Halts
    <3> QED
      BY <3>1, <3>2, Zenon
  <2>4. Sound(t)
    BY <1>HttpStopSound, Zenon
  <2> QED
    BY <2>2, <2>3, <2>4, Zenon
<1> QED
  BY <1>HttpStopHalts, Zenon

SetHub(s, b) == [s EXCEPT !.hub = b]


SetFrame(s, f, r) == [s EXCEPT !.frame = [s.frame EXCEPT ![f] = r]]


SetCount(s, n) == [s EXCEPT !.connects = n]


\* The fields of the HubConnection are replaced.
LEMMA SetHubEffect ==
  ASSUME NEW s \in Heap, NEW b \in HubFields, NEW t, t = SetHub(s, b)
  PROVE  /\ t \in Heap /\ t.http = s.http /\ t.hub = b /\ t.frame = s.frame /\ t.conn = s.conn
         /\ t.connects = s.connects /\ t.caller = s.caller
  BY Zenon DEF Heap, SetHub

\* One frame is replaced.
LEMMA SetFrameEffect ==
  ASSUME NEW s \in Heap, NEW f \in Frames, NEW r \in FrameFields, NEW t, t = SetFrame(s, f, r)
  PROVE  /\ t \in Heap /\ t.http = s.http /\ t.hub = s.hub /\ t.conn = s.conn
         /\ t.connects = s.connects /\ t.caller = s.caller
         /\ t.frame[f] = r /\ \A g \in Frames : g # f => t.frame[g] = s.frame[g]
  BY Zenon DEF Heap, SetFrame

\* The number of starts changes.
LEMMA SetCountEffect ==
  ASSUME NEW s \in Heap, NEW n \in Conn0, NEW t, t = SetCount(s, n)
  PROVE  /\ t \in Heap /\ t.http = s.http /\ t.hub = s.hub /\ t.frame = s.frame /\ t.conn = s.conn
         /\ t.connects = n /\ t.caller = s.caller
  BY Zenon DEF Heap, SetCount

\* Sound is about the states, the number of starts and where the frames are.
LEMMA SoundKept ==
  ASSUME NEW s, NEW t, Sound(s), t \in Heap, t.connects = s.connects,
         t.http.state = s.http.state, t.http.stopPromise = s.http.stopPromise,
         t.hub.state = s.hub.state, t.hub.started = s.hub.started,
         \A f \in Frames : /\ t.frame[f].by = s.frame[f].by /\ t.frame[f].at = s.frame[f].at
                           /\ t.frame[f].c = s.frame[f].c
  PROVE  Sound(t)
  BY DEF Sound, BoundsInv, StartsInv, FailsInv, Down

\* reconnect: the state, then a frame for the loop.
Reconnecting(s) == SetHub(s, [s.hub EXCEPT !.state = "Reconnecting"])


\* The HubConnection changes its state, not by a start.
LEMMA HubSound ==
  ASSUME NEW s, NEW t, NEW b \in HubFields, Sound(s), t = SetHub(s, b),
         b.started = s.hub.started,
         b.state \in {s.hub.state, "Disconnecting", "Reconnecting", "Connected"}
  PROVE  Sound(t)
<1>1. s \in Heap
  BY Zenon DEF Sound
<1>2. t \in Heap /\ t.http = s.http /\ t.hub = b /\ t.frame = s.frame /\ t.connects = s.connects
  BY <1>1, SetHubEffect
<1>3. BoundsInv(t) /\ FailsInv(t)
  BY <1>2, Zenon DEF Sound, BoundsInv, FailsInv, Down
<1>4. StartsInv(t)
  BY <1>2 DEF Sound, StartsInv
<1> QED
  BY <1>2, <1>3, <1>4, Zenon DEF Sound

\* startInternal of the HubConnection first resets what the last start left.
Fresh(s, f) ==
  [s EXCEPT !.hub.stopDuringStart = FALSE, !.hub.gotHandshake = FALSE, !.hub.resolver = f,
            !.frame[f].handshake = "pending"]


\* A call of start takes a frame that is free.
LEMMA NewFrameFree ==
  ASSUME NEW s, FreeFrames(s) # {}
  PROVE  NewFrame(s) \in Frames /\ s.frame[NewFrame(s)].at = "off"
  BY Zenon DEF FreeFrames, NewFrame

\* Its state and what it has started are as before.
HubStep(s, t) ==
  /\ t.http = s.http /\ t.frame = s.frame /\ t.conn = s.conn /\ t.connects = s.connects
  /\ t.hub.state = s.hub.state


\* A change of the timers, flags or resolver of the HubConnection is a HubStep.
LEMMA HubStepEffect ==
  ASSUME NEW s, Sound(s), NEW b \in HubFields, b.state = s.hub.state, b.started = s.hub.started,
         NEW t, t = SetHub(s, b)
  PROVE  Sound(t) /\ HubStep(s, t) /\ t.hub = b
<1>1. s \in Heap
  BY Zenon DEF Sound
<1>2. /\ t.http = s.http /\ t.frame = s.frame /\ t.conn = s.conn /\ t.connects = s.connects
      /\ t.hub = b
  BY <1>1, SetHubEffect
<1>3. Sound(t)
  BY HubSound, Zenon
<1> QED
  BY <1>2, <1>3, Zenon DEF HubStep

\* A step from s to t keeps the invariants.
Fine(s, t) == Sound(t) /\ (~reacts /\ Held(s) /\ TimerInv(s) => Held(t) /\ TimerInv(t))


\* No frame begins to connect.
Quieter(s, t) ==
  \A f \in Frames :
    \/ t.frame[f].at \notin Early
    \/ /\ t.frame[f].c = s.frame[f].c
       /\ t.frame[f].at = s.frame[f].at \/ s.frame[f].at \in Early \ {"negotiate"}


\* The parts of the heap that Held is about.
SameHold(s, t) ==
  /\ t.http.state = s.http.state /\ t.http.transport = s.http.transport
  /\ t.connects = s.connects
  /\ \A c \in Conns : t.conn[c].live = s.conn[c].live /\ t.conn[c].stop = s.conn[c].stop


\* Held is kept while the connection stays and no frame comes closer to connecting.
LEMMA HeldKept ==
  ASSUME NEW s, NEW t, Held(s), SameHold(s, t), Quieter(s, t)
  PROVE  Held(t)
BY DEF Held, SameHold, Quieter, Down

\* A step that changes the fields of the HubConnection only.
LEMMA HubStepFine ==
  ASSUME NEW s, NEW t, Sound(t), HubStep(s, t), s.hub.timeout => t.hub.timeout
  PROVE  Fine(s, t)
<1>1. SameHold(s, t) /\ Quieter(s, t)
  BY Zenon DEF HubStep, SameHold, Quieter
<1>2. TimerInv(s) => TimerInv(t)
  BY Zenon DEF HubStep, TimerInv, Settling, Down
<1> QED
  BY <1>1, <1>2, HeldKept, Zenon DEF Fine

\* What a method leaves is the next heap.
LEMMA BecomesHeap ==
  ASSUME NEW s \in Heap, Becomes(s)
  PROVE  heap' = s
BY Parts, Zenon DEF Becomes, heap

\* So an action keeps the invariants if the method it calls does.
LEMMA BecomesFine ==
  ASSUME NEW t, Becomes(t), Fine(heap, t)
  PROVE  Fine(heap, heap')
<1>1. t \in Heap
  BY Zenon DEF Fine, Sound
<1>2. heap' = t
  BY <1>1, BecomesHeap, Zenon
<1> QED
  BY <1>2, Zenon

\* No stop of the HttpConnection and no answered handshake goes on before the events.
Rest(s) ==
  /\ \A c \in Conns : s.conn[c].stop \notin {"awaitStart", "tail"}
  /\ \A f \in Frames : ~Settling(s, f)


-----------------------------------------------------------------------------
(* HubConnection.start and HttpConnection.start.                           *)

\* start, and startInternal for it and for an attempt to reconnect.
LEMMA StartFacts ==
  /\ \A s :
       Sound(s) /\ MayStart(s) =>
         Sound(start(s))
  /\
       Quiet /\ Held(heap) /\ http.state = "Disconnected" =>
         Rest(heap)
  /\ \A s, t : \A f \in Frames :
       Sound(s) /\ s.connects < MaxConnects /\ s.hub.state # "Connected" /\
       (~reacts /\ Held(s) /\ s.http.state = "Disconnected" => Rest(s)) /\ t = startInternal(s, f) =>
         Fine(s, t)
  /\
       Sound(heap) /\ Start =>
         Fine(heap, heap')
\* HttpConnection.start refuses, or begins the next start.
<1>HttpStartEffect.
  ASSUME NEW s \in Heap, NEW f \in Frames, s.connects < MaxConnects, NEW t, t = httpStart(s, f)
  PROVE  /\ t \in Heap /\ t.hub = s.hub /\ t.conn = s.conn
         /\ \A g \in Frames : g # f => t.frame[g] = s.frame[g]
         /\ t.frame[f].by = s.frame[f].by /\ t.frame[f].handshake = s.frame[f].handshake
         /\ s.http.state # "Disconnected" =>
              /\ t.http = s.http /\ t.connects = s.connects
              /\ t.frame[f].at = "rejected" /\ t.frame[f].c = 0
         /\ s.http.state = "Disconnected" =>
              /\ t.connects = s.connects + 1 /\ t.frame[f].c = t.connects
              /\ t.frame[f].at = IF skip THEN "connect" ELSE "negotiate"
              /\ t.http.state = "Connecting"
              /\ t.http.transport = IF skip THEN t.connects ELSE s.http.transport
  <2> USE <1>HttpStartEffect
  <2> DEFINE n == s.connects + 1
             at == IF skip THEN "connect" ELSE "negotiate"
             tr == IF skip THEN n ELSE s.http.transport
             a == [s.http EXCEPT !.state = "Connecting", !.transport = tr]
             r == [s.frame[f] EXCEPT !.c = n, !.at = at]
             q == [s.frame[f] EXCEPT !.at = "rejected", !.c = 0]
  <2>1. n \in Conn0 /\ 0 \in Conn0
    BY Parts, Numbers, ConnectsAssumption DEF Conn0
  <2>2. s.frame[f] \in FrameFields /\ s.http \in HttpFields
    BY Parts, Zenon
  <2>3. /\ q \in FrameFields /\ q.at = "rejected" /\ q.c = 0 /\ q.by = s.frame[f].by
        /\ q.handshake = s.frame[f].handshake
    BY <2>1, <2>2, Zenon DEF FrameFields
  <2>4. /\ r \in FrameFields /\ r.at = at /\ r.c = n /\ r.by = s.frame[f].by
        /\ r.handshake = s.frame[f].handshake
    <3> HIDE DEF n
    <3> QED BY <2>1, <2>2, Zenon DEF FrameFields
  <2>5. a \in HttpFields /\ a.state = "Connecting" /\ a.transport = tr
    <3>1. tr \in Conn0
      BY <2>1, <2>2, Zenon DEF HttpFields
    <3> HIDE DEF tr
    <3> QED BY <3>1, <2>2, Zenon DEF HttpFields, HttpStates, HubStates
  <2>6. CASE s.http.state # "Disconnected"
    <3>1. t = SetFrame(s, f, q)
      BY <2>6, Parts, Zenon DEF httpStart, SetFrame
    <3> HIDE DEF q
    <3> QED BY <2>6, <2>3, <3>1, SetFrameEffect
  <2>7. CASE s.http.state = "Disconnected"
    <3> DEFINE u == SetCount(s, n)
               v == SetHttp(u, a)
    <3>1. t = SetFrame(v, f, r)
      <4>1. t = [s EXCEPT !.connects = n, !.http.state = "Connecting", !.http.transport = tr,
                          !.frame[f].c = n, !.frame[f].at = at]
        BY <2>7, Zenon DEF httpStart
      <4> HIDE DEF n, tr, at
      <4>2. v = [s EXCEPT !.connects = n, !.http.state = "Connecting", !.http.transport = tr]
        BY Parts, Zenon DEF SetHttp, SetCount
      <4>3. t = [v EXCEPT !.frame[f].c = n, !.frame[f].at = at]
        BY <4>1, <4>2, Zenon
      <4>4. v \in Heap /\ v.frame = s.frame
        <5> HIDE DEF a
        <5>1. u \in Heap /\ u.frame = s.frame
          BY <2>1, SetCountEffect
        <5> HIDE DEF u
        <5> QED BY <2>5, <5>1, SetHttpEffect
      <4> HIDE DEF v
      <4> QED
        BY <4>3, <4>4, Parts, Zenon DEF SetFrame
    <3> HIDE DEF a, r, n, at, tr
    <3>2. u \in Heap /\ u.hub = s.hub /\ u.frame = s.frame /\ u.conn = s.conn /\ u.connects = n
      BY <2>1, SetCountEffect
    <3> HIDE DEF u
    <3>3. /\ v \in Heap /\ v.http = a /\ v.hub = s.hub /\ v.frame = s.frame /\ v.conn = s.conn
          /\ v.connects = n
      BY <2>5, <3>2, SetHttpEffect
    <3> HIDE DEF v
    <3>4. /\ t \in Heap /\ t.http = a /\ t.hub = s.hub /\ t.conn = s.conn /\ t.connects = n
          /\ t.frame[f] = r /\ \A g \in Frames : g # f => t.frame[g] = s.frame[g]
      BY <2>4, <3>1, <3>3, SetFrameEffect
    <3> QED
      BY <3>4, <2>4, <2>5, <2>7, Zenon DEF n, at, tr
  <2> QED
    BY <2>6, <2>7, Zenon
<1>HttpStartSound.
  ASSUME NEW s, Sound(s), NEW f \in Frames, s.connects < MaxConnects, NEW t, t = httpStart(s, f)
  PROVE  Sound(t)
  <2> USE <1>HttpStartSound
  <2>1. s \in Heap /\ s.connects \in Nat /\ \A g \in Frames : s.frame[g].c \in Nat
    BY Parts, ConnectsAssumption DEF Sound, Conn0, FrameFields
  <2>2. CASE s.http.state # "Disconnected"
    <3>1. /\ t \in Heap /\ t.hub = s.hub /\ t.http = s.http /\ t.connects = s.connects
          /\ \A g \in Frames : g # f => t.frame[g] = s.frame[g]
          /\ t.frame[f].by = s.frame[f].by /\ t.frame[f].at = "rejected" /\ t.frame[f].c = 0
      BY <2>1, <2>2, <1>HttpStartEffect
    <3>2. BoundsInv(t)
      BY <2>1, <3>1 DEF Sound, BoundsInv
    <3>3. StartsInv(t)
      BY <3>1 DEF Sound, StartsInv
    <3>4. FailsInv(t)
      BY <2>2, <3>1 DEF Sound, BoundsInv, FailsInv, Down
    <3> QED
      BY <3>1, <3>2, <3>3, <3>4, Zenon DEF Sound
  <2>3. CASE s.http.state = "Disconnected"
    <3>1. /\ t \in Heap /\ t.hub = s.hub /\ t.connects = s.connects + 1 /\ t.http.state = "Connecting"
          /\ \A g \in Frames : g # f => t.frame[g] = s.frame[g]
          /\ t.frame[f].by = s.frame[f].by /\ t.frame[f].at \in {"connect", "negotiate"}
          /\ t.frame[f].c = t.connects
      BY <2>1, <2>3, <1>HttpStartEffect
    <3>2. BoundsInv(t)
      BY <2>1, <3>1 DEF Sound, BoundsInv
    <3>3. StartsInv(t)
      BY <3>1 DEF Sound, StartsInv
    <3>4. FailsInv(t)
      <4>1. \A g \in Frames : g # f => t.frame[g].c # t.connects
        BY <2>1, <3>1 DEF Sound, BoundsInv
      <4> QED
        BY <3>1, <4>1, Zenon DEF FailsInv
    <3> QED
      BY <3>1, <3>2, <3>3, <3>4, Zenon DEF Sound
  <2> QED
    BY <2>2, <2>3, Zenon
<1>FreshEffect.
  ASSUME NEW s \in Heap, NEW f \in Frames, NEW t, t = Fresh(s, f)
  PROVE  /\ t \in Heap /\ t.http = s.http /\ t.conn = s.conn /\ t.connects = s.connects
         /\ t.hub.state = s.hub.state /\ t.hub.started = s.hub.started
         /\ t.hub.timeout = s.hub.timeout
         /\ \A g \in Frames : g # f => t.frame[g] = s.frame[g]
         /\ t.frame[f].by = s.frame[f].by /\ t.frame[f].at = s.frame[f].at
         /\ t.frame[f].c = s.frame[f].c /\ t.frame[f].handshake = "pending"
  <2> USE <1>FreshEffect
  <2> DEFINE b == [s.hub EXCEPT !.stopDuringStart = FALSE, !.gotHandshake = FALSE, !.resolver = f]
             r == [s.frame[f] EXCEPT !.handshake = "pending"]
             u == SetHub(s, b)
  <2>1. s.frame[f] \in FrameFields /\ s.hub \in HubFields
    BY Parts, Zenon
  <2>2. /\ b \in HubFields /\ b.state = s.hub.state /\ b.started = s.hub.started
        /\ b.timeout = s.hub.timeout
    BY <2>1, Zenon DEF HubFields
  <2>3. /\ r \in FrameFields /\ r.by = s.frame[f].by /\ r.at = s.frame[f].at /\ r.c = s.frame[f].c
        /\ r.handshake = "pending"
    BY <2>1, Zenon DEF FrameFields
  <2>4. t = SetFrame(u, f, r)
    BY Parts, Zenon DEF Fresh, SetHub, SetFrame
  <2> HIDE DEF b, r
  <2>5. /\ u \in Heap /\ u.http = s.http /\ u.hub = b /\ u.frame = s.frame /\ u.conn = s.conn
        /\ u.connects = s.connects
    BY <2>2, SetHubEffect
  <2> HIDE DEF u
  <2> QED
    BY <2>2, <2>3, <2>4, <2>5, SetFrameEffect
<1>StartInternalSound.
  ASSUME NEW s, Sound(s), NEW f \in Frames, s.connects < MaxConnects
  PROVE  Sound(startInternal(s, f))
  <2> USE <1>StartInternalSound
  <2> DEFINE u == Fresh(s, f)
  <2>1. startInternal(s, f) = httpStart(u, f)
    BY Zenon DEF startInternal, Fresh
  <2>2. /\ u \in Heap /\ u.http = s.http /\ u.connects = s.connects
        /\ u.hub.state = s.hub.state /\ u.hub.started = s.hub.started
        /\ \A g \in Frames : /\ u.frame[g].by = s.frame[g].by /\ u.frame[g].at = s.frame[g].at
                            /\ u.frame[g].c = s.frame[g].c
    BY <1>FreshEffect DEF Sound
  <2> HIDE DEF u
  <2>3. Sound(u)
    BY <2>2, SoundKept, Zenon
  <2> QED
    BY <2>1, <2>2, <2>3, <1>HttpStartSound, Zenon
\* start is refused, or it is startInternal in a frame of its own.
<1>StartCases.
  ASSUME NEW s, Sound(s), MayStart(s)
  PROVE  \/ \E b \in HubFields : /\ b.state = s.hub.state /\ b.started = s.hub.started
                                 /\ b.timeout = s.hub.timeout
                                 /\ start(s) = SetHub(s, b)
         \/ \E f \in Frames : \E v :
              /\ Sound(v) /\ v.http = s.http /\ v.conn = s.conn /\ v.connects = s.connects
              /\ v.hub.state = "Connecting" /\ v.hub.timeout = s.hub.timeout
              /\ \A g \in Frames : /\ v.frame[g].at = s.frame[g].at /\ v.frame[g].c = s.frame[g].c
                                   /\ v.frame[g].handshake = s.frame[g].handshake
              /\ start(s) = startInternal(v, f)
  <2> USE <1>StartCases
  <2>1. s \in Heap /\ s.hub \in HubFields /\ s.connects < MaxConnects
    BY Parts, Zenon DEF Sound, MayStart
  <2>2. CASE s.hub.state # "Disconnected"
    <3> DEFINE b == [s.hub EXCEPT !.startPromise = 0]
    <3>1. start(s) = SetHub(s, b)
      BY <2>1, <2>2, Parts, Zenon DEF start, SetHub
    <3>2. /\ b \in HubFields /\ b.state = s.hub.state /\ b.started = s.hub.started
          /\ b.timeout = s.hub.timeout
      BY <2>1, Zenon DEF HubFields
    <3> HIDE DEF b
    <3> QED
      BY <3>1, <3>2, Zenon
  <2>3. CASE s.hub.state = "Disconnected"
    <3> DEFINE f == NewFrame(s)
               b == [s.hub EXCEPT !.state = "Connecting", !.startPromise = f]
               r == [s.frame[f] EXCEPT !.by = "start"]
               u == SetHub(s, b)
               v == SetFrame(u, f, r)
    <3>1. f \in Frames /\ s.frame[f].at = "off"
      BY NewFrameFree, Zenon DEF MayStart
    <3> HIDE DEF f
    <3>2. s.frame[f] \in FrameFields
      BY <2>1, <3>1, Parts, Zenon
    <3>3. /\ b \in HubFields /\ b.state = "Connecting" /\ b.started = s.hub.started
          /\ b.timeout = s.hub.timeout
      BY <2>1, <3>1, Zenon DEF HubFields, HubStates
    <3>4. /\ r \in FrameFields /\ r.by = "start" /\ r.at = "off" /\ r.c = s.frame[f].c
          /\ r.at = s.frame[f].at /\ r.handshake = s.frame[f].handshake
      BY <3>1, <3>2, Zenon DEF FrameFields
    <3>5. start(s) = startInternal(v, f)
      <4>1. start(s) = startInternal([s EXCEPT !.hub.state = "Connecting", !.hub.startPromise = f,
                                               !.frame[f].by = "start"], f)
        BY <2>3, Zenon DEF start, f
      <4>2. [s EXCEPT !.hub.state = "Connecting", !.hub.startPromise = f, !.frame[f].by = "start"] = v
        BY <2>1, Parts, Zenon DEF SetHub, SetFrame
      <4> QED
        BY <4>1, <4>2, Zenon
    <3> HIDE DEF b, r
    <3>6. /\ u \in Heap /\ u.http = s.http /\ u.hub = b /\ u.frame = s.frame
          /\ u.conn = s.conn /\ u.connects = s.connects
      BY <2>1, <3>3, SetHubEffect
    <3> HIDE DEF u
    <3>7. /\ v \in Heap /\ v.http = s.http /\ v.hub = b /\ v.conn = s.conn /\ v.connects = s.connects
          /\ v.frame[f] = r /\ \A g \in Frames : g # f => v.frame[g] = s.frame[g]
      BY <3>1, <3>4, <3>6, SetFrameEffect
    <3> HIDE DEF v
    <3>8. BoundsInv(v)
      BY <3>4, <3>7, Zenon DEF Sound, BoundsInv
    <3>9. StartsInv(v)
      BY <2>3, <3>1, <3>3, <3>4, <3>7 DEF Sound, StartsInv
    <3>10. FailsInv(v)
      BY <3>4, <3>7, Zenon DEF Sound, FailsInv, Down
    <3>11. Sound(v)
      BY <3>7, <3>8, <3>9, <3>10, Zenon DEF Sound
    <3>12. \A g \in Frames : /\ v.frame[g].at = s.frame[g].at /\ v.frame[g].c = s.frame[g].c
                             /\ v.frame[g].handshake = s.frame[g].handshake
      BY <3>4, <3>7, Zenon
    <3> QED
      BY <3>1, <3>3, <3>5, <3>7, <3>11, <3>12, Zenon
  <2> QED
    BY <2>2, <2>3, Zenon
<1>StartSound.
  ASSUME NEW s, Sound(s), MayStart(s)
  PROVE  Sound(start(s))
  <2> USE <1>StartSound
  <2>1. s.connects < MaxConnects
    BY Zenon DEF MayStart
  <2>2. \/ \E b \in HubFields : /\ b.state = s.hub.state /\ b.started = s.hub.started
                                /\ start(s) = SetHub(s, b)
        \/ \E f \in Frames : \E v : /\ Sound(v) /\ v.connects = s.connects
                                   /\ start(s) = startInternal(v, f)
    BY <1>StartCases, Zenon
  <2> QED
    BY <2>1, <2>2, HubSound, <1>StartInternalSound, Zenon
<1>QuietRest.
  ASSUME Quiet, Held(heap), http.state = "Disconnected"
  PROVE  Rest(heap)
  <2> USE <1>QuietRest
  <2>1. \A c \in Conns : conn[c].stop \notin {"awaitStart", "tail"}
    <3> SUFFICES ASSUME NEW c \in Conns, conn[c].stop \in {"awaitStart", "tail"}
                 PROVE  FALSE
      BY Zenon
    <3>1. ~StopReady(c)
      BY Zenon DEF Quiet
    <3>2. Starting(c)
      BY <3>1, Zenon DEF StopReady
    <3>3. PICK f \in Frames : frame[f].at \in {"negotiate", "renegotiate", "connect", "ok"}
      BY <3>2, Zenon DEF Starting
    <3>4. frame[f].at # "ok"
      BY Zenon DEF Quiet, FrameReady
    <3>5. frame[f].at \in Early => http.state \in {"Connecting", "Disconnecting"}
      BY HeapParts, Zenon DEF Held
    <3> QED
      BY <3>3, <3>4, <3>5, Zenon DEF Early
  <2>2. \A f \in Frames : ~Settling(heap, f)
    BY HeapParts, Zenon DEF Quiet, FrameReady, Settling
  <2> QED
    BY <2>1, <2>2, HeapParts, Zenon DEF Rest
\* HubConnection.startInternal, in an event.
<1>StartInternalFine.
  ASSUME NEW s, Sound(s), NEW f \in Frames, s.connects < MaxConnects, s.hub.state # "Connected",
         ~reacts /\ Held(s) /\ s.http.state = "Disconnected" => Rest(s),
         NEW t, t = startInternal(s, f)
  PROVE  Fine(s, t)
  <2> USE <1>StartInternalFine
  <2> DEFINE u == Fresh(s, f)
  <2>1. t = httpStart(u, f)
    BY Zenon DEF startInternal, Fresh
  <2>2. s \in Heap
    BY Zenon DEF Sound
  <2>3. /\ u \in Heap /\ u.http = s.http /\ u.conn = s.conn /\ u.connects = s.connects
        /\ u.hub.state = s.hub.state /\ u.hub.timeout = s.hub.timeout
        /\ \A g \in Frames : g # f => u.frame[g] = s.frame[g]
    BY <2>2, <1>FreshEffect
  <2> HIDE DEF u
  <2>4. Sound(t)
    BY <1>StartInternalSound, Zenon
  <2>5. CASE s.http.state # "Disconnected"
    <3>1. /\ t.hub = u.hub /\ t.conn = u.conn /\ t.http = u.http /\ t.connects = u.connects
          /\ \A g \in Frames : g # f => t.frame[g] = u.frame[g]
          /\ t.frame[f].at = "rejected"
      BY <2>1, <2>3, <2>5, <1>HttpStartEffect
    <3>2. SameHold(s, t)
      BY <2>3, <3>1, Zenon DEF SameHold
    <3>3. Quieter(s, t)
      BY <2>3, <3>1, Zenon DEF Quieter, Early
    <3>4. \A g \in Frames : Settling(t, g) => Settling(s, g)
      BY <2>3, <3>1 DEF Settling
    <3>5. TimerInv(s) => TimerInv(t)
      BY <2>3, <3>1, <3>4, Zenon DEF TimerInv, Down
    <3> QED
      BY <2>4, <3>2, <3>3, <3>5, HeldKept, Zenon DEF Fine
  <2>6. CASE s.http.state = "Disconnected"
    <3>1. /\ t.hub = u.hub /\ t.conn = u.conn /\ t.connects = u.connects + 1
          /\ \A g \in Frames : g # f => t.frame[g] = u.frame[g]
          /\ t.frame[f].c = t.connects
          /\ t.frame[f].at = IF skip THEN "connect" ELSE "negotiate"
          /\ t.http.state = "Connecting"
          /\ t.http.transport = IF skip THEN t.connects ELSE u.http.transport
      BY <2>1, <2>3, <2>6, <1>HttpStartEffect
    <3>2. SUFFICES ASSUME ~reacts, Held(s)
                   PROVE  Held(t) /\ TimerInv(t)
      BY <2>4, Zenon DEF Fine
    <3>3. Rest(s)
      BY <2>6, <3>2, Zenon
    <3>4. \A c \in Conns : ~t.conn[c].live /\ t.conn[c].stop \notin {"awaitStart", "tail", "transport"}
      BY <2>3, <2>6, <3>1, <3>2, <3>3 DEF Held, Rest
    <3>5. \A g \in Frames : g # f => t.frame[g].at \notin Early /\ ~Settling(t, g)
      BY <2>3, <2>6, <3>1, <3>2, <3>3 DEF Held, Rest, Early, Settling
    <3>6. Held(t)
      <4>1. t.frame[f].at # "negotiate" => t.http.transport = t.connects
        BY <3>1, Zenon
      <4> QED
        BY <3>1, <3>4, <3>5, <4>1 DEF Held
    <3>7. TimerInv(t)
      <4>1. ~Settling(t, f)
        BY <3>1, Zenon DEF Settling
      <4> QED
        BY <2>3, <3>1, <3>5, <4>1, Zenon DEF TimerInv
    <3> QED
      BY <3>6, <3>7, Zenon
  <2> QED
    BY <2>5, <2>6, Zenon
<1>StartFine.
  ASSUME Sound(heap), Start
  PROVE  Fine(heap, heap')
  <2> USE <1>StartFine
  <2> DEFINE s == heap
             t == start(s)
  <2>1. Sound(s) /\ MayStart(s) /\ Becomes(t)
    BY Zenon DEF Start
  <2>2. ~reacts /\ Held(s) /\ s.http.state = "Disconnected" => Rest(s)
    BY <1>QuietRest, HeapParts, Zenon DEF Start
  <2> HIDE DEF s
  <2>3. s.connects < MaxConnects
    BY <2>1, Zenon DEF MayStart
  <2>4. ASSUME NEW b \in HubFields, b.state = s.hub.state, b.started = s.hub.started,
               b.timeout = s.hub.timeout, t = SetHub(s, b)
        PROVE  Fine(s, t)
    <3> HIDE DEF t
    <3>1. Sound(t) /\ HubStep(s, t) /\ t.hub = b
      BY <2>1, <2>4, HubStepEffect, Zenon
    <3> QED
      BY <2>4, <3>1, HubStepFine, Zenon
  <2>5. ASSUME NEW f \in Frames, NEW v,
               Sound(v), v.http = s.http, v.conn = s.conn, v.connects = s.connects,
               v.hub.state = "Connecting", v.hub.timeout = s.hub.timeout,
               \A g \in Frames : /\ v.frame[g].at = s.frame[g].at /\ v.frame[g].c = s.frame[g].c
                                 /\ v.frame[g].handshake = s.frame[g].handshake,
               t = startInternal(v, f)
        PROVE  Fine(s, t)
    <3>1. SameHold(s, v) /\ SameHold(v, s) /\ Quieter(s, v) /\ Quieter(v, s)
      BY <2>5, Zenon DEF SameHold, Quieter
    <3>2. Held(s) <=> Held(v)
      BY <3>1, HeldKept, Zenon
    <3>3. \A g \in Frames : Settling(v, g) <=> Settling(s, g)
      BY <2>5, Zenon DEF Settling
    <3>4. TimerInv(s) => TimerInv(v)
      BY <2>5, <3>3, Zenon DEF TimerInv, Down
    <3>5. ~reacts /\ Held(v) /\ v.http.state = "Disconnected" => Rest(v)
      BY <2>2, <2>5, <3>2, <3>3, Zenon DEF Rest
    <3>6. Fine(v, t)
      <4> HIDE DEF t
      <4> QED
        BY <2>3, <2>5, <3>5, <1>StartInternalFine, Zenon
    <3> QED
      BY <3>2, <3>4, <3>6, Zenon DEF Fine
  <2>6. Fine(s, t)
    BY <2>1, <2>4, <2>5, <1>StartCases, Zenon
  <2> QED
    BY <2>1, <2>6, BecomesFine, Zenon DEF s
<1> QED
  BY <1>StartSound, <1>QuietRest, <1>StartInternalFine, <1>StartFine, Zenon

\* What HttpConnection.stop returns is a promise that can be awaited.
LEMMA StopAwaits ==
  ASSUME NEW s, s \in Heap, BoundsInv(s)
  PROVE  httpStopAwaits(s) \in Awaits /\ Nothing \in Awaits
<1>1. s.connects \in Conn0 /\ s.http.stopPromise \in Conn0
  BY Parts, Zenon DEF HttpFields
<1>2. Nothing \in Awaits
  BY DEF Awaits
<1>3. \A w \in {"call", "promise"}, c \in Conns : Await(w, c) \in Awaits
  BY DEF Awaits
<1> QED
  BY <1>1, <1>2, <1>3, Numbers, Zenon DEF BoundsInv, httpStopAwaits

SetCaller(s, K) == [s EXCEPT !.caller = K]


\* The callers of stop are replaced.
LEMMA SetCallerEffect ==
  ASSUME NEW s \in Heap, NEW K \in [Stops -> CallerFields], NEW t, t = SetCaller(s, K)
  PROVE  /\ t \in Heap /\ t.http = s.http /\ t.hub = s.hub /\ t.frame = s.frame /\ t.conn = s.conn
         /\ t.connects = s.connects /\ t.caller = K
  BY Zenon DEF Heap, SetCaller

\* The frame that ends is free, and what awaited it goes on.
LEMMA EndEffect ==
  ASSUME NEW s \in Heap, NEW f \in Frames, NEW t, t = End(s, f)
  PROVE  /\ t \in Heap /\ t.http = s.http /\ t.conn = s.conn /\ t.connects = s.connects
         /\ t.hub.state = s.hub.state /\ t.hub.started = s.hub.started
         /\ t.hub.timeout = s.hub.timeout /\ t.hub.delay = s.hub.delay
         /\ t.frame[f] = NoFrame /\ \A g \in Frames : g # f => t.frame[g] = s.frame[g]
<1> DEFINE p == IF s.hub.startPromise = f THEN 0 ELSE s.hub.startPromise
           q == IF s.hub.resolver = f THEN 0 ELSE s.hub.resolver
           b == [s.hub EXCEPT !.startPromise = p, !.resolver = q]
           K == [u \in Stops |-> IF s.caller[u].f = f THEN [s.caller[u] EXCEPT !.f = 0]
                                 ELSE s.caller[u]]
           u == SetFrame(s, f, NoFrame)
           v == SetHub(u, b)
<1>1. s.hub \in HubFields /\ s.caller \in [Stops -> CallerFields]
  BY Parts, Zenon
<1>2. NoFrame \in FrameFields
  BY Numbers DEF NoFrame, FrameFields, Awaits
<1>3. /\ b \in HubFields /\ b.state = s.hub.state /\ b.started = s.hub.started
      /\ b.timeout = s.hub.timeout /\ b.delay = s.hub.delay
  <2>1. p \in Frames \cup {0} /\ q \in Frames \cup {0}
    BY <1>1, Zenon DEF HubFields
  <2> HIDE DEF p, q
  <2> QED BY <1>1, <2>1, Zenon DEF HubFields
<1>4. K \in [Stops -> CallerFields]
  <2>1. \A x \in Stops : s.caller[x] \in CallerFields /\ [s.caller[x] EXCEPT !.f = 0] \in CallerFields
    BY <1>1, Zenon DEF CallerFields
  <2> QED BY <2>1, Zenon
<1>5. t = SetCaller(v, K)
  BY Parts, Zenon DEF End, SetFrame, SetHub, SetCaller
<1> HIDE DEF b, K
<1>6. /\ u \in Heap /\ u.http = s.http /\ u.hub = s.hub /\ u.conn = s.conn /\ u.connects = s.connects
      /\ u.frame[f] = NoFrame /\ \A g \in Frames : g # f => u.frame[g] = s.frame[g]
  BY <1>2, SetFrameEffect
<1> HIDE DEF u
<1>7. /\ v \in Heap /\ v.http = s.http /\ v.hub = b /\ v.conn = s.conn /\ v.connects = s.connects
      /\ v.frame = u.frame
  BY <1>3, <1>6, SetHubEffect
<1> HIDE DEF v
<1> QED
  BY <1>3, <1>4, <1>5, <1>6, <1>7, SetCallerEffect

\* A frame may end unless it is the start of a HubConnection that is Connecting.
LEMMA EndSound ==
  ASSUME NEW s, Sound(s), NEW f \in Frames, NEW t, t = End(s, f),
         s.frame[f].by = "start" => s.hub.state # "Connecting"
  PROVE  Sound(t)
<1>1. /\ t \in Heap /\ t.http = s.http /\ t.connects = s.connects
      /\ t.hub.state = s.hub.state /\ t.hub.started = s.hub.started
      /\ t.frame[f] = NoFrame /\ \A g \in Frames : g # f => t.frame[g] = s.frame[g]
  BY EndEffect DEF Sound
<1>2. NoFrame.by = "none" /\ NoFrame.at = "off" /\ NoFrame.c = 0
  BY Zenon DEF NoFrame
<1>3. t.connects \in Nat
  BY <1>1, Parts DEF Conn0
<1>4. BoundsInv(t)
  BY <1>1, <1>2, <1>3 DEF Sound, BoundsInv
<1>5. StartsInv(t)
  BY <1>1, <1>2 DEF Sound, StartsInv
<1>6. FailsInv(t)
  BY <1>1, <1>2 DEF Sound, FailsInv, Down
<1> QED
  BY <1>1, <1>4, <1>5, <1>6, Zenon DEF Sound

\* completeClose, up to the callbacks of the application.
Closed(s) == SetHub(s, [s.hub EXCEPT !.state = "Disconnected", !.started = FALSE])


\* completeClose of a started HubConnection makes it Disconnected.
LEMMA ClosedEffect ==
  ASSUME NEW s \in Heap, NEW t, t = Closed(s)
  PROVE  /\ t \in Heap /\ t.http = s.http /\ t.conn = s.conn /\ t.connects = s.connects
         /\ t.frame = s.frame /\ t.hub.state = "Disconnected" /\ ~t.hub.started
         /\ t.hub.timeout = s.hub.timeout
<1> DEFINE b == [s.hub EXCEPT !.state = "Disconnected", !.started = FALSE]
<1>1. s.hub \in HubFields
  BY Parts, Zenon
<1>2. b \in HubFields /\ b.state = "Disconnected" /\ ~b.started /\ b.timeout = s.hub.timeout
  BY <1>1, Zenon DEF HubFields, HubStates
<1>3. t = SetHub(s, b)
  BY Zenon DEF Closed
<1> HIDE DEF b
<1> QED
  BY <1>2, <1>3, SetHubEffect

\* completeClose keeps the types and bounds.
LEMMA CompleteCloseSound ==
  ASSUME NEW s, Sound(s), NEW act \in BOOLEAN
  PROVE  Sound(completeClose(s, act))
<1>1. CASE ~s.hub.started
  BY <1>1, Zenon DEF completeClose
<1>2. CASE s.hub.started
  <2> DEFINE t == Closed(s)
  <2>1. completeClose(s, act) = IF act /\ MayStart(t) THEN start(t) ELSE t
    <3>1. [s EXCEPT !.hub.state = "Disconnected", !.hub.started = FALSE] = t
      BY Parts, Zenon DEF Sound, Closed, SetHub
    <3> HIDE DEF t
    <3> QED BY <1>2, <3>1 DEF completeClose
  <2>2. /\ t \in Heap /\ t.http = s.http /\ t.connects = s.connects
        /\ t.frame = s.frame /\ t.hub.state = "Disconnected" /\ ~t.hub.started
    BY ClosedEffect, Zenon DEF Sound
  <2> HIDE DEF t
  <2>3. StartsInv(t)
    BY <1>2, <2>2, Zenon DEF Sound, StartsInv
  <2>4. BoundsInv(t) /\ FailsInv(t)
    BY <2>2, Zenon DEF Sound, BoundsInv, FailsInv, Down
  <2>5. Sound(t)
    BY <2>2, <2>3, <2>4, Zenon DEF Sound
  <2> QED
    BY <2>1, <2>5, StartFacts, Zenon
<1> QED
  BY <1>1, <1>2, Zenon DEF Sound, Heap, HubFields

\* Without a call of start in its callbacks.
LEMMA CompleteCloseEffect ==
  ASSUME NEW s \in Heap, NEW t, t = completeClose(s, FALSE)
  PROVE  /\ t \in Heap /\ t.http = s.http /\ t.conn = s.conn /\ t.connects = s.connects
         /\ t.frame = s.frame /\ t.hub.state \in {s.hub.state, "Disconnected"}
         /\ t.hub.timeout = s.hub.timeout
<1>1. CASE ~s.hub.started
  BY <1>1, Zenon DEF completeClose
<1>2. CASE s.hub.started
  <2>1. t = Closed(s)
    BY <1>2, Parts, Zenon DEF completeClose, Closed, SetHub
  <2> QED
    BY <2>1, ClosedEffect, Zenon
<1> QED
  BY <1>1, <1>2, Zenon

\* The timers are cleared.
LEMMA CleanupEffect ==
  ASSUME NEW s \in Heap, NEW t, t = cleanupTimers(s)
  PROVE  /\ t \in Heap /\ t.http = s.http /\ t.frame = s.frame /\ t.conn = s.conn
         /\ t.connects = s.connects /\ t.caller = s.caller
         /\ t.hub = [s.hub EXCEPT !.timeout = FALSE, !.ping = FALSE]
<1> DEFINE b == [s.hub EXCEPT !.timeout = FALSE, !.ping = FALSE]
<1>1. b \in HubFields
  <2> DEFINE x == [s.hub EXCEPT !.timeout = FALSE]
  <2>1. x \in HubFields
    BY Parts, Zenon DEF HubFields
  <2> HIDE DEF x
  <2>2. [x EXCEPT !.ping = FALSE] \in HubFields
    BY <2>1, Zenon DEF HubFields
  <2> QED
    BY <2>2, Zenon DEF x
<1>2. t = SetHub(s, b)
  BY Parts, Zenon DEF cleanupTimers, cleanupPingTimer, cleanupTimeout, SetHub
<1> HIDE DEF b
<1>3. t.hub = b
  BY <1>1, <1>2, SetHubEffect
<1> QED
  BY <1>1, <1>2, <1>3, SetHubEffect DEF b

\* cleanupTimeout and cleanupPingTimer change neither state.
LEMMA CleanupSound ==
  ASSUME NEW s, Sound(s), NEW t, t = cleanupTimers(s)
  PROVE  Sound(t)
<1>1. /\ t \in Heap /\ t.http = s.http /\ t.frame = s.frame /\ t.connects = s.connects
      /\ t.hub = [s.hub EXCEPT !.timeout = FALSE, !.ping = FALSE]
  BY CleanupEffect, Zenon DEF Sound
<1>2. t.hub.state = s.hub.state /\ t.hub.started = s.hub.started
  BY <1>1, Parts DEF Sound, HubFields
<1> QED
  BY <1>1, <1>2, SoundKept, Zenon

\* HubConnection.stopInternal: the state, then the end of a delay ...
Stopping(s) == SetHub(s, [s.hub EXCEPT !.state = "Disconnecting"])


Undelayed(s) ==
  LET e == End(s, s.hub.delay) IN SetHub(e, [e.hub EXCEPT !.delay = 0, !.stopPromise = Nothing])


\* ... or what precedes the stop of the HttpConnection.
Unarmed(s) ==
  LET e == cleanupTimers(s) IN
  SetHub(e, [e.hub EXCEPT !.stopDuringStart = TRUE, !.stopPromise = httpStopAwaits(s)])


\* A HttpConnection that begins to stop still holds its transport.
LEMMA HeldHalts ==
  ASSUME NEW s, NEW t, Held(s), Halts(s, t), Quieter(s, t)
  PROVE  Held(t)
<1>1. CASE Down(s)
  <2>1. SameHold(s, t)
    BY <1>1, Zenon DEF Halts, SameHold
  <2> QED
    BY <2>1, HeldKept, Zenon
<1>2. CASE ~Down(s)
  BY <1>2 DEF Held, Halts, Quieter, Down
<1> QED
  BY <1>1, <1>2, Zenon

\* No timer is needed above a connection that is stopped or stopping.
LEMMA TimerDown ==
  ASSUME NEW t, Down(t)
  PROVE  TimerInv(t)
BY Zenon DEF TimerInv

\* The callbacks of an application that does not react call nothing.
LEMMA ActsFacts ==
  ASSUME NEW act \in Acts
  PROVE  act \in BOOLEAN /\ (~reacts => act = FALSE)
BY Zenon DEF Acts

-----------------------------------------------------------------------------
(* HubConnection.stopInternal.                                             *)

\* stopInternal ends a delay, or stops the HttpConnection.
LEMMA StopInternalFacts ==
  /\ \A s : \A act \in BOOLEAN :
       Sound(s) =>
         Sound(stopInternal(s, act))
  /\ \A s, t :
       Sound(s) /\ t = stopInternal(s, FALSE) =>
         t.hub.state \in {"Disconnected", "Disconnecting"}
  /\ \A s, act, t :
       Sound(s) /\ act = FALSE /\ t = stopInternal(s, act) /\ Held(s) =>
         Held(t)
  /\ \A s, t : \A act \in Acts :
       Sound(s) /\ t = stopInternal(s, act) =>
         Sound(t) /\ Fine(s, t)
<1>StopCases.
  ASSUME NEW s \in Heap, NEW act
  PROVE  \/ s.hub.state \in {"Disconnected", "Disconnecting"} /\ stopInternal(s, act) = s
         \/ /\ s.hub.delay # 0
            /\ stopInternal(s, act) = completeClose(Undelayed(Stopping(s)), act)
         \/ stopInternal(s, act) = httpStop(Unarmed(Stopping(s)))
  <2> DEFINE t == [s EXCEPT !.hub.state = "Disconnecting"]
             e == End(t, t.hub.delay)
             c == cleanupTimers(t)
  <2>1. t = Stopping(s) /\ t.hub.delay = s.hub.delay
    BY Parts DEF Stopping, SetHub, HubFields
  <2>2. [e EXCEPT !.hub.delay = 0, !.hub.stopPromise = Nothing] = Undelayed(t)
    <3> HIDE DEF t
    <3> QED BY Zenon DEF Undelayed, SetHub
  <2>3. [c EXCEPT !.hub.stopDuringStart = TRUE, !.hub.stopPromise = httpStopAwaits(t)] = Unarmed(t)
    <3> HIDE DEF t
    <3> QED BY Zenon DEF Unarmed, SetHub
  <2>4. \/ s.hub.state \in {"Disconnected", "Disconnecting"} /\ stopInternal(s, act) = s
        \/ /\ t.hub.delay # 0
           /\ stopInternal(s, act) =
                completeClose([e EXCEPT !.hub.delay = 0, !.hub.stopPromise = Nothing], act)
        \/ stopInternal(s, act) = httpStop([c EXCEPT !.hub.stopDuringStart = TRUE,
                                                     !.hub.stopPromise = httpStopAwaits(t)])
    BY Zenon DEF stopInternal
  <2> QED
    BY <2>1, <2>2, <2>3, <2>4, Zenon
<1>StoppingEffect.
  ASSUME NEW s, Sound(s), NEW t, t = Stopping(s)
  PROVE  /\ Sound(t) /\ t.http = s.http /\ t.conn = s.conn /\ t.connects = s.connects
         /\ t.frame = s.frame /\ t.hub.state = "Disconnecting" /\ t.hub.started = s.hub.started
         /\ t.hub.delay = s.hub.delay /\ t.hub.timeout = s.hub.timeout
  <2> USE <1>StoppingEffect
  <2> DEFINE b == [s.hub EXCEPT !.state = "Disconnecting"]
  <2>1. s \in Heap /\ s.hub \in HubFields
    BY Parts, Zenon DEF Sound
  <2>2. /\ b \in HubFields /\ b.state = "Disconnecting" /\ b.started = s.hub.started
        /\ b.timeout = s.hub.timeout /\ b.delay = s.hub.delay
    BY <2>1, Zenon DEF HubFields, HubStates
  <2>3. t = SetHub(s, b)
    BY Zenon DEF Stopping
  <2> HIDE DEF b
  <2>4. Sound(t)
    BY <2>2, <2>3, HubSound, Zenon
  <2> QED
    BY <2>1, <2>2, <2>3, <2>4, SetHubEffect
<1>UndelayedEffect.
  ASSUME NEW s, Sound(s), s.hub.delay # 0, s.hub.state # "Connecting", NEW t, t = Undelayed(s)
  PROVE  /\ Sound(t) /\ t.http = s.http /\ t.conn = s.conn /\ t.connects = s.connects
         /\ t.hub.state = s.hub.state /\ t.hub.timeout = s.hub.timeout
         /\ \A f \in Frames : t.frame[f] = s.frame[f] \/ t.frame[f] = NoFrame
  <2> USE <1>UndelayedEffect
  <2> DEFINE e == End(s, s.hub.delay)
             b == [e.hub EXCEPT !.delay = 0, !.stopPromise = Nothing]
  <2>1. s \in Heap /\ s.hub.delay \in Frames
    BY Parts, Zenon DEF Sound, HubFields
  <2>2. /\ e \in Heap /\ e.http = s.http /\ e.conn = s.conn /\ e.connects = s.connects
        /\ e.hub.state = s.hub.state /\ e.hub.timeout = s.hub.timeout
        /\ \A f \in Frames : e.frame[f] = s.frame[f] \/ e.frame[f] = NoFrame
    BY <2>1, EndEffect
  <2>3. Sound(e)
    BY <2>1, EndSound, Zenon
  <2>4. t = SetHub(e, b)
    BY Zenon DEF Undelayed
  <2> HIDE DEF e
  <2>5. /\ b \in HubFields /\ b.state = e.hub.state /\ b.started = e.hub.started
        /\ b.timeout = e.hub.timeout
    BY <2>2, Parts, NoAwait, Zenon DEF HubFields
  <2> HIDE DEF b
  <2>6. Sound(t)
    BY <2>3, <2>4, <2>5, HubSound, Zenon
  <2> QED
    BY <2>2, <2>4, <2>5, <2>6, SetHubEffect
<1>UnarmedEffect.
  ASSUME NEW s, Sound(s), NEW t, t = Unarmed(s)
  PROVE  /\ Sound(t) /\ t.http = s.http /\ t.conn = s.conn /\ t.connects = s.connects
         /\ t.frame = s.frame /\ t.hub.state = s.hub.state
  <2> USE <1>UnarmedEffect
  <2> DEFINE e == cleanupTimers(s)
             w == httpStopAwaits(s)
             b == [e.hub EXCEPT !.stopDuringStart = TRUE, !.stopPromise = w]
  <2>1. /\ e \in Heap /\ e.http = s.http /\ e.frame = s.frame /\ e.conn = s.conn
        /\ e.connects = s.connects /\ e.hub = [s.hub EXCEPT !.timeout = FALSE, !.ping = FALSE]
    BY CleanupEffect, Zenon DEF Sound
  <2>2. e.hub.state = s.hub.state
    BY <2>1, Parts, Zenon DEF Sound, HubFields
  <2>3. Sound(e)
    BY CleanupSound, Zenon
  <2>4. t = SetHub(e, b)
    BY Zenon DEF Unarmed
  <2>5. w \in Awaits
    BY StopAwaits, Zenon DEF Sound
  <2> HIDE DEF e, w
  <2>6. b \in HubFields /\ b.state = e.hub.state /\ b.started = e.hub.started
    BY <2>1, <2>5, Parts, Zenon DEF HubFields
  <2> HIDE DEF b
  <2>7. Sound(t)
    BY <2>3, <2>4, <2>6, HubSound, Zenon
  <2> QED
    BY <2>1, <2>2, <2>4, <2>6, <2>7, SetHubEffect
<1>StopInternalSound.
  ASSUME NEW s, Sound(s), NEW act \in BOOLEAN
  PROVE  Sound(stopInternal(s, act))
  <2> USE <1>StopInternalSound
  <2> DEFINE t == Stopping(s)
  <2>1. Sound(t) /\ t.hub.state = "Disconnecting" /\ t.hub.delay = s.hub.delay
    BY <1>StoppingEffect, Zenon
  <2>2. \/ stopInternal(s, act) = s
        \/ s.hub.delay # 0 /\ stopInternal(s, act) = completeClose(Undelayed(t), act)
        \/ stopInternal(s, act) = httpStop(Unarmed(t))
    BY <1>StopCases, Zenon DEF Sound
  <2> HIDE DEF t
  <2>3. s.hub.delay # 0 => Sound(completeClose(Undelayed(t), act))
    BY <2>1, <1>UndelayedEffect, CompleteCloseSound, Zenon
  <2>4. Sound(httpStop(Unarmed(t)))
    BY <2>1, <1>UnarmedEffect, HttpStopFacts, Zenon
  <2> QED
    BY <2>2, <2>3, <2>4, Zenon
\* stopInternal, without a call of start in its callbacks: it ends a delay, or it
\* stops the HttpConnection.
<1>StopInternalEffect.
  ASSUME NEW s, Sound(s), NEW act, act = FALSE, NEW t, t = stopInternal(s, act)
  PROVE  /\ t.hub.state \in {"Disconnected", "Disconnecting"}
         /\ \/ /\ t.http = s.http /\ t.conn = s.conn /\ t.connects = s.connects
               /\ t.hub.timeout = s.hub.timeout
               /\ \A f \in Frames : t.frame[f] = s.frame[f] \/ t.frame[f] = NoFrame
            \/ Halts(s, t) /\ t.frame = s.frame
  <2> USE <1>StopInternalEffect
  <2>0. s \in Heap
    BY Zenon DEF Sound
  <2>1. \/ s.hub.state \in {"Disconnected", "Disconnecting"} /\ t = s
        \/ s.hub.delay # 0 /\ t = completeClose(Undelayed(Stopping(s)), act)
        \/ t = httpStop(Unarmed(Stopping(s)))
    BY <2>0, <1>StopCases, Zenon
  <2>2. CASE s.hub.state \in {"Disconnected", "Disconnecting"} /\ t = s
    BY <2>2, Zenon
  <2> DEFINE v == Stopping(s)
  <2>3. /\ Sound(v) /\ v.http = s.http /\ v.conn = s.conn /\ v.connects = s.connects
        /\ v.frame = s.frame /\ v.hub.state = "Disconnecting"
        /\ v.hub.delay = s.hub.delay /\ v.hub.timeout = s.hub.timeout
    BY <1>StoppingEffect, Zenon
  <2>4. CASE s.hub.delay # 0 /\ t = completeClose(Undelayed(v), act)
    <3> DEFINE w == Undelayed(v)
    <3> HIDE DEF v
    <3>1. /\ Sound(w) /\ w.http = v.http /\ w.conn = v.conn /\ w.connects = v.connects
          /\ w.hub.state = v.hub.state /\ w.hub.timeout = v.hub.timeout
          /\ \A f \in Frames : w.frame[f] = v.frame[f] \/ w.frame[f] = NoFrame
      BY <2>3, <2>4, <1>UndelayedEffect, Zenon
    <3>2. t = completeClose(w, act)
      BY <2>4, Zenon
    <3> HIDE DEF w
    <3>3. w \in Heap
      BY <3>1, Zenon DEF Sound
    <3>4. /\ t.http = w.http /\ t.conn = w.conn /\ t.connects = w.connects
          /\ t.frame = w.frame /\ t.hub.state \in {w.hub.state, "Disconnected"}
          /\ t.hub.timeout = w.hub.timeout
      BY <3>2, <3>3, CompleteCloseEffect, Zenon
    <3> QED
      BY <2>3, <3>1, <3>4, Zenon
  <2>5. CASE t = httpStop(Unarmed(v))
    <3> DEFINE w == Unarmed(v)
    <3> HIDE DEF v
    <3>1. /\ Sound(w) /\ w.http = v.http /\ w.conn = v.conn /\ w.connects = v.connects
          /\ w.frame = v.frame /\ w.hub.state = v.hub.state
      BY <2>3, <1>UnarmedEffect, Zenon
    <3>2. t = httpStop(w)
      BY <2>5, Zenon
    <3> HIDE DEF w
    <3>3. Halts(w, t) /\ t.frame = w.frame /\ t.hub = w.hub
      BY <3>1, <3>2, HttpStopFacts, Zenon
    <3>4. Halts(s, t)
      BY <2>3, <3>1, <3>3 DEF Halts, Down
    <3> QED
      BY <2>3, <3>1, <3>3, <3>4, Zenon
  <2> QED
    BY <2>1, <2>2, <2>4, <2>5, Zenon
<1>StopInternalState.
  ASSUME NEW s, Sound(s), NEW t, t = stopInternal(s, FALSE)
  PROVE  t.hub.state \in {"Disconnected", "Disconnecting"}
  BY <1>StopInternalState, <1>StopInternalEffect, Zenon
<1>StopInternalHeld.
  ASSUME NEW s, Sound(s), NEW act, act = FALSE, NEW t, t = stopInternal(s, act), Held(s)
  PROVE  Held(t)
  <2> USE <1>StopInternalHeld
  <2>1. \/ /\ t.http = s.http /\ t.conn = s.conn /\ t.connects = s.connects
           /\ \A f \in Frames : t.frame[f] = s.frame[f] \/ t.frame[f] = NoFrame
        \/ Halts(s, t) /\ t.frame = s.frame
    BY <1>StopInternalEffect, Zenon
  <2>2. CASE Halts(s, t) /\ t.frame = s.frame
    <3>1. Quieter(s, t)
      BY <2>2, Zenon DEF Quieter
    <3> QED
      BY <2>2, <3>1, HeldHalts, Zenon
  <2>3. CASE /\ t.http = s.http /\ t.conn = s.conn /\ t.connects = s.connects
             /\ \A f \in Frames : t.frame[f] = s.frame[f] \/ t.frame[f] = NoFrame
    <3>1. NoFrame.at \notin Early
      BY Zenon DEF NoFrame, Early
    <3>2. Quieter(s, t)
      BY <2>3, <3>1, Zenon DEF Quieter
    <3>3. SameHold(s, t)
      BY <2>3, Zenon DEF SameHold
    <3> QED
      BY <3>2, <3>3, HeldKept, Zenon
  <2> QED
    BY <2>1, <2>2, <2>3, Zenon
<1>StopInternalFine.
  ASSUME NEW s, Sound(s), NEW act \in Acts, NEW t, t = stopInternal(s, act)
  PROVE  Sound(t) /\ Fine(s, t)
  <2> USE <1>StopInternalFine
  <2>1. act \in BOOLEAN /\ (~reacts => act = FALSE)
    BY ActsFacts, Zenon
  <2>2. Sound(t)
    BY <2>1, <1>StopInternalSound, Zenon
  <2>3. ASSUME act = FALSE, Held(s), TimerInv(s)
        PROVE  Held(t) /\ TimerInv(t)
    <3>1. Held(t)
      BY <2>3, <1>StopInternalHeld, Zenon
    <3>2. /\ t.hub.state \in {"Disconnected", "Disconnecting"}
          /\ \/ /\ t.http = s.http /\ t.hub.timeout = s.hub.timeout
                /\ \A f \in Frames : t.frame[f] = s.frame[f] \/ t.frame[f] = NoFrame
             \/ Halts(s, t) /\ t.frame = s.frame
      BY <2>3, <1>StopInternalEffect, Zenon
    <3>3. CASE Halts(s, t)
      <4>1. Down(t)
        BY <3>3, Zenon DEF Halts
      <4> QED
        BY <3>1, <4>1, TimerDown, Zenon
    <3>4. CASE /\ t.http = s.http /\ t.hub.timeout = s.hub.timeout
               /\ \A f \in Frames : t.frame[f] = s.frame[f] \/ t.frame[f] = NoFrame
      <4>1. \A f \in Frames : Settling(t, f) => Settling(s, f)
        BY <3>4 DEF Settling, NoFrame
      <4>2. t.hub.state # "Connected"
        BY <3>2, Zenon
      <4>3. TimerInv(t)
        BY <2>3, <3>4, <4>1, <4>2, Zenon DEF TimerInv, Down
      <4> QED
        BY <3>1, <4>3, Zenon
    <3> QED
      BY <3>2, <3>3, <3>4, Zenon
  <2> QED
    BY <2>1, <2>2, <2>3, Zenon DEF Fine
<1> QED
  BY <1>StopInternalSound, <1>StopInternalState, <1>StopInternalHeld, <1>StopInternalFine, Zenon

\* The HttpConnection changes its state, not by a start.
LEMMA HttpSound ==
  ASSUME NEW s, NEW t, NEW a \in HttpFields, Sound(s), t = SetHttp(s, a),
         a.state = "Connecting" => s.http.state = "Connecting",
         a.state = "Connected" => s.http.state \in {"Connecting", "Connected"},
         a.state = "Disconnecting" => s.http.state # "Disconnected" /\ a.stopPromise # 0
  PROVE  Sound(t)
<1>1. s \in Heap
  BY Zenon DEF Sound
<1>2. t \in Heap /\ t.http = a /\ t.hub = s.hub /\ t.frame = s.frame /\ t.connects = s.connects
  BY <1>1, SetHttpEffect, Zenon
<1>0. a.state \in {"Disconnected", "Connecting", "Connected", "Disconnecting"}
  BY Zenon DEF HttpFields, HttpStates, HubStates
<1>3. BoundsInv(t)
  BY <1>0, <1>2, Zenon DEF Sound, BoundsInv
<1>4. StartsInv(t)
  BY <1>2 DEF Sound, StartsInv
<1>5. FailsInv(t)
  BY <1>0, <1>2, Zenon DEF Sound, FailsInv, Down
<1> QED
  BY <1>2, <1>3, <1>4, <1>5, Zenon DEF Sound

Delayed(s, f, r) == SetHub(SetFrame(s, f, r), [s.hub EXCEPT !.delay = f])


Looping(s, f) == Delayed(s, f, [s.frame[f] EXCEPT !.by = "reconnect", !.at = "delay"])


\* A frame of reconnect awaits its delay.
LEMMA DelayEffect ==
  ASSUME NEW s, Sound(s), s.hub.state = "Reconnecting", NEW f \in Frames, NEW r \in FrameFields,
         r.by = "reconnect", r.at = "delay", r.c <= s.connects,
         NEW t, t = Delayed(s, f, r)
  PROVE  /\ Sound(t) /\ t.http = s.http /\ t.conn = s.conn /\ t.connects = s.connects
         /\ t.hub.state = s.hub.state /\ t.hub.timeout = s.hub.timeout
         /\ t.frame[f].at = "delay" /\ \A g \in Frames : g # f => t.frame[g] = s.frame[g]
<1> DEFINE b == [s.hub EXCEPT !.delay = f]
           u == SetFrame(s, f, r)
<1>1. s \in Heap /\ s.hub \in HubFields
  BY Parts, Zenon DEF Sound
<1>3. /\ b \in HubFields /\ b.state = s.hub.state /\ b.started = s.hub.started
      /\ b.timeout = s.hub.timeout
  BY <1>1, Zenon DEF HubFields
<1>4. t = SetHub(u, b)
  BY Zenon DEF Delayed
<1> HIDE DEF b
<1>5. /\ u \in Heap /\ u.http = s.http /\ u.hub = s.hub /\ u.conn = s.conn /\ u.connects = s.connects
      /\ u.frame[f] = r /\ \A g \in Frames : g # f => u.frame[g] = s.frame[g]
  BY <1>1, SetFrameEffect
<1> HIDE DEF u
<1>6. /\ t \in Heap /\ t.http = s.http /\ t.hub = b /\ t.conn = s.conn /\ t.connects = s.connects
      /\ t.frame[f] = r /\ \A g \in Frames : g # f => t.frame[g] = s.frame[g]
  BY <1>3, <1>4, <1>5, SetHubEffect
<1>7. BoundsInv(t)
  BY <1>6, Zenon DEF Sound, BoundsInv
<1>8. StartsInv(t)
  BY <1>3, <1>6 DEF Sound, StartsInv
<1>9. FailsInv(t)
  BY <1>6 DEF Sound, FailsInv, Down
<1> QED
  BY <1>3, <1>6, <1>7, <1>8, <1>9, Zenon DEF Sound

\* A frame is where it was, or awaits a delay, or has ended.
Calm(s, t) ==
  \A f \in Frames : \/ t.frame[f].at \in {"off", "delay"}
                    \/ t.frame[f].at = s.frame[f].at /\ t.frame[f].c = s.frame[f].c


Handshakes == {"pending", "resolved", "rejected"}


Answered(s, r, h) == SetFrame(s, r, [s.frame[r] EXCEPT !.handshake = h])


\* The settling of a handshake promise as a change of one frame.
LEMMA AnsweredForm ==
  ASSUME NEW s \in Heap, NEW r \in Frames, NEW h
  PROVE  [s EXCEPT !.frame[r].handshake = h] = Answered(s, r, h)
BY Parts, Zenon DEF SetFrame, Answered

\* The handshake promise of a frame settles.
LEMMA AnsweredEffect ==
  ASSUME NEW s, Sound(s), NEW r \in Frames, NEW h \in Handshakes,
         NEW t, t = Answered(s, r, h)
  PROVE  /\ Sound(t) /\ t.http = s.http /\ t.hub = s.hub /\ t.conn = s.conn
         /\ t.connects = s.connects /\ t.caller = s.caller
         /\ t.frame[r].handshake = h
         /\ \A f \in Frames : /\ t.frame[f].by = s.frame[f].by /\ t.frame[f].at = s.frame[f].at
                              /\ t.frame[f].c = s.frame[f].c
         /\ \A f \in Frames : f # r => t.frame[f] = s.frame[f]
<1> DEFINE x == [s.frame[r] EXCEPT !.handshake = h]
<1>1. s \in Heap
  BY Zenon DEF Sound
<1>2. s.frame[r] \in FrameFields
  BY <1>1, Parts, Zenon
<1>3. x \in FrameFields /\ x.by = s.frame[r].by /\ x.at = s.frame[r].at /\ x.c = s.frame[r].c
      /\ x.handshake = h
  BY <1>2, Zenon DEF FrameFields, Handshakes
<1>4. t = SetFrame(s, r, x)
  BY Zenon DEF Answered
<1> HIDE DEF x
<1>5. /\ t \in Heap /\ t.http = s.http /\ t.hub = s.hub /\ t.conn = s.conn
      /\ t.connects = s.connects /\ t.caller = s.caller
      /\ t.frame[r] = x /\ \A g \in Frames : g # r => t.frame[g] = s.frame[g]
  BY <1>1, <1>3, <1>4, SetFrameEffect
<1>6. \A f \in Frames : /\ t.frame[f].by = s.frame[f].by /\ t.frame[f].at = s.frame[f].at
                        /\ t.frame[f].c = s.frame[f].c
  BY <1>3, <1>5, Zenon
<1>7. Sound(t)
  BY <1>5, <1>6, SoundKept, Zenon
<1> QED
  BY <1>3, <1>5, <1>6, <1>7, Zenon

\* HttpConnection.stopConnection: what it does before it calls onclose.
Dropped(s) == SetHttp(s, [s.http EXCEPT !.transport = 0])


Ended(s) == SetHttp(s, [s.http EXCEPT !.transport = 0, !.state = "Disconnected", !.started = FALSE])


Resolved(s) ==
  SetConn(Ended(s), s.http.stopPromise, [s.conn[s.http.stopPromise] EXCEPT !.settled = TRUE])


\* stopConnection forgets the transport first.
LEMMA DroppedEffect ==
  ASSUME NEW s, Sound(s), NEW t, t = Dropped(s)
  PROVE  /\ Sound(t) /\ t.hub = s.hub /\ t.frame = s.frame /\ t.conn = s.conn
         /\ t.connects = s.connects
         /\ t.http.transport = 0 /\ t.http.state = s.http.state
         /\ t.http.inherentKeepAlive = s.http.inherentKeepAlive
<1> DEFINE a == [s.http EXCEPT !.transport = 0]
<1>1. s \in Heap /\ s.http \in HttpFields
  BY Parts, Zenon DEF Sound
<1>2. /\ a \in HttpFields /\ a.state = s.http.state /\ a.stopPromise = s.http.stopPromise
      /\ a.transport = 0 /\ a.inherentKeepAlive = s.http.inherentKeepAlive
  BY <1>1, Numbers, Zenon DEF HttpFields
<1>3. t = SetHttp(s, a)
  BY Zenon DEF Dropped
<1> HIDE DEF a
<1>4. /\ t \in Heap /\ t.http = a /\ t.hub = s.hub /\ t.frame = s.frame /\ t.conn = s.conn
      /\ t.connects = s.connects
  BY <1>1, <1>2, <1>3, SetHttpEffect
<1>5. Sound(t)
  BY <1>2, <1>4, SoundKept, Zenon
<1> QED
  BY <1>2, <1>4, <1>5, Zenon

\* stopConnection drops the transport; a connection that was open or stopping ends,
\* and the HubConnection hears of it when it is there.
EndsAs(s, t, retry, act) ==
  \/ s.http.state \in {"Disconnected", "Connecting"} /\ t = Dropped(s)
  \/ s.http.state \in {"Connected", "Disconnecting"} /\
     \E u : /\ Sound(u) /\ u.frame = s.frame /\ u.connects = s.connects
            /\ u.http = Ended(s).http
            /\ \A c \in Conns : u.conn[c].live = s.conn[c].live /\ u.conn[c].stop = s.conn[c].stop
            /\ t = connectionClosed(u, retry, act) \/ t = u


StateAfter(s) ==
  IF s.http.state \in {"Disconnected", "Connecting"} THEN s.http.state ELSE "Disconnected"


\* What stopConnection does when no callback starts again.
Shut(s, t) ==
  /\ t.connects = s.connects /\ t.http.transport = 0
  /\ t.http.state = StateAfter(s)
  /\ t.http.inherentKeepAlive = s.http.inherentKeepAlive
  /\ \A c \in Conns : t.conn[c].live = s.conn[c].live /\ t.conn[c].stop = s.conn[c].stop
  /\ Calm(s, t)


Lost(s, c) == SetConn(s, c, [s.conn[c] EXCEPT !.live = FALSE])


\* The same when the transport of the c-th start has closed.
ShutWith(s, c, t) ==
  /\ t.connects = s.connects /\ t.http.transport = 0
  /\ t.http.state = StateAfter(s)
  /\ t.http.inherentKeepAlive = s.http.inherentKeepAlive
  /\ ~t.conn[c].live
  /\ \A d \in Conns : /\ t.conn[d].stop = s.conn[d].stop
                      /\ d # c => t.conn[d].live = s.conn[d].live
  /\ Calm(s, t)


\* Nothing is open or connecting any more.
LEMMA HeldEnds ==
  ASSUME NEW s, NEW t, Held(s), t.connects = s.connects, t.http.transport = 0, Down(t),
         \A f \in Frames : t.frame[f].at \notin Early,
         \A c \in Conns : /\ ~t.conn[c].live /\ t.conn[c].stop # "transport"
                          /\ t.conn[c].stop = "awaitStart" => s.conn[c].stop = "awaitStart"
  PROVE  Held(t)
BY Zenon DEF Held

-----------------------------------------------------------------------------
(* HttpConnection.stopConnection calls connectionClosed and reconnect.     *)

\* The end of a connection: of one that connects, stops or was open, and the same
\* when the transport calls onclose.
LEMMA ClosingFacts ==
  /\ \A s, retry, act, t :
       Sound(s) /\ s.http.state = "Connecting" /\ t = stopConnection(s, retry, act) =>
         t = Dropped(s)
  /\ \A s, retry, t : \A act \in BOOLEAN :
       Sound(s) /\ t = stopConnection(s, retry, act) =>
         Sound(t)
  /\ \A s, retry, act, t :
       Sound(s) /\ act = FALSE /\ t = stopConnection(s, retry, act) =>
         Shut(s, t)
  /\ \A s, retry, u : \A c \in Conns, act \in Acts :
       Sound(s) /\ u = transportCloses(s, c, retry, act) =>
         Sound(u) /\ (~reacts => ShutWith(s, c, u))
  /\ \A s, retry, t : \A c \in Conns, act \in Acts :
       Sound(s) /\ s.conn[c].live /\ s.conn[c].stop # "transport" /\ t = transportCloses(s, c, retry, act) =>
         Sound(t) /\ (~reacts /\ Held(s) => Held(t) /\ Down(t))
<1>ReconnectingForm.
  ASSUME NEW s \in Heap, NEW v, v = [s EXCEPT !.hub.state = "Reconnecting"]
  PROVE  v = Reconnecting(s) /\ v.hub.state = "Reconnecting" /\ v.frame = s.frame /\ v \in Heap
  <2> USE <1>ReconnectingForm
  <2>1. v = Reconnecting(s)
    BY Parts, Zenon DEF Reconnecting, SetHub
  <2>2. [s.hub EXCEPT !.state = "Reconnecting"] \in HubFields
    BY Parts DEF HubFields, HubStates
  <2>3. v.hub = [s.hub EXCEPT !.state = "Reconnecting"] /\ v.frame = s.frame /\ v \in Heap
    BY <2>1, <2>2, SetHubEffect DEF Reconnecting
  <2> QED
    BY <2>1, <2>3, Parts, Zenon DEF HubFields
<1>ReconnectStops.
  ASSUME NEW s \in Heap, NEW retry, NEW act, act = TRUE
  PROVE  \/ reconnect(s, retry, act) = completeClose(s, act)
         \/ stopInternal(Reconnecting(s), FALSE).hub.state = "Reconnecting"
         \/ reconnect(s, retry, act) = stopInternal(Reconnecting(s), FALSE)
  <2> USE <1>ReconnectStops
  <2> DEFINE v == [s EXCEPT !.hub.state = "Reconnecting"]
  <2>1. v = Reconnecting(s)
    BY <1>ReconnectingForm, Zenon
  <2>2. \/ reconnect(s, retry, act) = completeClose(s, act)
        \/ stopInternal(v, FALSE).hub.state = "Reconnecting"
        \/ reconnect(s, retry, act) = stopInternal(v, FALSE)
    BY Zenon DEF reconnect
  <2> QED
    BY <2>1, <2>2, Zenon
<1>ReconnectLoops.
  ASSUME NEW s \in Heap, NEW retry, NEW act, act = FALSE, NEW t, t = reconnect(s, retry, act)
  PROVE  \/ t = completeClose(s, act)
         \/ FreeFrames(s) # {} /\ t = Looping(Reconnecting(s), NewFrame(Reconnecting(s)))
  <2> USE <1>ReconnectLoops
  <2> DEFINE v == [s EXCEPT !.hub.state = "Reconnecting"]
             f == NewFrame(v)
  <2>1. v = Reconnecting(s) /\ v.hub.state = "Reconnecting" /\ v.frame = s.frame /\ v \in Heap
    BY <1>ReconnectingForm, Zenon
  <2>2. \/ t = completeClose(s, act)
        \/ /\ FreeFrames(s) # {}
           /\ v.hub.state = "Reconnecting" =>
                t = [v EXCEPT !.frame[f].by = "reconnect", !.frame[f].at = "delay", !.hub.delay = f]
    BY Zenon DEF reconnect
  <2> HIDE DEF v
  <2>3. ASSUME FreeFrames(s) # {}
        PROVE  [v EXCEPT !.frame[f].by = "reconnect", !.frame[f].at = "delay", !.hub.delay = f]
                 = Looping(v, f)
    <3>1. f \in Frames
      BY <2>1, <2>3, NewFrameFree, Zenon DEF FreeFrames
    <3> HIDE DEF f
    <3> DEFINE x == [v.frame[f] EXCEPT !.by = "reconnect", !.at = "delay"]
               w == SetFrame(v, f, x)
    <3>2. w = [v EXCEPT !.frame[f].by = "reconnect", !.frame[f].at = "delay"]
      BY <2>1, Parts, Zenon DEF SetFrame
    <3>3. [v EXCEPT !.frame[f].by = "reconnect", !.frame[f].at = "delay", !.hub.delay = f]
            = [w EXCEPT !.hub.delay = f]
      BY <3>2, Zenon
    <3>4. v.frame[f] \in FrameFields
      BY <2>1, <3>1, Parts, Zenon
    <3>5. x \in FrameFields
      BY <3>4, Zenon DEF FrameFields
    <3>6. w \in Heap /\ w.hub = v.hub
      <4> HIDE DEF x
      <4> QED BY <2>1, <3>1, <3>5, SetFrameEffect
    <3>7. Looping(v, f) = SetHub(w, [v.hub EXCEPT !.delay = f])
      BY Zenon DEF Looping, Delayed
    <3> HIDE DEF w
    <3> QED
      BY <3>3, <3>6, <3>7, Parts, Zenon DEF SetHub
  <2> QED
    BY <2>1, <2>2, <2>3, Zenon
<1>ReconnectingEffect.
  ASSUME NEW s, Sound(s), NEW t, t = Reconnecting(s)
  PROVE  /\ Sound(t) /\ t.http = s.http /\ t.conn = s.conn /\ t.connects = s.connects
         /\ t.frame = s.frame /\ t.hub.state = "Reconnecting" /\ t.hub.started = s.hub.started
         /\ t.hub \in HubFields
  <2> USE <1>ReconnectingEffect
  <2> DEFINE b == [s.hub EXCEPT !.state = "Reconnecting"]
  <2>1. s \in Heap /\ s.hub \in HubFields
    BY Parts, Zenon DEF Sound
  <2>2. b \in HubFields /\ b.state = "Reconnecting" /\ b.started = s.hub.started
    BY <2>1, Zenon DEF HubFields, HubStates
  <2>3. t = SetHub(s, b)
    BY Zenon DEF Reconnecting
  <2> HIDE DEF b
  <2>4. Sound(t)
    BY <2>2, <2>3, HubSound, Zenon
  <2> QED
    BY <2>1, <2>2, <2>3, <2>4, SetHubEffect
<1>LoopingEffect.
  ASSUME NEW s, Sound(s), s.hub.state = "Reconnecting", NEW f \in Frames, NEW t, t = Looping(s, f)
  PROVE  /\ Sound(t) /\ t.http = s.http /\ t.conn = s.conn /\ t.connects = s.connects
         /\ t.frame[f].at = "delay" /\ \A g \in Frames : g # f => t.frame[g] = s.frame[g]
  <2> USE <1>LoopingEffect
  <2> DEFINE r == [s.frame[f] EXCEPT !.by = "reconnect", !.at = "delay"]
  <2>1. s.frame[f] \in FrameFields /\ s.frame[f].c <= s.connects
    BY Parts, Zenon DEF Sound, BoundsInv
  <2>2. r \in FrameFields /\ r.by = "reconnect" /\ r.at = "delay" /\ r.c = s.frame[f].c
    BY <2>1, Zenon DEF FrameFields
  <2>3. t = Delayed(s, f, r)
    BY Zenon DEF Looping
  <2> HIDE DEF r
  <2> QED
    BY <2>1, <2>2, <2>3, DelayEffect
<1>ReconnectSound.
  ASSUME NEW s, Sound(s), NEW retry, NEW act \in BOOLEAN, NEW t, t = reconnect(s, retry, act)
  PROVE  Sound(t)
  <2> USE <1>ReconnectSound
  <2> DEFINE v == Reconnecting(s)
             u == stopInternal(v, FALSE)
  <2>0. s \in Heap
    BY Zenon DEF Sound
  <2>1. Sound(v) /\ v.frame = s.frame /\ v.hub.state = "Reconnecting"
    BY <1>ReconnectingEffect, Zenon
  <2>2. CASE act = TRUE
    <3>1. \/ t = completeClose(s, act)
          \/ u.hub.state = "Reconnecting"
          \/ t = u
      BY <2>0, <2>2, <1>ReconnectStops, Zenon
    <3> HIDE DEF v
    <3>2. Sound(u) /\ u.hub.state # "Reconnecting"
      BY <2>1, StopInternalFacts, Zenon
    <3> HIDE DEF u
    <3> QED
      BY <3>1, <3>2, CompleteCloseSound, Zenon
  <2>3. CASE act = FALSE
    <3>1. \/ t = completeClose(s, act)
          \/ FreeFrames(s) # {} /\ t = Looping(v, NewFrame(v))
      BY <2>0, <2>3, <1>ReconnectLoops, Zenon
    <3> HIDE DEF v
    <3>2. FreeFrames(s) # {} => Sound(Looping(v, NewFrame(v)))
      <4>1. FreeFrames(v) = FreeFrames(s)
        BY <2>1, Zenon DEF FreeFrames
      <4> QED
        BY <2>1, <4>1, NewFrameFree, <1>LoopingEffect, Zenon
    <3> QED
      BY <3>1, <3>2, CompleteCloseSound, Zenon
  <2> QED
    BY <2>2, <2>3, Zenon
\* Without a call of start or stop in its callbacks.
<1>ReconnectEffect.
  ASSUME NEW s, Sound(s), NEW retry, NEW act, act = FALSE, NEW t, t = reconnect(s, retry, act)
  PROVE  /\ t.http = s.http /\ t.conn = s.conn /\ t.connects = s.connects
         /\ Calm(s, t)
  <2> USE <1>ReconnectEffect
  <2> DEFINE v == Reconnecting(s)
  <2>1. \/ t = completeClose(s, act)
        \/ FreeFrames(s) # {} /\ t = Looping(v, NewFrame(v))
    <3>1. s \in Heap
      BY Zenon DEF Sound
    <3> QED
      BY <3>1, <1>ReconnectLoops, Zenon
  <2>2. CASE t = completeClose(s, act)
    BY <2>2, CompleteCloseEffect, Zenon DEF Sound, Calm
  <2>3. CASE FreeFrames(s) # {} /\ t = Looping(v, NewFrame(v))
    <3>1. /\ Sound(v) /\ v.http = s.http /\ v.conn = s.conn /\ v.connects = s.connects
          /\ v.frame = s.frame /\ v.hub.state = "Reconnecting"
      BY <1>ReconnectingEffect, Zenon
    <3> HIDE DEF v
    <3>2. NewFrame(v) \in Frames
      BY <2>3, <3>1, NewFrameFree, Zenon DEF FreeFrames
    <3> DEFINE f == NewFrame(v)
    <3> HIDE DEF f
    <3>3. /\ t.http = s.http /\ t.conn = s.conn /\ t.connects = s.connects
          /\ t.frame[f].at = "delay" /\ \A g \in Frames : g # f => t.frame[g] = s.frame[g]
      <4>1. t = Looping(v, f) /\ f \in Frames
        BY <2>3, <3>2, Zenon DEF f
      <4>2. /\ t.http = v.http /\ t.conn = v.conn /\ t.connects = v.connects
            /\ t.frame[f].at = "delay" /\ \A g \in Frames : g # f => t.frame[g] = v.frame[g]
        BY <3>1, <4>1, <1>LoopingEffect
      <4> QED
        BY <3>1, <4>2, Zenon
    <3> QED
      BY <3>3, Zenon DEF Calm
  <2> QED
    BY <2>1, <2>2, <2>3, Zenon
\* The part of connectionClosed before it looks at the state.
<1>ClosingCases.
  ASSUME NEW s, Sound(s), NEW retry, NEW act, NEW t, t = connectionClosed(s, retry, act)
  PROVE  \E u : /\ Sound(u) /\ u.http = s.http /\ u.conn = s.conn /\ u.connects = s.connects
                /\ \A f \in Frames : /\ u.frame[f].at = s.frame[f].at
                                     /\ u.frame[f].c = s.frame[f].c
                /\ \/ t = completeClose(u, act)
                   \/ t = reconnect(u, retry, act)
                   \/ t = u
  <2> USE <1>ClosingCases
  <2> DEFINE r == s.hub.resolver
             n == [s EXCEPT !.hub.stopDuringStart = TRUE]
             v == cleanupTimers(n)
             u == IF r # 0 /\ v.frame[r].handshake = "pending"
                  THEN [v EXCEPT !.frame[r].handshake = "resolved"] ELSE v
             b == [s.hub EXCEPT !.stopDuringStart = TRUE]
  <2>1. s \in Heap /\ s.hub \in HubFields
    BY Parts, Zenon DEF Sound
  <2>2. b \in HubFields /\ b.state = s.hub.state /\ b.started = s.hub.started
    BY <2>1, Zenon DEF HubFields
  <2>3. n = SetHub(s, b)
    BY <2>1, Parts, Zenon DEF SetHub
  <2>4. t = completeClose(u, act) \/ t = reconnect(u, retry, act) \/ t = u
    BY Zenon DEF connectionClosed
  <2>5. r = 0 \/ r \in Frames
    BY <2>1, Zenon DEF HubFields
  <2> HIDE DEF b, n, r
  <2>6. Sound(n) /\ n.http = s.http /\ n.conn = s.conn /\ n.connects = s.connects /\ n.frame = s.frame
    BY <2>1, <2>2, <2>3, HubSound, SetHubEffect
  <2>7. Sound(v) /\ v.http = s.http /\ v.conn = s.conn /\ v.connects = s.connects /\ v.frame = s.frame
    <3>1. n \in Heap
      BY <2>6, Zenon DEF Sound
    <3> QED
      BY <2>6, <3>1, CleanupSound, CleanupEffect, Zenon
  <2> HIDE DEF v
  <2>8. /\ Sound(u) /\ u.http = s.http /\ u.conn = s.conn /\ u.connects = s.connects
        /\ \A f \in Frames : u.frame[f].at = s.frame[f].at /\ u.frame[f].c = s.frame[f].c
    <3>1. CASE r # 0 /\ v.frame[r].handshake = "pending"
      <4>1. r \in Frames
        BY <2>5, <3>1, Zenon
      <4>2. v \in Heap
        BY <2>7, Zenon DEF Sound
      <4>3. PICK h \in Handshakes : u = Answered(v, r, h)
        BY <3>1, <4>1, <4>2, AnsweredForm DEF Handshakes
      <4> HIDE DEF u
      <4> QED
        <5>1. Sound(v)
          BY <2>7, Zenon
        <5>2. /\ Sound(u) /\ u.http = v.http /\ u.conn = v.conn /\ u.connects = v.connects
              /\ \A f \in Frames : u.frame[f].at = v.frame[f].at /\ u.frame[f].c = v.frame[f].c
          BY <4>1, <4>3, <5>1, AnsweredEffect
        <5> QED
          BY <2>7, <5>2, Zenon
    <3>2. CASE ~(r # 0 /\ v.frame[r].handshake = "pending")
      <4>1. u = v
        BY <3>2, Zenon
      <4> HIDE DEF u
      <4> QED
        BY <2>7, <4>1, Zenon
    <3> QED
      BY <3>1, <3>2, Zenon
  <2> HIDE DEF u
  <2> QED
    BY <2>4, <2>8, Zenon
<1>ConnectionClosedSound.
  ASSUME NEW s, Sound(s), NEW retry, NEW act \in BOOLEAN, NEW t, t = connectionClosed(s, retry, act)
  PROVE  Sound(t)
  <2> USE <1>ConnectionClosedSound
  <2>1. PICK u : /\ Sound(u)
                 /\ \/ t = completeClose(u, act)
                    \/ t = reconnect(u, retry, act)
                    \/ t = u
    BY <1>ClosingCases
  <2> QED
    BY <2>1, CompleteCloseSound, <1>ReconnectSound, Zenon
<1>ConnectionClosedEffect.
  ASSUME NEW s, Sound(s), NEW retry, NEW act, act = FALSE, NEW t, t = connectionClosed(s, retry, act)
  PROVE  /\ t.http = s.http /\ t.conn = s.conn /\ t.connects = s.connects
         /\ Calm(s, t)
  <2> USE <1>ConnectionClosedEffect
  <2>1. PICK u : /\ Sound(u) /\ u.http = s.http /\ u.conn = s.conn /\ u.connects = s.connects
                 /\ \A f \in Frames : /\ u.frame[f].at = s.frame[f].at
                                      /\ u.frame[f].c = s.frame[f].c
                 /\ \/ t = completeClose(u, act)
                    \/ t = reconnect(u, retry, act)
                    \/ t = u
    BY <1>ClosingCases
  <2>2. /\ t.http = u.http /\ t.conn = u.conn /\ t.connects = u.connects
        /\ Calm(u, t)
    <3>1. CASE t = completeClose(u, act)
      <4>1. u \in Heap
        BY <2>1, Zenon DEF Sound
      <4> QED
        BY <3>1, <4>1, CompleteCloseEffect, Zenon DEF Calm
    <3>2. CASE t = reconnect(u, retry, act)
      BY <2>1, <3>2, <1>ReconnectEffect, Zenon
    <3>3. CASE t = u
      BY <3>3, Zenon DEF Calm
    <3> QED
      BY <2>1, <3>1, <3>2, <3>3, Zenon
  <2> QED
    BY <2>1, <2>2, Zenon DEF Calm
<1>EndedEffect.
  ASSUME NEW s, Sound(s), NEW t, t = Ended(s)
  PROVE  /\ Sound(t) /\ t.hub = s.hub /\ t.frame = s.frame /\ t.conn = s.conn
         /\ t.connects = s.connects
         /\ t.http.transport = 0 /\ t.http.state = "Disconnected"
         /\ t.http.stopPromise = s.http.stopPromise
         /\ t.http.inherentKeepAlive = s.http.inherentKeepAlive
  <2> USE <1>EndedEffect
  <2> DEFINE a == [s.http EXCEPT !.transport = 0, !.state = "Disconnected", !.started = FALSE]
  <2>1. s \in Heap /\ s.http \in HttpFields
    BY Parts, Zenon DEF Sound
  <2>2. /\ a \in HttpFields /\ a.state = "Disconnected" /\ a.stopPromise = s.http.stopPromise
        /\ a.transport = 0 /\ a.inherentKeepAlive = s.http.inherentKeepAlive
    BY <2>1, Numbers, Zenon DEF HttpFields, HttpStates, HubStates
  <2>3. t = SetHttp(s, a)
    BY Zenon DEF Ended
  <2> HIDE DEF a
  <2>4. /\ t \in Heap /\ t.http = a /\ t.hub = s.hub /\ t.frame = s.frame /\ t.conn = s.conn
        /\ t.connects = s.connects
    BY <2>1, <2>2, <2>3, SetHttpEffect
  <2>5. Sound(t)
    BY <2>2, <2>3, HttpSound, Zenon
  <2> QED
    BY <2>2, <2>4, <2>5, Zenon
<1>ResolvedEffect.
  ASSUME NEW s, Sound(s), s.http.state = "Disconnecting", NEW t, t = Resolved(s)
  PROVE  /\ Sound(t) /\ t.hub = s.hub /\ t.frame = s.frame /\ t.connects = s.connects
         /\ t.http = Ended(s).http
         /\ \A c \in Conns : t.conn[c].live = s.conn[c].live /\ t.conn[c].stop = s.conn[c].stop
  <2> USE <1>ResolvedEffect
  <2> DEFINE p == s.http.stopPromise
             x == [s.conn[p] EXCEPT !.settled = TRUE]
             e == Ended(s)
  <2>1. s \in Heap /\ s.http \in HttpFields
    BY Parts, Zenon DEF Sound
  <2>2. p \in Conns
    BY <2>1, Numbers, Zenon DEF Sound, BoundsInv, HttpFields
  <2>3. /\ Sound(e) /\ e.hub = s.hub /\ e.frame = s.frame /\ e.conn = s.conn
        /\ e.connects = s.connects
    BY <1>EndedEffect, Zenon
  <2>4. t = SetConn(e, p, x)
    BY Zenon DEF Resolved
  <2> HIDE DEF p, e
  <2>5. s.conn[p] \in ConnFields
    BY <2>1, <2>2, Parts, Zenon
  <2>6. x \in ConnFields /\ x.live = s.conn[p].live /\ x.stop = s.conn[p].stop
    BY <2>5, Zenon DEF ConnFields
  <2> HIDE DEF x
  <2>7. e \in Heap
    BY <2>3, Zenon DEF Sound
  <2>8. /\ t \in Heap /\ t.http = e.http /\ t.hub = e.hub /\ t.frame = e.frame
        /\ t.connects = e.connects
        /\ t.conn[p] = x /\ \A d \in Conns : d # p => t.conn[d] = e.conn[d]
    BY <2>2, <2>4, <2>6, <2>7, SetConnEffect
  <2>9. Sound(t)
    BY <2>3, <2>8, SoundKept, Zenon
  <2> QED
    BY <2>3, <2>6, <2>8, <2>9, Zenon DEF e
<1>StopConnectionCases.
  ASSUME NEW s, Sound(s), NEW retry, NEW act, NEW t, t = stopConnection(s, retry, act)
  PROVE  EndsAs(s, t, retry, act)
  <2> USE <1>StopConnectionCases
  <2> DEFINE d == [s EXCEPT !.http.transport = 0]
             e == [d EXCEPT !.http.state = "Disconnected", !.http.started = FALSE]
             p == s.http.stopPromise
             v == IF s.http.state = "Disconnecting" THEN [e EXCEPT !.conn[p].settled = TRUE] ELSE e
  <2>1. s \in Heap /\ s.http \in HttpFields
    BY Parts, Zenon DEF Sound
  <2>2. d = Dropped(s)
    BY <2>1, Parts, Zenon DEF Dropped, SetHttp
  <2>3. e = Ended(s)
    BY <2>1, Parts, Zenon DEF Ended, SetHttp
  <2>4. \/ s.http.state \in {"Disconnected", "Connecting"} /\ t = d
        \/ /\ s.http.state \notin {"Disconnected", "Connecting"}
           /\ t = connectionClosed(v, retry, act) \/ t = v
    BY Zenon DEF stopConnection
  <2>5. s.http.state \in {"Disconnected", "Connecting", "Connected", "Disconnecting"}
    BY <2>1, Zenon DEF HttpFields, HttpStates, HubStates
  <2> HIDE DEF d, e
  <2>6. /\ Sound(e) /\ e.hub = s.hub /\ e.frame = s.frame /\ e.conn = s.conn
        /\ e.connects = s.connects
    BY <2>3, <1>EndedEffect, Zenon
  <2>7. s.http.state = "Disconnecting" => v = Resolved(s)
    <3>1. e \in Heap
      BY <2>6, Zenon DEF Sound
    <3>2. [e EXCEPT !.conn[p].settled = TRUE] = SetConn(e, p, [e.conn[p] EXCEPT !.settled = TRUE])
      BY <3>1, Parts, Zenon DEF SetConn
    <3>3. Resolved(s) = SetConn(e, p, [e.conn[p] EXCEPT !.settled = TRUE])
      BY <2>3, <2>6, Zenon DEF Resolved
    <3> QED
      BY <3>2, <3>3, Zenon
  <2>8. s.http.state # "Disconnecting" => v = e
    BY Zenon
  <2> HIDE DEF v
  <2>9. /\ Sound(v) /\ v.frame = s.frame /\ v.connects = s.connects
        /\ v.http = Ended(s).http
        /\ \A c \in Conns : v.conn[c].live = s.conn[c].live /\ v.conn[c].stop = s.conn[c].stop
    BY <2>3, <2>6, <2>7, <2>8, <1>ResolvedEffect
  <2> QED
    BY <2>2, <2>4, <2>5, <2>9, Zenon DEF EndsAs
<1>StopConnectionEarly.
  ASSUME NEW s, Sound(s), s.http.state = "Connecting",
         NEW retry, NEW act, NEW t, t = stopConnection(s, retry, act)
  PROVE  t = Dropped(s)
  <2> USE <1>StopConnectionEarly
  <2>1. EndsAs(s, t, retry, act)
    BY <1>StopConnectionCases, Zenon
  <2> QED
    BY <2>1, Zenon DEF EndsAs
<1>StopConnectionSound.
  ASSUME NEW s, Sound(s), NEW retry, NEW act \in BOOLEAN, NEW t, t = stopConnection(s, retry, act)
  PROVE  Sound(t)
  <2> USE <1>StopConnectionSound
  <2>1. \/ t = Dropped(s)
        \/ \E u : Sound(u) /\ (t = connectionClosed(u, retry, act) \/ t = u)
    <3>1. EndsAs(s, t, retry, act)
      BY <1>StopConnectionCases, Zenon
    <3> QED
      BY <3>1, Zenon DEF EndsAs
  <2> QED
    BY <2>1, DroppedEffect, <1>ConnectionClosedSound, Zenon
<1>StopConnectionEffect.
  ASSUME NEW s, Sound(s), NEW retry, NEW act, act = FALSE, NEW t, t = stopConnection(s, retry, act)
  PROVE  Shut(s, t)
  <2> USE <1>StopConnectionEffect
  <2>1. CASE s.http.state \in {"Disconnected", "Connecting"} /\ t = Dropped(s)
    <3>1. /\ t.hub = s.hub /\ t.frame = s.frame /\ t.conn = s.conn /\ t.connects = s.connects
          /\ t.http.transport = 0 /\ t.http.state = s.http.state
          /\ t.http.inherentKeepAlive = s.http.inherentKeepAlive
      BY <2>1, DroppedEffect
    <3>2. t.http.state = StateAfter(s)
      BY <2>1, <3>1, Zenon DEF StateAfter
    <3>3. Calm(s, t)
      BY <3>1, Zenon DEF Calm
    <3> QED
      BY <3>1, <3>2, <3>3, Zenon DEF Shut
  <2>2. ASSUME s.http.state \in {"Connected", "Disconnecting"},
               NEW u, Sound(u), u.frame = s.frame, u.connects = s.connects,
               u.http = Ended(s).http,
               \A c \in Conns : u.conn[c].live = s.conn[c].live /\ u.conn[c].stop = s.conn[c].stop,
               t = connectionClosed(u, retry, act) \/ t = u
        PROVE  /\ t.connects = s.connects /\ t.http = Ended(s).http
               /\ \A c \in Conns : t.conn[c].live = s.conn[c].live /\ t.conn[c].stop = s.conn[c].stop
               /\ Calm(s, t)
    <3>1. t.http = u.http /\ t.conn = u.conn /\ t.connects = u.connects /\ Calm(u, t)
      <4>1. CASE t = u
        BY <4>1, Zenon DEF Calm
      <4>2. CASE t = connectionClosed(u, retry, act)
        BY <2>2, <4>2, <1>ConnectionClosedEffect, Zenon
      <4> QED
        BY <2>2, <4>1, <4>2, Zenon
    <3> QED
      BY <2>2, <3>1 DEF Calm
  <2>3. /\ Ended(s).http.transport = 0 /\ Ended(s).http.state = "Disconnected"
        /\ Ended(s).http.inherentKeepAlive = s.http.inherentKeepAlive
    BY <1>EndedEffect, Zenon
  <2>4. ASSUME s.http.state \in {"Connected", "Disconnecting"},
               t.connects = s.connects, t.http = Ended(s).http, Calm(s, t),
               \A c \in Conns : t.conn[c].live = s.conn[c].live /\ t.conn[c].stop = s.conn[c].stop
        PROVE  Shut(s, t)
    <3>1. t.http.state = StateAfter(s)
      BY <2>3, <2>4, Zenon DEF StateAfter
    <3> QED
      BY <2>3, <2>4, <3>1, Zenon DEF Shut
  <2>5. CASE s.http.state \in {"Connected", "Disconnecting"} /\
             \E u : /\ Sound(u) /\ u.frame = s.frame /\ u.connects = s.connects
                    /\ u.http = Ended(s).http
                    /\ \A c \in Conns : u.conn[c].live = s.conn[c].live /\ u.conn[c].stop = s.conn[c].stop
                    /\ t = connectionClosed(u, retry, act) \/ t = u
    BY <2>2, <2>4, <2>5, Zenon
  <2>6. EndsAs(s, t, retry, act)
    BY <1>StopConnectionCases, Zenon
  <2> QED
    BY <2>1, <2>5, <2>6, Zenon DEF EndsAs
<1>LostEffect.
  ASSUME NEW s, Sound(s), NEW c \in Conns, NEW t, t = Lost(s, c)
  PROVE  /\ Sound(t) /\ t.http = s.http /\ t.hub = s.hub /\ t.frame = s.frame
         /\ t.connects = s.connects
         /\ ~t.conn[c].live /\ t.conn[c].stop = s.conn[c].stop
         /\ \A d \in Conns : d # c => t.conn[d] = s.conn[d]
  <2> USE <1>LostEffect
  <2> DEFINE x == [s.conn[c] EXCEPT !.live = FALSE]
  <2>1. s \in Heap /\ s.conn[c] \in ConnFields
    BY Parts, Zenon DEF Sound
  <2>2. x \in ConnFields /\ ~x.live /\ x.stop = s.conn[c].stop
    BY <2>1, Zenon DEF ConnFields
  <2>3. t = SetConn(s, c, x)
    BY Zenon DEF Lost
  <2> HIDE DEF x
  <2>4. /\ t \in Heap /\ t.http = s.http /\ t.hub = s.hub /\ t.frame = s.frame
        /\ t.connects = s.connects
        /\ t.conn[c] = x /\ \A d \in Conns : d # c => t.conn[d] = s.conn[d]
    BY <2>1, <2>2, <2>3, SetConnEffect
  <2>5. Sound(t)
    BY <2>4, SoundKept, Zenon
  <2> QED
    BY <2>2, <2>4, <2>5, Zenon
<1>TransportClosesForm.
  ASSUME NEW s, Sound(s), NEW c \in Conns, NEW retry, NEW act
  PROVE  transportCloses(s, c, retry, act) = stopConnection(Lost(s, c), retry, act)
  <2> USE <1>TransportClosesForm
  <2>1. s \in Heap
    BY Zenon DEF Sound
  <2>2. [s EXCEPT !.conn[c].live = FALSE] = Lost(s, c)
    BY <2>1, Parts, Zenon DEF Lost, SetConn
  <2> QED
    BY <2>2, Zenon DEF transportCloses
<1>TransportClosesSound.
  ASSUME NEW s, Sound(s), NEW c \in Conns, NEW retry, NEW act \in BOOLEAN,
         NEW t, t = transportCloses(s, c, retry, act)
  PROVE  Sound(t)
  <2> USE <1>TransportClosesSound
  <2>1. t = stopConnection(Lost(s, c), retry, act)
    BY <1>TransportClosesForm, Zenon
  <2>2. Sound(Lost(s, c))
    BY <1>LostEffect, Zenon
  <2> QED
    BY <2>1, <2>2, <1>StopConnectionSound, Zenon
<1>TransportClosesEffect.
  ASSUME NEW s, Sound(s), NEW c \in Conns, NEW retry, NEW act, act = FALSE,
         NEW t, t = transportCloses(s, c, retry, act)
  PROVE  ShutWith(s, c, t)
  <2> USE <1>TransportClosesEffect
  <2> DEFINE v == Lost(s, c)
  <2>1. t = stopConnection(v, retry, act)
    BY <1>TransportClosesForm, Zenon
  <2>2. /\ Sound(v) /\ v.http = s.http /\ v.frame = s.frame /\ v.connects = s.connects
        /\ ~v.conn[c].live /\ v.conn[c].stop = s.conn[c].stop
        /\ \A d \in Conns : d # c => v.conn[d] = s.conn[d]
    BY <1>LostEffect
  <2> HIDE DEF v
  <2>3. Shut(v, t)
    <3>1. Sound(v) /\ act = FALSE
      BY <2>2, Zenon
    <3> QED
      BY <2>1, <3>1, <1>StopConnectionEffect, Zenon
  <2>4. /\ t.connects = v.connects /\ t.http.transport = 0
        /\ t.http.state = StateAfter(v)
        /\ t.http.inherentKeepAlive = v.http.inherentKeepAlive
        /\ \A d \in Conns : t.conn[d].live = v.conn[d].live /\ t.conn[d].stop = v.conn[d].stop
        /\ Calm(v, t)
    BY <2>3, Zenon DEF Shut
  <2> HIDE DEF v
  <2>5. /\ t.connects = s.connects /\ t.http.transport = 0
        /\ t.http.state = StateAfter(s)
        /\ t.http.inherentKeepAlive = s.http.inherentKeepAlive
        /\ ~t.conn[c].live
        /\ \A d \in Conns : /\ t.conn[d].stop = s.conn[d].stop
                            /\ d # c => t.conn[d].live = s.conn[d].live
        /\ Calm(s, t)
    BY <2>2, <2>4, Zenon DEF Calm, StateAfter
  <2> QED
    BY <2>5, Zenon DEF ShutWith
\* The transport closes; an application that does not react gives no callback.
<1>ClosesFacts.
  ASSUME NEW s, Sound(s), NEW c \in Conns, NEW retry, NEW act \in Acts,
         NEW u, u = transportCloses(s, c, retry, act)
  PROVE  Sound(u) /\ (~reacts => ShutWith(s, c, u))
  <2> USE <1>ClosesFacts
  <2>1. act \in BOOLEAN /\ (~reacts => act = FALSE)
    BY ActsFacts, Zenon
  <2>2. Sound(u)
    BY <2>1, <1>TransportClosesSound, Zenon
  <2>3. ASSUME act = FALSE
        PROVE  ShutWith(s, c, u)
    BY <2>3, <1>TransportClosesEffect, Zenon
  <2> QED
    BY <2>1, <2>2, <2>3, Zenon
\* An open transport closes: nothing is left open.
<1>ClosesHeld.
  ASSUME NEW s, Sound(s), NEW c \in Conns, s.conn[c].live, s.conn[c].stop # "transport",
         NEW retry, NEW act \in Acts, NEW t, t = transportCloses(s, c, retry, act)
  PROVE  Sound(t) /\ (~reacts /\ Held(s) => Held(t) /\ Down(t))
  <2> USE <1>ClosesHeld
  <2>1. Sound(t) /\ (~reacts => ShutWith(s, c, t))
    BY <1>ClosesFacts, Zenon
  <2>2. ASSUME ShutWith(s, c, t), Held(s)
        PROVE  Held(t) /\ Down(t)
    <3>1. /\ t.connects = s.connects /\ t.http.transport = 0 /\ t.http.state = StateAfter(s)
          /\ ~t.conn[c].live
          /\ \A d \in Conns : /\ t.conn[d].stop = s.conn[d].stop
                              /\ d # c => t.conn[d].live = s.conn[d].live
          /\ Calm(s, t)
      BY <2>2, Zenon DEF ShutWith
    <3>2. c = s.connects /\ s.http.state \in {"Connected", "Disconnecting"}
      BY <2>2, Zenon DEF Held
    <3>3. \A f \in Frames : s.frame[f].at \notin Early
      BY <2>2, Zenon DEF Held
    <3>4. \A d \in Conns : s.conn[d].live \/ s.conn[d].stop = "transport" => d = c
      BY <2>2, <3>2, Zenon DEF Held
    <3>5. \A f \in Frames : t.frame[f].at \notin Early
      BY <3>1, <3>3, Zenon DEF Calm, Early
    <3>6. \A d \in Conns : /\ ~t.conn[d].live /\ t.conn[d].stop # "transport"
                           /\ t.conn[d].stop = "awaitStart" => s.conn[d].stop = "awaitStart"
      BY <3>1, <3>4
    <3>7. Down(t)
      BY <3>1, <3>2, Zenon DEF Down, StateAfter
    <3> QED
      BY <2>2, <3>1, <3>5, <3>6, <3>7, HeldEnds
  <2> QED
    BY <2>1, <2>2, Zenon
<1> QED
  BY <1>StopConnectionEarly, <1>StopConnectionSound, <1>StopConnectionEffect, <1>ClosesFacts,
     <1>ClosesHeld, Zenon

\* stopInternal of the HttpConnection goes on.
LEMMA HeldStops ==
  ASSUME NEW s, NEW t, Held(s), t.http = s.http, t.frame = s.frame, t.connects = s.connects,
         \A c \in Conns : t.conn[c].live = s.conn[c].live,
         \A c \in Conns : \/ t.conn[c].stop = s.conn[c].stop
                         \/ t.conn[c].stop \in {"promise", "done"}
                         \/ /\ t.conn[c].stop = "transport" /\ c = s.connects
                            /\ s.http.state = "Disconnecting"
                            /\ \A f \in Frames : s.frame[f].at \notin Early
  PROVE  Held(t)
<1>1. \A c \in Conns : t.conn[c].live =>
        /\ t.http.transport = c /\ c = t.connects
        /\ t.http.state \in {"Connected", "Disconnecting"}
  BY DEF Held
<1>2. \A f \in Frames : t.frame[f].at \in Early =>
        /\ t.frame[f].c = t.connects /\ t.http.state \in {"Connecting", "Disconnecting"}
        /\ t.frame[f].at # "negotiate" => t.http.transport = t.connects
        /\ \A c \in Conns : ~t.conn[c].live /\ t.conn[c].stop \notin {"transport", "tail"}
        /\ \A g \in Frames : t.frame[g].at \in Early => g = f
  <2> SUFFICES ASSUME NEW f \in Frames, s.frame[f].at \in Early
               PROVE  /\ s.frame[f].c = s.connects /\ s.http.state \in {"Connecting", "Disconnecting"}
                      /\ s.frame[f].at # "negotiate" => s.http.transport = s.connects
                      /\ \A c \in Conns : ~t.conn[c].live /\ t.conn[c].stop \notin {"transport", "tail"}
                      /\ \A g \in Frames : s.frame[g].at \in Early => g = f
    BY Zenon
  <2> QED
    BY Zenon DEF Held
<1>3. \A c \in Conns :
        /\ t.conn[c].stop = "awaitStart" => c = t.connects /\ Down(t)
        /\ t.conn[c].stop = "transport" => c = t.connects /\ t.http.state = "Disconnecting"
        /\ t.conn[c].stop = "tail" => \A d \in Conns : ~t.conn[d].live
  BY DEF Held, Down
<1>4. t.http.state = "Disconnected" => t.http.transport = 0
  BY Zenon DEF Held
<1> QED
  BY <1>1, <1>2, <1>3, <1>4, Zenon DEF Held

\* Steps that keep the invariants can follow each other.
LEMMA FineTransitive ==
  ASSUME NEW s, NEW t, NEW u, Fine(s, t), Fine(t, u)
  PROVE  Fine(s, u)
BY Zenon DEF Fine

StopPoints == {"none", "awaitStart", "transport", "tail", "promise", "done"}


\* stopInternal goes on to another point, or to await stopPromise.
Moved(s, c, x) == SetConn(s, c, [s.conn[c] EXCEPT !.stop = x])


Awaiting(s, c, x, p) == SetConn(s, c, [s.conn[c] EXCEPT !.stop = x, !.awaits = p])


\* No attempt of the c-th start is under way.
NotEarly(s, c) == \A f \in Frames : s.frame[f].c = c => s.frame[f].at \notin Early


-----------------------------------------------------------------------------
(* HttpConnection.stopInternal.                                            *)

\* The continuations of HttpConnection.stop.
LEMMA StopSteps ==
  /\ \A c \in Conns :
       Sound(heap) /\ StopCompletes(c) =>
         Fine(heap, heap')
  /\ \A c \in Conns :
       Sound(heap) /\ TransportStopped(c) =>
         Fine(heap, heap')
  /\ \A c \in Conns, retry \in BOOLEAN, act \in Acts :
       Sound(heap) /\ PollingStops(c, retry, act) =>
         Fine(heap, heap')
  /\ \A c \in Conns, retry \in BOOLEAN, act \in Acts :
       Sound(heap) /\ StopTransport(c, retry, act) =>
         Fine(heap, heap')
\* What is known of the conn field of a stopping start after a step of stopInternal.
<1>StopMoves.
  ASSUME NEW s, Sound(s), NEW c \in Conns, NEW r \in ConnFields, NEW t, t = SetConn(s, c, r),
         r.live = s.conn[c].live, r.stop \in {"promise", "done"}
  PROVE  Fine(s, t)
  <2> USE <1>StopMoves
  <2>1. s \in Heap
    BY Zenon DEF Sound
  <2>2. /\ t \in Heap /\ t.http = s.http /\ t.hub = s.hub /\ t.frame = s.frame
        /\ t.connects = s.connects
        /\ t.conn[c] = r /\ \A d \in Conns : d # c => t.conn[d] = s.conn[d]
    BY <2>1, SetConnEffect
  <2>3. Sound(t)
    BY <2>2, SoundKept, Zenon
  <2>4. \A d \in Conns : /\ t.conn[d].live = s.conn[d].live
                         /\ t.conn[d].stop = s.conn[d].stop \/ t.conn[d].stop \in {"promise", "done"}
    BY <2>2, Zenon
  <2>5. ASSUME Held(s)
        PROVE  Held(t)
    BY <2>2, <2>4, <2>5, HeldStops, Zenon
  <2>6. ASSUME TimerInv(s)
        PROVE  TimerInv(t)
    BY <2>2, <2>6, Zenon DEF TimerInv, Down, Settling
  <2> QED
    BY <2>3, <2>5, <2>6, Zenon DEF Fine
\* Both change nothing but where stopInternal is.
<1>MovedEffect.
  ASSUME NEW s \in Heap, NEW c \in Conns, NEW x \in StopPoints, NEW p \in Conn0, NEW t,
         t = Moved(s, c, x) \/ t = Awaiting(s, c, x, p)
  PROVE  \E r \in ConnFields : t = SetConn(s, c, r) /\ r.live = s.conn[c].live /\ r.stop = x
  <2> USE <1>MovedEffect
  <2>1. s.conn[c] \in ConnFields
    BY Parts, Zenon
  <2>2. CASE t = Moved(s, c, x)
    <3> DEFINE r == [s.conn[c] EXCEPT !.stop = x]
    <3>1. r \in ConnFields /\ r.live = s.conn[c].live /\ r.stop = x
      BY <2>1, Zenon DEF ConnFields, StopPoints
    <3>2. t = SetConn(s, c, r)
      BY <2>2, Zenon DEF Moved
    <3> QED
      BY <3>1, <3>2, Zenon
  <2>3. CASE t = Awaiting(s, c, x, p)
    <3> DEFINE r == [s.conn[c] EXCEPT !.stop = x, !.awaits = p]
    <3>1. r \in ConnFields /\ r.live = s.conn[c].live /\ r.stop = x
      BY <2>1, Zenon DEF ConnFields, StopPoints
    <3>2. t = SetConn(s, c, r)
      BY <2>3, Zenon DEF Awaiting
    <3> QED
      BY <3>1, <3>2, Zenon
  <2> QED
    BY <2>2, <2>3, Zenon
<1>StopCompletesFine.
  ASSUME Sound(heap), NEW c \in Conns, StopCompletes(c)
  PROVE  Fine(heap, heap')
  <2> USE <1>StopCompletesFine
  <2> DEFINE s == heap
  <2>1. Sound(s) /\ Becomes([s EXCEPT !.conn[c].stop = "done"])
    BY Zenon DEF StopCompletes
  <2> HIDE DEF s
  <2>2. s \in Heap
    BY <2>1, Zenon DEF Sound
  <2>3. PICK x \in {"promise", "done"} : Becomes(Moved(s, c, x))
    <3>1. [s EXCEPT !.conn[c].stop = "done"] = Moved(s, c, "done")
      BY <2>2, Parts, Zenon DEF SetConn, Moved
    <3> QED
      BY <2>1, <3>1, Zenon
  <2>4. PICK r \in ConnFields : /\ Moved(s, c, x) = SetConn(s, c, r) /\ r.live = s.conn[c].live
                                /\ r.stop = x
    BY <2>2, <1>MovedEffect, Numbers DEF StopPoints
  <2>5. Fine(s, Moved(s, c, x))
    BY <2>1, <2>4, <1>StopMoves, Zenon
  <2> QED
    BY <2>3, <2>5, BecomesFine, Zenon DEF s
<1>TransportStoppedFine.
  ASSUME Sound(heap), NEW c \in Conns, TransportStopped(c)
  PROVE  Fine(heap, heap')
  <2> USE <1>TransportStoppedFine
  <2> DEFINE s == heap
             p == s.http.stopPromise
             v == Dropped(s)
             t == [s EXCEPT !.http.transport = 0, !.conn[c].stop = "promise", !.conn[c].awaits = p]
  <2>1. Sound(s) /\ s.conn[c].stop = "tail" /\ Becomes(t)
    BY HeapParts, Zenon DEF TransportStopped
  <2> HIDE DEF s
  <2>2. s \in Heap /\ p \in Conn0
    BY <2>1, Parts, Zenon DEF Sound, HttpFields
  <2> HIDE DEF p
  <2>3. /\ Sound(v) /\ v.hub = s.hub /\ v.frame = s.frame /\ v.conn = s.conn
        /\ v.connects = s.connects
        /\ v.http.transport = 0 /\ v.http.state = s.http.state
        /\ v.http.inherentKeepAlive = s.http.inherentKeepAlive
    BY <2>1, DroppedEffect, Zenon
  <2>4. t = [v EXCEPT !.conn[c].stop = "promise", !.conn[c].awaits = p]
    BY <2>2, Parts, Zenon DEF Dropped, SetHttp, Heap
  <2> HIDE DEF v, t
  <2>5. PICK x \in {"promise", "done"} : t = Awaiting(v, c, x, p)
    <3>1. PICK x \in {"promise", "done"} : t = [v EXCEPT !.conn[c].stop = x, !.conn[c].awaits = p]
      BY <2>4, Zenon
    <3>2. v \in Heap
      BY <2>3, Zenon DEF Sound
    <3>3. [v EXCEPT !.conn[c].stop = x, !.conn[c].awaits = p] = Awaiting(v, c, x, p)
      BY <3>2, Parts, Zenon DEF SetConn, Awaiting, Heap
    <3> QED
      BY <3>1, <3>3, Zenon
  <2>6. PICK r \in ConnFields : t = SetConn(v, c, r) /\ r.live = v.conn[c].live /\ r.stop = x
    BY <2>2, <2>3, <2>5, <1>MovedEffect DEF StopPoints, Sound
  <2>7. Fine(v, t)
    BY <2>3, <2>6, <1>StopMoves, Zenon
  <2>8. Fine(s, v)
    <3>1. ASSUME Held(s)
          PROVE  Held(v)
      BY <2>1, <2>3, <3>1, Zenon DEF Held, Down
    <3>2. ASSUME TimerInv(s)
          PROVE  TimerInv(v)
      BY <2>3, <3>2, Zenon DEF TimerInv, Down, Settling
    <3> QED
      BY <2>3, <3>1, <3>2, Zenon DEF Fine
  <2> QED
    BY <2>1, <2>7, <2>8, FineTransitive, BecomesFine, Zenon DEF s
\* stopInternal ends the transport, or finds none, and goes on.
<1>StopEnds.
  ASSUME NEW s, Sound(s), NEW c \in Conns,
         s.conn[c].stop = "transport" \/ (s.conn[c].stop = "awaitStart" /\ NotEarly(s, c)),
         NEW u, Sound(u), ~reacts /\ Held(s) => ShutWith(s, c, u),
         NEW r \in ConnFields, NEW t, t = SetConn(u, c, r), r.live = u.conn[c].live,
         r.stop \in {"promise", "tail"}
  PROVE  Fine(s, t)
  <2> USE <1>StopEnds
  <2>1. u \in Heap
    BY Zenon DEF Sound
  <2>2. /\ t \in Heap /\ t.http = u.http /\ t.hub = u.hub /\ t.frame = u.frame
        /\ t.connects = u.connects
        /\ t.conn[c] = r /\ \A d \in Conns : d # c => t.conn[d] = u.conn[d]
    BY <2>1, SetConnEffect
  <2>3. Sound(t)
    BY <2>2, SoundKept, Zenon
  <2>4. ASSUME ~reacts, Held(s)
        PROVE  Held(t) /\ Down(t)
    <3>1. /\ u.connects = s.connects /\ u.http.transport = 0 /\ u.http.state = StateAfter(s)
          /\ ~u.conn[c].live
          /\ \A d \in Conns : /\ u.conn[d].stop = s.conn[d].stop
                              /\ d # c => u.conn[d].live = s.conn[d].live
          /\ Calm(s, u)
      BY <2>4, Zenon DEF ShutWith
    <3>2. c = s.connects /\ Down(s)
      BY <2>4, Zenon DEF Held, Down
    <3>3. /\ \A f \in Frames : s.frame[f].at \notin Early
          /\ \A d \in Conns : s.conn[d].live \/ s.conn[d].stop = "transport" => d = c
      <4>1. \A f \in Frames : s.frame[f].at \notin Early
        BY <2>4, <3>2, Zenon DEF Held, NotEarly
      <4>2. \A d \in Conns : s.conn[d].live \/ s.conn[d].stop = "transport" => d = c
        BY <2>4, <3>2, Zenon DEF Held
      <4> QED
        BY <4>1, <4>2, Zenon
    <3>4. \A f \in Frames : t.frame[f].at \notin Early
      BY <2>2, <3>1, <3>3, Zenon DEF Calm, Early
    <3>5. \A d \in Conns : /\ ~t.conn[d].live /\ t.conn[d].stop # "transport"
                           /\ t.conn[d].stop = "awaitStart" => s.conn[d].stop = "awaitStart"
      BY <2>2, <3>1, <3>3, Zenon
    <3>6. Down(t) /\ t.http.transport = 0 /\ t.connects = s.connects
      BY <2>2, <3>1, <3>2 DEF Down, StateAfter
    <3> QED
      BY <2>4, <3>4, <3>5, <3>6, HeldEnds, Zenon
  <2> QED
    BY <2>3, <2>4, TimerDown, Zenon DEF Fine
\* The transport of a start is about to stop.
<1>StopBegins.
  ASSUME NEW s, Sound(s), NEW c \in Conns, s.conn[c].stop = "awaitStart", NotEarly(s, c),
         s.http.transport # 0, NEW r \in ConnFields, NEW t, t = SetConn(s, c, r),
         r.live = s.conn[c].live, r.stop = "transport"
  PROVE  Fine(s, t)
  <2> USE <1>StopBegins
  <2>1. s \in Heap
    BY Zenon DEF Sound
  <2>2. /\ t \in Heap /\ t.http = s.http /\ t.hub = s.hub /\ t.frame = s.frame
        /\ t.connects = s.connects
        /\ t.conn[c] = r /\ \A d \in Conns : d # c => t.conn[d] = s.conn[d]
    BY <2>1, SetConnEffect
  <2>3. Sound(t)
    BY <2>2, SoundKept, Zenon
  <2>4. ASSUME Held(s)
        PROVE  Held(t)
    <3>1. c = s.connects /\ s.http.state = "Disconnecting"
      BY <2>4, Zenon DEF Held, Down
    <3>2. \A f \in Frames : s.frame[f].at \notin Early
      BY <2>4, <3>1, Zenon DEF Held, NotEarly
    <3>3. \A d \in Conns : /\ t.conn[d].live = s.conn[d].live
                           /\ t.conn[d].stop = s.conn[d].stop \/ (d = c /\ t.conn[d].stop = "transport")
      BY <2>2, Zenon
    <3> QED
      BY <2>2, <2>4, <3>1, <3>2, <3>3, HeldStops
  <2>5. ASSUME TimerInv(s)
        PROVE  TimerInv(t)
    BY <2>2, <2>5 DEF TimerInv, Down, Settling
  <2> QED
    BY <2>3, <2>4, <2>5, Zenon DEF Fine
<1>ShutFacts.
  ASSUME NEW s, Sound(s), NEW c \in Conns, s.http.transport = 0, NEW retry, NEW act \in Acts,
         NEW u, u = stopConnection(s, retry, act)
  PROVE  Sound(u) /\ (~reacts /\ Held(s) => ShutWith(s, c, u))
  <2> USE <1>ShutFacts
  <2>1. act \in BOOLEAN /\ (~reacts => act = FALSE)
    BY ActsFacts, Zenon
  <2>2. Sound(u)
    BY <2>1, ClosingFacts, Zenon
  <2>3. ASSUME act = FALSE
        PROVE  Shut(s, u)
    BY <2>3, ClosingFacts, Zenon
  <2> HIDE DEF stopConnection
  <2>4. ASSUME Shut(s, u), Held(s)
        PROVE  ShutWith(s, c, u)
    <3>1. c # 0
      BY Numbers, Zenon
    <3>2. ~s.conn[c].live
      BY <2>4, <3>1, Zenon DEF Held
    <3> QED
      BY <2>4, <3>2, Zenon DEF Shut, ShutWith
  <2> QED
    BY <2>1, <2>2, <2>3, <2>4, Zenon
<1>PollingStopsFine.
  ASSUME Sound(heap), NEW c \in Conns, NEW retry \in BOOLEAN, NEW act \in Acts,
         PollingStops(c, retry, act)
  PROVE  Fine(heap, heap')
  <2> USE <1>PollingStopsFine
  <2> DEFINE s == heap
             u == transportCloses(s, c, retry, act)
             t == [u EXCEPT !.conn[c].stop = "tail"]
  <2>1. Sound(s) /\ s.conn[c].stop = "transport" /\ Becomes(t)
    BY HeapParts, Zenon DEF PollingStops
  <2> HIDE DEF s
  <2>2. Sound(u) /\ (~reacts => ShutWith(s, c, u))
    BY <2>1, ClosingFacts, Zenon
  <2> HIDE DEF u
  <2>3. u \in Heap
    BY <2>2, Zenon DEF Sound
  <2>4. PICK x \in {"promise", "tail"} : t = Moved(u, c, x)
    <3>1. t = Moved(u, c, "tail")
      BY <2>3, Parts, Zenon DEF SetConn, Moved
    <3> HIDE DEF t
    <3> QED
      BY <3>1, Zenon
  <2> HIDE DEF t
  <2>5. PICK r \in ConnFields : t = SetConn(u, c, r) /\ r.live = u.conn[c].live /\ r.stop = x
    BY <2>3, <2>4, <1>MovedEffect, Numbers DEF StopPoints
  <2>6. Fine(s, t)
    BY <2>1, <2>2, <2>5, <1>StopEnds, Zenon
  <2> QED
    BY <2>1, <2>6, BecomesFine, Zenon DEF s
<1>StopTransportFine.
  ASSUME Sound(heap), NEW c \in Conns, NEW retry \in BOOLEAN, NEW act \in Acts,
         StopTransport(c, retry, act)
  PROVE  Fine(heap, heap')
  <2> USE <1>StopTransportFine
  <2> DEFINE s == heap
             p == s.http.stopPromise
             u == stopConnection(s, retry, act)
             v == transportCloses(s, c, retry, act)
  <2>1. Sound(s) /\ s.conn[c].stop = "awaitStart"
    BY HeapParts, Zenon DEF StopTransport
  <2>2. NotEarly(s, c)
    BY HeapParts, Zenon DEF StopTransport, Starting, NotEarly, Early
  <2>3. \/ s.http.transport = 0 /\ Becomes([u EXCEPT !.conn[c].stop = "promise", !.conn[c].awaits = p])
        \/ s.http.transport # 0 /\ Becomes([s EXCEPT !.conn[c].stop = "transport"])
        \/ Becomes([v EXCEPT !.conn[c].stop = "tail"])
    BY HeapParts, Zenon DEF StopTransport
  <2>a. heap = s
    BY Zenon
  <2> HIDE DEF s
  <2>4. s \in Heap /\ p \in Conn0
    BY <2>1, Parts, Zenon DEF Sound, HttpFields
  <2> HIDE DEF p
  <2>5. CASE s.http.transport = 0 /\ Becomes([u EXCEPT !.conn[c].stop = "promise", !.conn[c].awaits = p])
    <3> DEFINE t == [u EXCEPT !.conn[c].stop = "promise", !.conn[c].awaits = p]
    <3>1. Sound(u) /\ (~reacts /\ Held(s) => ShutWith(s, c, u))
      BY <2>1, <2>5, <1>ShutFacts, Zenon
    <3>2. u \in Heap
      BY <3>1, Zenon DEF Sound
    <3> HIDE DEF u
    <3>3. PICK x \in {"promise", "tail"} : t = Awaiting(u, c, x, p)
      <4>1. PICK x \in {"promise", "tail"} : t = [u EXCEPT !.conn[c].stop = x, !.conn[c].awaits = p]
        BY Zenon
      <4>2. [u EXCEPT !.conn[c].stop = x, !.conn[c].awaits = p] = Awaiting(u, c, x, p)
        BY <3>2, Parts, Zenon DEF SetConn, Awaiting, Heap
      <4> QED
        BY <4>1, <4>2, Zenon
    <3>4. Becomes(t)
      BY <2>5, Zenon
    <3> HIDE DEF t
    <3>5. PICK r \in ConnFields : t = SetConn(u, c, r) /\ r.live = u.conn[c].live /\ r.stop = x
      BY <2>4, <3>2, <3>3, <1>MovedEffect DEF StopPoints
    <3>6. Fine(s, t)
      BY <2>1, <2>2, <3>1, <3>5, <1>StopEnds, Zenon
    <3> QED
      BY <2>a, <3>4, <3>6, BecomesFine, Zenon
  <2>6. CASE s.http.transport # 0 /\ Becomes([s EXCEPT !.conn[c].stop = "transport"])
    <3> DEFINE t == [s EXCEPT !.conn[c].stop = "transport"]
    <3>1. PICK x \in StopPoints : x = "transport" /\ t = Moved(s, c, x)
      <4>1. t = Moved(s, c, "transport")
        BY <2>4, Parts, Zenon DEF SetConn, Moved
      <4> HIDE DEF t
      <4> QED
        BY <4>1, Zenon DEF StopPoints
    <3>2. Becomes(t)
      BY <2>6, Zenon
    <3> HIDE DEF t
    <3>3. PICK r \in ConnFields : t = SetConn(s, c, r) /\ r.live = s.conn[c].live /\ r.stop = x
      BY <2>4, <3>1, <1>MovedEffect
    <3>4. Fine(s, t)
      BY <2>1, <2>2, <2>6, <3>1, <3>3, <1>StopBegins, Zenon
    <3> QED
      BY <2>a, <3>2, <3>4, BecomesFine, Zenon
  <2>7. CASE Becomes([v EXCEPT !.conn[c].stop = "tail"])
    <3> DEFINE t == [v EXCEPT !.conn[c].stop = "tail"]
    <3>1. Sound(v) /\ (~reacts => ShutWith(s, c, v))
      BY <2>1, ClosingFacts, Zenon
    <3>2. v \in Heap
      BY <3>1, Zenon DEF Sound
    <3> HIDE DEF v
    <3>3. PICK x \in {"promise", "tail"} : t = Moved(v, c, x)
      <4>1. t = Moved(v, c, "tail")
        BY <3>2, Parts, Zenon DEF SetConn, Moved
      <4> HIDE DEF t
      <4> QED
        BY <4>1, Zenon
    <3>4. Becomes(t)
      BY <2>7, Zenon
    <3> HIDE DEF t
    <3>5. PICK r \in ConnFields : t = SetConn(v, c, r) /\ r.live = v.conn[c].live /\ r.stop = x
      BY <3>2, <3>3, <1>MovedEffect, Numbers DEF StopPoints
    <3>6. Fine(s, t)
      BY <2>1, <2>2, <3>1, <3>5, <1>StopEnds, Zenon
    <3> QED
      BY <2>a, <3>4, <3>6, BecomesFine, Zenon
  <2> QED
    BY <2>3, <2>5, <2>6, <2>7, Zenon
<1> QED
  BY <1>StopCompletesFine, <1>TransportStoppedFine, <1>PollingStopsFine, <1>StopTransportFine, Zenon

\* A frame goes on.
LEMMA MoveSound ==
  ASSUME NEW s, NEW t, NEW f \in Frames, NEW r \in FrameFields, Sound(s), t = SetFrame(s, f, r),
         r.by = s.frame[f].by, r.c = s.frame[f].c, r.at # "delay",
         r.c = s.connects => /\ r.at \in {"failing", "rejected", "awaitStop"} => Down(s)
                             /\ r.at = "ok" => s.http.state # "Connecting"
  PROVE  Sound(t)
<1>1. s \in Heap
  BY Zenon DEF Sound
<1>2. /\ t \in Heap /\ t.http = s.http /\ t.hub = s.hub /\ t.connects = s.connects
      /\ t.frame[f] = r /\ \A g \in Frames : g # f => t.frame[g] = s.frame[g]
  BY <1>1, SetFrameEffect
<1>3. BoundsInv(t)
  BY <1>2 DEF Sound, BoundsInv
<1>4. StartsInv(t)
  BY <1>2 DEF Sound, StartsInv
<1>5. FailsInv(t)
  BY <1>2 DEF Sound, FailsInv, Down
<1> QED
  BY <1>2, <1>3, <1>4, <1>5, Zenon DEF Sound

Points == {"negotiate", "renegotiate", "connect", "ok", "awaitStop", "rejected", "connected",
            "sending", "handshake", "failing", "resolved"}


\* What holds when a frame of the last start is at the point.
MayGo(s, f, at) ==
  s.frame[f].c = s.connects => /\ at \in {"failing", "rejected", "awaitStop"} => Down(s)
                               /\ at = "ok" => s.http.state # "Connecting"


\* Going on to another point as a change of one frame.
LEMMA GotoForm ==
  ASSUME NEW s \in Heap, NEW f \in Frames, NEW at
  PROVE  Goto(s, f, at) = SetFrame(s, f, [s.frame[f] EXCEPT !.at = at])
BY Parts, Zenon DEF Goto, SetFrame

\* A frame goes on to another point.
LEMMA GotoEffect ==
  ASSUME NEW s, Sound(s), NEW f \in Frames, NEW at \in Points, MayGo(s, f, at),
         NEW t, t = Goto(s, f, at)
  PROVE  /\ Sound(t) /\ t.http = s.http /\ t.hub = s.hub /\ t.conn = s.conn
         /\ t.connects = s.connects
         /\ t.frame[f].at = at /\ t.frame[f].c = s.frame[f].c
         /\ t.frame[f].handshake = s.frame[f].handshake
         /\ \A g \in Frames : g # f => t.frame[g] = s.frame[g]
<1> DEFINE x == [s.frame[f] EXCEPT !.at = at]
<1>1. s \in Heap /\ s.frame[f] \in FrameFields
  BY Parts, Zenon DEF Sound
<1>2. /\ x \in FrameFields /\ x.at = at /\ x.c = s.frame[f].c /\ x.by = s.frame[f].by
      /\ x.handshake = s.frame[f].handshake
  BY <1>1, Zenon DEF FrameFields, Points
<1>3. t = SetFrame(s, f, x)
  BY <1>1, GotoForm, Zenon
<1> HIDE DEF x
<1>5. /\ t \in Heap /\ t.http = s.http /\ t.hub = s.hub /\ t.conn = s.conn
      /\ t.connects = s.connects
      /\ t.frame[f] = x /\ \A g \in Frames : g # f => t.frame[g] = s.frame[g]
  BY <1>1, <1>2, <1>3, SetFrameEffect
<1>6. Sound(t)
  BY <1>2, <1>3, MoveSound DEF Points, MayGo
<1> QED
  BY <1>2, <1>5, <1>6, Zenon

\* TimerInv is kept if nothing new needs the timer and the timer stays.
LEMMA TimerKept ==
  ASSUME NEW s, NEW t, TimerInv(s), Down(s) => Down(t),
         t.hub.state = "Connected" => s.hub.state = "Connected" \/ \E f \in Frames : Settling(s, f),
         \A f \in Frames : Settling(t, f) => Settling(s, f),
         s.hub.timeout => t.hub.timeout, s.http.inherentKeepAlive => t.http.inherentKeepAlive
  PROVE  TimerInv(t)
BY Zenon DEF TimerInv

\* A frame goes on within its own start.
LEMMA MoveFine ==
  ASSUME NEW s, Sound(s), NEW f \in Frames, NEW r \in FrameFields, NEW t, t = SetFrame(s, f, r),
         r.by = s.frame[f].by, r.c = s.frame[f].c, r.at # "delay", MayGo(s, f, r.at),
         r.at \in Early => s.frame[f].at \in Early \ {"negotiate"},
         r.at = "resolved" \/ (r.at = "handshake" /\ r.handshake = "resolved") => Settling(s, f)
  PROVE  Fine(s, t)
<1>1. s \in Heap
  BY Zenon DEF Sound
<1>2. /\ t.http = s.http /\ t.hub = s.hub /\ t.conn = s.conn /\ t.connects = s.connects
      /\ t.frame[f] = r /\ \A g \in Frames : g # f => t.frame[g] = s.frame[g]
  BY <1>1, SetFrameEffect
<1>3. Sound(t)
  BY MoveSound, Zenon DEF MayGo
<1>4. SameHold(s, t) /\ Quieter(s, t)
  BY <1>2, Zenon DEF SameHold, Quieter
<1>5. \A g \in Frames : Settling(t, g) => Settling(s, g)
  BY <1>2 DEF Settling
<1>6. Down(s) => Down(t)
  BY <1>2, Zenon DEF Down
<1>7. TimerInv(s) => TimerInv(t)
  BY <1>2, <1>5, <1>6, TimerKept, Zenon
<1> QED
  BY <1>3, <1>4, <1>7, HeldKept, Zenon DEF Fine

\* The same for a frame of which only the point changes.
LEMMA GotoFine ==
  ASSUME NEW s, Sound(s), NEW f \in Frames, NEW at \in Points, MayGo(s, f, at),
         at \in Early => s.frame[f].at \in Early \ {"negotiate"},
         at \notin {"resolved", "handshake"}, NEW t, t = Goto(s, f, at)
  PROVE  Fine(s, t)
<1> DEFINE x == [s.frame[f] EXCEPT !.at = at]
<1>1. s \in Heap /\ s.frame[f] \in FrameFields
  BY Parts, Zenon DEF Sound
<1>2. x \in FrameFields /\ x.at = at /\ x.c = s.frame[f].c /\ x.by = s.frame[f].by
  BY <1>1, Zenon DEF FrameFields, Points
<1>3. t = SetFrame(s, f, x)
  BY <1>1, GotoForm, Zenon
<1>4. at # "delay"
  BY Zenon DEF Points
<1> HIDE DEF x
<1> QED
  BY <1>2, <1>3, <1>4, MoveFine, Zenon

\* The transport opens.
Opened(s, c) == [s EXCEPT !.conn[c].live = TRUE]


AtConnect(s, f) == s.frame[f].at = "connect"


Stopped(s, retry, act) == stopConnection(s, retry, act)


-----------------------------------------------------------------------------
(* Answers to HttpConnection.startInternal.                                *)

\* Answers of the server and the ends of requests.
LEMMA AnswerFine ==
  ASSUME Sound(heap), Answer
  PROVE  Fine(heap, heap')
<1>FailStartEffect.
  ASSUME NEW s, Sound(s), NEW f \in Frames, NEW t, t = failStart(s, f)
  PROVE  /\ Sound(t) /\ t.hub = s.hub /\ t.conn = s.conn /\ t.connects = s.connects
         /\ t.http.state = "Disconnected" /\ t.http.transport = 0
         /\ t.frame[f].at = "rejected" /\ \A g \in Frames : g # f => t.frame[g] = s.frame[g]
  <2> USE <1>FailStartEffect
  <2> DEFINE a == [s.http EXCEPT !.state = "Disconnected", !.transport = 0]
             v == SetHttp(s, a)
             x == [s.frame[f] EXCEPT !.at = "rejected"]
  <2>1. s \in Heap /\ s.http \in HttpFields /\ s.frame[f] \in FrameFields
    BY Parts, Zenon DEF Sound
  <2>2. a \in HttpFields /\ a.state = "Disconnected" /\ a.transport = 0
    BY <2>1, Numbers, Zenon DEF HttpFields, HttpStates, HubStates
  <2>3. x \in FrameFields /\ x.by = s.frame[f].by /\ x.c = s.frame[f].c /\ x.at = "rejected"
    BY <2>1, Zenon DEF FrameFields
  <2>4. v = [s EXCEPT !.http.state = "Disconnected", !.http.transport = 0]
    BY <2>1, Parts, Zenon DEF SetHttp
  <2>5. t = [v EXCEPT !.frame[f].at = "rejected"]
    BY <2>4, Zenon DEF failStart
  <2> HIDE DEF a
  <2>6. /\ v \in Heap /\ v.hub = s.hub /\ v.conn = s.conn /\ v.connects = s.connects
        /\ v.frame = s.frame /\ v.http = a /\ Sound(v)
    BY <2>1, <2>2, SetHttpEffect, HttpSound
  <2> HIDE DEF v
  <2>7. t = SetFrame(v, f, [v.frame[f] EXCEPT !.at = "rejected"])
    BY <2>5, <2>6, Parts, Zenon DEF SetFrame
  <2>8. t = SetFrame(v, f, x)
    BY <2>6, <2>7, Zenon
  <2> HIDE DEF x
  <2>9. /\ t.http = v.http /\ t.hub = v.hub /\ t.conn = v.conn /\ t.connects = v.connects
        /\ t.frame[f] = x /\ \A g \in Frames : g # f => t.frame[g] = v.frame[g]
    BY <2>3, <2>6, <2>8, SetFrameEffect
  <2>10. Sound(t)
    <3>1. Down(v)
      BY <2>2, <2>6, Zenon DEF Down
    <3> QED
      BY <2>3, <2>6, <2>8, <3>1, MoveSound, Zenon
  <2> QED
    BY <2>2, <2>3, <2>6, <2>9, <2>10, Zenon
\* The kind of the transport changes.
<1>KindEffect.
  ASSUME NEW s, Sound(s), NEW c \in Conn0, NEW k \in Kinds,
         NEW t, t = [s EXCEPT !.conn[c].kind = k]
  PROVE  /\ Sound(t) /\ t.http = s.http /\ t.hub = s.hub /\ t.frame = s.frame
         /\ t.connects = s.connects
         /\ \A d \in Conns : t.conn[d].live = s.conn[d].live /\ t.conn[d].stop = s.conn[d].stop
  <2> USE <1>KindEffect
  <2> DEFINE x == [s.conn[c] EXCEPT !.kind = k]
             v == SetConn(s, c, x)
  <2>1. s \in Heap
    BY Zenon DEF Sound
  <2>2. t = v
    BY <2>1, Parts, Zenon DEF SetConn
  <2>3. /\ v \in Heap /\ v.http = s.http /\ v.hub = s.hub /\ v.frame = s.frame
        /\ v.connects = s.connects
        /\ \A d \in Conns : v.conn[d].live = s.conn[d].live /\ v.conn[d].stop = s.conn[d].stop
    <3>1. CASE c \in Conns
      <4>1. s.conn[c] \in ConnFields
        BY <2>1, <3>1, Parts, Zenon
      <4>2. x \in ConnFields /\ x.live = s.conn[c].live /\ x.stop = s.conn[c].stop
        BY <4>1, Zenon DEF ConnFields
      <4> HIDE DEF x
      <4>3. /\ v \in Heap /\ v.http = s.http /\ v.hub = s.hub /\ v.frame = s.frame
            /\ v.connects = s.connects
            /\ v.conn[c] = x /\ \A d \in Conns : d # c => v.conn[d] = s.conn[d]
        BY <2>1, <3>1, <4>2, SetConnEffect
      <4> QED
        BY <4>2, <4>3, Zenon
    <3>2. CASE c \notin Conns
      <4> HIDE DEF x
      <4>1. [s.conn EXCEPT ![c] = x] = s.conn
        BY <2>1, <3>2, Parts, Zenon
      <4>2. v = s
        BY <2>1, <4>1, Parts DEF SetConn
      <4> HIDE DEF v
      <4> QED
        BY <2>1, <4>2, Zenon
    <3> QED
      BY <3>1, <3>2, Zenon
  <2> HIDE DEF v
  <2>4. Sound(v)
    BY <2>3, SoundKept, Zenon
  <2> QED
    BY <2>2, <2>3, <2>4, Zenon
<1>TryTransportEffect.
  ASSUME NEW s, Sound(s), NEW f \in Frames, NEW k \in Kinds, NEW t, t = tryTransport(s, f, k)
  PROVE  /\ Sound(t) /\ t.hub = s.hub /\ t.connects = s.connects
         /\ t.http.state = s.http.state /\ t.http.transport = s.frame[f].c
         /\ t.http.inherentKeepAlive = s.http.inherentKeepAlive
         /\ \A d \in Conns : t.conn[d].live = s.conn[d].live /\ t.conn[d].stop = s.conn[d].stop
         /\ t.frame[f].at = "connect" /\ t.frame[f].c = s.frame[f].c
         /\ \A g \in Frames : g # f => t.frame[g] = s.frame[g]
  <2> USE <1>TryTransportEffect
  <2> DEFINE c == s.frame[f].c
             v == [s EXCEPT !.conn[c].kind = k]
             a == [v.http EXCEPT !.transport = c]
             w == SetHttp(v, a)
  <2>1. s \in Heap /\ s.frame[f] \in FrameFields
    BY Parts, Zenon DEF Sound
  <2>2. c \in Conn0
    BY <2>1, Zenon DEF FrameFields
  <2>3. t = [v EXCEPT !.http.transport = c, !.frame[f].at = "connect"]
    BY Zenon DEF tryTransport
  <2>4. /\ Sound(v) /\ v.http = s.http /\ v.hub = s.hub /\ v.frame = s.frame
        /\ v.connects = s.connects
        /\ \A d \in Conns : v.conn[d].live = s.conn[d].live /\ v.conn[d].stop = s.conn[d].stop
    <3> HIDE DEF c
    <3> QED BY <2>2, <1>KindEffect
  <2> HIDE DEF v
  <2>5. v \in Heap /\ v.http \in HttpFields
    BY <2>4, Parts, Zenon DEF Sound
  <2>6. w = [v EXCEPT !.http.transport = c]
    BY <2>5, Parts, Zenon DEF SetHttp
  <2>7. t = [w EXCEPT !.frame[f].at = "connect"]
    BY <2>3, <2>6, Zenon
  <2>8. /\ a \in HttpFields /\ a.state = v.http.state /\ a.stopPromise = v.http.stopPromise
        /\ a.transport = c /\ a.inherentKeepAlive = v.http.inherentKeepAlive
    BY <2>2, <2>5, Zenon DEF HttpFields
  <2> HIDE DEF a, c
  <2>9. /\ w \in Heap /\ w.http = a /\ w.hub = v.hub /\ w.conn = v.conn /\ w.frame = v.frame
        /\ w.connects = v.connects
    BY <2>5, <2>8, SetHttpEffect
  <2> HIDE DEF w
  <2>10. Sound(w)
    BY <2>4, <2>8, <2>9, SoundKept, Zenon
  <2>11. PICK at \in Points : at = "connect" /\ t = Goto(w, f, at) /\ MayGo(w, f, at)
    BY <2>7, Zenon DEF Goto, Points, MayGo
  <2>12. /\ Sound(t) /\ t.http = w.http /\ t.hub = w.hub /\ t.conn = w.conn
         /\ t.connects = w.connects
         /\ t.frame[f].at = at /\ t.frame[f].c = w.frame[f].c
         /\ \A g \in Frames : g # f => t.frame[g] = w.frame[g]
    BY <2>10, <2>11, GotoEffect
  <2> QED
    BY <2>4, <2>8, <2>9, <2>11, <2>12 DEF c
<1>StartedEffect.
  ASSUME NEW s, Sound(s), NEW f \in Frames, NEW t, t = started(s, f)
  PROVE  /\ Sound(t) /\ t.hub = s.hub /\ t.conn = s.conn /\ t.connects = s.connects
         /\ t.http.transport = s.http.transport
         /\ s.http.state = "Connecting" => t.http.state = "Connected"
         /\ s.http.state # "Connecting" => t.http.state = s.http.state
         /\ s.http.inherentKeepAlive => t.http.inherentKeepAlive
         /\ t.frame[f].at = "ok" /\ \A g \in Frames : g # f => t.frame[g] = s.frame[g]
  <2> USE <1>StartedEffect
  <2> DEFINE ka == s.http.inherentKeepAlive
                     \/ (s.http.transport # 0 /\ s.conn[s.frame[f].c].kind = "lp")
             st == IF s.http.state = "Connecting" THEN "Connected" ELSE s.http.state
             a == [s.http EXCEPT !.inherentKeepAlive = ka, !.state = st]
             v == SetHttp(s, a)
  <2>1. s \in Heap /\ s.http \in HttpFields /\ s.frame[f] \in FrameFields
    BY Parts, Zenon DEF Sound
  <2>2. ka \in BOOLEAN /\ (s.http.inherentKeepAlive => ka)
    BY Zenon
  <2>3. /\ st \in HttpStates /\ st # "Connecting"
        /\ s.http.state = "Connecting" => st = "Connected"
        /\ s.http.state # "Connecting" => st = s.http.state
    BY <2>1, Zenon DEF HttpFields, HttpStates, HubStates
  <2>4. t = [Goto(s, f, "ok") EXCEPT !.http.inherentKeepAlive = ka, !.http.state = st]
    BY Zenon DEF started
  <2> HIDE DEF ka, st
  <2>5. /\ a \in HttpFields /\ a.state = st /\ a.stopPromise = s.http.stopPromise
        /\ a.transport = s.http.transport /\ a.inherentKeepAlive = ka
    BY <2>1, <2>2, <2>3, Zenon DEF HttpFields
  <2>6. t = Goto(v, f, "ok")
    BY <2>1, <2>4, Parts, Zenon DEF Goto, SetHttp
  <2> HIDE DEF a
  <2>7. /\ Sound(v) /\ v.http = a /\ v.hub = s.hub /\ v.conn = s.conn /\ v.frame = s.frame
        /\ v.connects = s.connects
    <3>1. s.http.state = "Disconnecting" => s.http.stopPromise # 0
      BY Zenon DEF Sound, BoundsInv
    <3> QED
      BY <2>1, <2>3, <2>5, <3>1, SetHttpEffect, HttpSound
  <2> HIDE DEF v
  <2>8. PICK at \in Points : at = "ok" /\ t = Goto(v, f, at) /\ MayGo(v, f, at)
    BY <2>3, <2>5, <2>6, <2>7, Zenon DEF Points, MayGo
  <2>9. /\ Sound(t) /\ t.http = v.http /\ t.hub = v.hub /\ t.conn = v.conn
        /\ t.connects = v.connects
        /\ t.frame[f].at = at
        /\ \A g \in Frames : g # f => t.frame[g] = v.frame[g]
    BY <2>7, <2>8, GotoEffect
  <2> QED
    BY <2>2, <2>3, <2>5, <2>7, <2>8, <2>9, Zenon
<1>FailStartFine.
  ASSUME NEW f \in Frames, frame[f].at \in Early, Becomes(failStart(heap, f))
  PROVE  Fine(heap, heap')
  <2> USE <1>FailStartFine
  <2> DEFINE s == heap
             t == failStart(s, f)
  <2>1. Sound(s) /\ s.frame[f].at \in Early /\ Becomes(t)
    BY HeapParts, Zenon
  <2> HIDE DEF s
  <2>2. /\ Sound(t) /\ t.hub = s.hub /\ t.conn = s.conn /\ t.connects = s.connects
        /\ t.http.state = "Disconnected" /\ t.http.transport = 0
        /\ t.frame[f].at = "rejected" /\ \A g \in Frames : g # f => t.frame[g] = s.frame[g]
    BY <2>1, <1>FailStartEffect
  <2> HIDE DEF t
  <2>3. Down(t)
    BY <2>2, Zenon DEF Down
  <2>4. ASSUME Held(s)
        PROVE  Held(t)
    <3>1. \A g \in Frames : t.frame[g].at \notin Early
      <4>1. \A g \in Frames : s.frame[g].at \in Early => g = f
        BY <2>1, <2>4, Zenon DEF Held
      <4>2. t.frame[f].at \notin Early
        BY <2>2, Zenon DEF Early
      <4> QED
        BY <2>2, <4>1, <4>2, Zenon
    <3>2. \A c \in Conns : ~t.conn[c].live /\ t.conn[c].stop # "transport"
      BY <2>1, <2>2, <2>4, Zenon DEF Held
    <3> QED
      BY <2>2, <2>3, <2>4, <3>1, <3>2, HeldEnds, Zenon
  <2>5. Fine(s, t)
    BY <2>2, <2>3, <2>4, TimerDown, Zenon DEF Fine
  <2> QED
    BY <2>1, <2>5, BecomesFine, Zenon DEF s
\* createTransport tries a transport while the connection is Connecting.
<1>TryTransportFine.
  ASSUME NEW s, Sound(s), NEW f \in Frames, NEW k \in Kinds, s.frame[f].at \in Early,
         NEW t, t = tryTransport(s, f, k)
  PROVE  Fine(s, t) /\ t.frame[f].at = "connect"
  <2> USE <1>TryTransportFine
  <2>1. /\ Sound(t) /\ t.hub = s.hub /\ t.connects = s.connects
        /\ t.http.state = s.http.state /\ t.http.transport = s.frame[f].c
        /\ t.http.inherentKeepAlive = s.http.inherentKeepAlive
        /\ \A d \in Conns : t.conn[d].live = s.conn[d].live /\ t.conn[d].stop = s.conn[d].stop
        /\ t.frame[f].at = "connect" /\ t.frame[f].c = s.frame[f].c
        /\ \A g \in Frames : g # f => t.frame[g] = s.frame[g]
    BY <1>TryTransportEffect
  <2>2. ASSUME Held(s)
        PROVE  Held(t)
    <3>1. /\ s.frame[f].c = s.connects /\ s.http.state \in {"Connecting", "Disconnecting"}
          /\ \A c \in Conns : ~s.conn[c].live /\ s.conn[c].stop \notin {"transport", "tail"}
          /\ \A g \in Frames : s.frame[g].at \in Early => g = f
          /\ \A c \in Conns : s.conn[c].stop = "awaitStart" => c = s.connects /\ Down(s)
      BY <2>2, Zenon DEF Held
    <3>2. \A g \in Frames : t.frame[g].at \in Early => g = f
      BY <2>1, <3>1, Zenon
    <3>3. Down(s) => Down(t)
      BY <2>1, Zenon DEF Down
    <3> QED
      BY <2>1, <3>1, <3>2, <3>3 DEF Held
  <2>3. \A g \in Frames : Settling(t, g) => Settling(s, g)
    BY <2>1, Zenon DEF Settling
  <2>4. TimerInv(s) => TimerInv(t)
    BY <2>1, <2>3, Zenon DEF TimerInv, Down
  <2> QED
    BY <2>1, <2>2, <2>4, Zenon DEF Fine
<1>NegotiationAnsweredFine.
  ASSUME NEW f \in Frames, NEW k \in Kinds, NegotiationAnswered(f, k)
  PROVE  Fine(heap, heap')
  <2> USE <1>NegotiationAnsweredFine
  <2>1. heap.frame[f].at \in Early /\ frame[f].at \in Early
    BY HeapParts, Zenon DEF NegotiationAnswered, Early
  <2>2. Becomes(failStart(heap, f)) \/ Becomes(tryTransport(heap, f, k))
    BY Zenon DEF NegotiationAnswered
  <2>3. Fine(heap, tryTransport(heap, f, k))
    BY <2>1, <1>TryTransportFine, Zenon
  <2> QED
    BY <2>1, <2>2, <2>3, <1>FailStartFine, BecomesFine, Zenon
\* A frame that connects again, or tries the next transport.
<1>ConnectsAgain.
  ASSUME NEW s, Sound(s), NEW f \in Frames, s.frame[f].at \in {"connect", "renegotiate"},
         NEW at \in Points, at \in {"connect", "renegotiate"}, NEW t, t = Goto(s, f, at)
  PROVE  Fine(s, t)
  <2> USE <1>ConnectsAgain
  <2>1. MayGo(s, f, at)
    BY Zenon DEF MayGo
  <2>2. s.frame[f].at \in Early \ {"negotiate"}
    BY Zenon DEF Early
  <2>3. at \notin {"resolved", "handshake"}
    BY Zenon
  <2> QED
    BY <2>1, <2>2, <2>3, GotoFine, Zenon
<1>RenegotiationAnsweredFine.
  ASSUME NEW f \in Frames, RenegotiationAnswered(f)
  PROVE  Fine(heap, heap')
  <2> USE <1>RenegotiationAnsweredFine
  <2> DEFINE t == Goto(heap, f, "connect")
  <2>1. heap.frame[f].at \in {"connect", "renegotiate"} /\ Becomes(t)
    BY HeapParts, Zenon DEF RenegotiationAnswered
  <2>2. PICK at \in Points : at \in {"connect", "renegotiate"} /\ t = Goto(heap, f, at)
    BY Zenon DEF Points
  <2> HIDE DEF t
  <2>3. Fine(heap, t)
    BY <2>1, <2>2, <1>ConnectsAgain, Zenon
  <2> QED
    BY <2>1, <2>3, BecomesFine, Zenon
<1>TransportFallsBackFine.
  ASSUME NEW f \in Frames, NEW k \in Kinds, TransportFallsBack(f, k)
  PROVE  Fine(heap, heap')
  <2> USE <1>TransportFallsBackFine
  <2> DEFINE u == tryTransport(heap, f, k)
             t == Goto(u, f, "renegotiate")
  <2>1. heap.frame[f].at \in Early /\ Becomes(t)
    BY HeapParts, Zenon DEF TransportFallsBack, Early
  <2>2. Fine(heap, u) /\ Sound(u) /\ u.frame[f].at \in {"connect", "renegotiate"}
    BY <2>1, <1>TryTransportFine, Zenon DEF Fine
  <2> HIDE DEF u
  <2>3. PICK at \in Points : at \in {"connect", "renegotiate"} /\ t = Goto(u, f, at)
    BY Zenon DEF Points
  <2> HIDE DEF t
  <2>4. Fine(u, t)
    BY <2>2, <2>3, <1>ConnectsAgain, Zenon
  <2>5. Fine(heap, t)
    BY <2>2, <2>4, FineTransitive, Zenon
  <2> QED
    BY <2>1, <2>5, BecomesFine, Zenon
<1>LiveEffect.
  ASSUME NEW s, Sound(s), NEW c \in Conn0, NEW t, t = Opened(s, c)
  PROVE  /\ Sound(t) /\ t.http = s.http /\ t.hub = s.hub /\ t.frame = s.frame
         /\ t.connects = s.connects
         /\ \A d \in Conns : /\ t.conn[d].stop = s.conn[d].stop
                             /\ d # c => t.conn[d].live = s.conn[d].live
  <2> USE <1>LiveEffect
  <2> DEFINE x == [s.conn[c] EXCEPT !.live = TRUE]
             v == SetConn(s, c, x)
  <2>1. s \in Heap
    BY Zenon DEF Sound
  <2>2. t = v
    BY <2>1, Parts, Zenon DEF SetConn, Opened
  <2>3. /\ v \in Heap /\ v.http = s.http /\ v.hub = s.hub /\ v.frame = s.frame
        /\ v.connects = s.connects
        /\ \A d \in Conns : /\ v.conn[d].stop = s.conn[d].stop
                            /\ d # c => v.conn[d].live = s.conn[d].live
    <3>1. CASE c \in Conns
      <4>1. s.conn[c] \in ConnFields
        BY <2>1, <3>1, Parts, Zenon
      <4>2. x \in ConnFields /\ x.stop = s.conn[c].stop
        BY <4>1, Zenon DEF ConnFields
      <4> HIDE DEF x
      <4>3. /\ v \in Heap /\ v.http = s.http /\ v.hub = s.hub /\ v.frame = s.frame
            /\ v.connects = s.connects
            /\ v.conn[c] = x /\ \A d \in Conns : d # c => v.conn[d] = s.conn[d]
        BY <2>1, <3>1, <4>2, SetConnEffect
      <4> QED
        BY <4>2, <4>3, Zenon
    <3>2. CASE c \notin Conns
      <4> HIDE DEF x
      <4>1. [s.conn EXCEPT ![c] = x] = s.conn
        BY <2>1, <3>2, Parts, Zenon
      <4>2. v = s
        BY <2>1, <4>1, Parts DEF SetConn
      <4> HIDE DEF v
      <4> QED
        BY <2>1, <4>2, Zenon
    <3> QED
      BY <3>1, <3>2, Zenon
  <2> HIDE DEF v
  <2>4. Sound(v)
    BY <2>3, SoundKept, Zenon
  <2> QED
    BY <2>2, <2>3, <2>4, Zenon
<1>TransportOpensFine.
  ASSUME NEW f \in Frames, TransportOpens(f)
  PROVE  Fine(heap, heap')
  <2> USE <1>TransportOpensFine
  <2> DEFINE s == heap
             c == s.frame[f].c
             u == Opened(s, c)
             t == started(u, f)
  <2>1. Sound(s) /\ s.frame[f].at = "connect" /\ Becomes(t)
    BY HeapParts, Zenon DEF TransportOpens, Opened
  <2>2. c \in Conn0
    BY Parts, Zenon DEF Sound, FrameFields
  <2> HIDE DEF s
  <2>3. /\ Sound(u) /\ u.http = s.http /\ u.hub = s.hub /\ u.frame = s.frame
        /\ u.connects = s.connects
        /\ \A d \in Conns : /\ u.conn[d].stop = s.conn[d].stop
                            /\ d # c => u.conn[d].live = s.conn[d].live
    <3> HIDE DEF c
    <3> QED BY <2>1, <2>2, <1>LiveEffect
  <2> HIDE DEF u
  <2>4. /\ Sound(t) /\ t.hub = u.hub /\ t.conn = u.conn /\ t.connects = u.connects
        /\ t.http.transport = u.http.transport
        /\ u.http.state = "Connecting" => t.http.state = "Connected"
        /\ u.http.state # "Connecting" => t.http.state = u.http.state
        /\ u.http.inherentKeepAlive => t.http.inherentKeepAlive
        /\ t.frame[f].at = "ok" /\ \A g \in Frames : g # f => t.frame[g] = u.frame[g]
    BY <2>3, <1>StartedEffect
  <2> HIDE DEF t
  <2>5. ASSUME Held(s)
        PROVE  Held(t)
    <3>1. /\ c = s.connects /\ s.http.state \in {"Connecting", "Disconnecting"}
          /\ s.http.transport = s.connects
          /\ \A d \in Conns : ~s.conn[d].live /\ s.conn[d].stop \notin {"transport", "tail"}
          /\ \A g \in Frames : s.frame[g].at \in Early => g = f
          /\ \A d \in Conns : s.conn[d].stop = "awaitStart" => d = s.connects /\ Down(s)
      BY <2>1, <2>5, Zenon DEF Held, Early
    <3>2. \A g \in Frames : t.frame[g].at \notin Early
      <4>1. "ok" \notin Early
        BY Zenon DEF Early
      <4> QED
        BY <2>3, <2>4, <3>1, <4>1, Zenon
    <3>3. t.http.state \in {"Connected", "Disconnecting"} /\ (Down(s) => Down(t))
      BY <2>3, <2>4, <3>1, Zenon DEF Down
    <3>4. \A d \in Conns : t.conn[d].live =>
            /\ t.http.transport = d /\ d = t.connects
            /\ t.http.state \in {"Connected", "Disconnecting"}
      BY <2>3, <2>4, <3>1, <3>3
    <3>5. \A d \in Conns : /\ t.conn[d].stop \notin {"transport", "tail"}
                           /\ t.conn[d].stop = "awaitStart" => d = t.connects /\ Down(t)
      BY <2>3, <2>4, <3>1, <3>3
    <3> QED
      BY <3>2, <3>3, <3>4, <3>5, Zenon DEF Held
  <2>6. TimerInv(s) => TimerInv(t)
    <3>1. \A g \in Frames : Settling(t, g) => Settling(s, g)
      BY <2>3, <2>4, Zenon DEF Settling
    <3>2. Down(s) => Down(t)
      BY <2>3, <2>4, Zenon DEF Down
    <3> QED
      BY <2>3, <2>4, <3>1, <3>2, TimerKept
  <2>7. Fine(s, t)
    BY <2>4, <2>5, <2>6, Zenon DEF Fine
  <2> QED
    BY <2>1, <2>7, BecomesFine, Zenon DEF s
<1>OpensClosed.
  ASSUME NEW s, Sound(s), NEW f \in Frames, AtConnect(s, f), NEW retry,
         NEW act, act = FALSE, NEW u, u = Stopped(s, retry, act), NEW t, t = started(u, f)
  PROVE  Fine(s, t)
  <2> USE <1>OpensClosed
  <2>1. u = stopConnection(s, retry, act)
    BY Zenon DEF Stopped
  <2>3. Sound(u)
    BY <2>1, ClosingFacts, Zenon
  <2>4. /\ u.connects = s.connects /\ u.http.transport = 0
        /\ u.http.state = StateAfter(s)
        /\ \A c \in Conns : u.conn[c].live = s.conn[c].live /\ u.conn[c].stop = s.conn[c].stop
        /\ Calm(s, u)
    <3>1. Shut(s, u)
      BY <2>1, ClosingFacts, Zenon
    <3> QED
      BY <3>1, Zenon DEF Shut
  <2>5. s.http.state = "Connecting" => /\ u.hub = s.hub /\ u.frame = s.frame
                                       /\ u.http.inherentKeepAlive = s.http.inherentKeepAlive
    <3> SUFFICES ASSUME s.http.state = "Connecting"
                 PROVE  /\ u.hub = s.hub /\ u.frame = s.frame
                        /\ u.http.inherentKeepAlive = s.http.inherentKeepAlive
      BY Zenon
    <3>1. u = Dropped(s)
      BY <2>1, ClosingFacts, Zenon
    <3> QED
      BY <3>1, DroppedEffect, Zenon
  <2>6. /\ Sound(t) /\ t.hub = u.hub /\ t.conn = u.conn /\ t.connects = u.connects
        /\ t.http.transport = u.http.transport
        /\ u.http.state = "Connecting" => t.http.state = "Connected"
        /\ u.http.state # "Connecting" => t.http.state = u.http.state
        /\ u.http.inherentKeepAlive => t.http.inherentKeepAlive
        /\ t.frame[f].at = "ok" /\ \A g \in Frames : g # f => t.frame[g] = u.frame[g]
    BY <2>3, <1>StartedEffect
  <2>7. ASSUME Held(s)
        PROVE  Held(t) /\ s.http.state \in {"Connecting", "Disconnecting"}
    <3>1. /\ s.http.state \in {"Connecting", "Disconnecting"}
          /\ \A d \in Conns : ~s.conn[d].live /\ s.conn[d].stop \notin {"transport", "tail"}
          /\ \A g \in Frames : s.frame[g].at \in Early => g = f
          /\ \A d \in Conns : s.conn[d].stop = "awaitStart" => d = s.connects /\ Down(s)
      BY <2>7, Zenon DEF Held, Early, AtConnect
    <3>2. \A g \in Frames : t.frame[g].at \notin Early
      <4>1. t.frame[f].at \notin Early
        BY <2>6, Zenon DEF Early
      <4>2. \A g \in Frames : u.frame[g].at \in Early => s.frame[g].at \in Early
        BY <2>4, Zenon DEF Calm, Early
      <4> QED
        BY <2>6, <3>1, <4>1, <4>2, Zenon
    <3>3. /\ \A d \in Conns : ~t.conn[d].live /\ t.conn[d].stop \notin {"transport", "tail"}
          /\ \A d \in Conns : t.conn[d].stop = "awaitStart" => d = t.connects /\ Down(s)
      BY <2>4, <2>6, <3>1
    <3>4. t.http.transport = 0 /\ (Down(s) => Down(t))
      BY <2>4, <2>6, <3>1, Zenon DEF Down, StateAfter
    <3>5. \A d \in Conns : t.conn[d].stop = "awaitStart" => d = t.connects /\ Down(t)
      BY <3>3, <3>4, Zenon
    <3> QED
      BY <3>1, <3>2, <3>3, <3>4, <3>5, Zenon DEF Held
  <2>8. ASSUME s.http.state \in {"Connecting", "Disconnecting"}, TimerInv(s)
        PROVE  TimerInv(t)
    <3>1. CASE s.http.state = "Connecting"
      <4>1. \A g \in Frames : Settling(t, g) => Settling(s, g)
        BY <2>5, <2>6, <3>1 DEF Settling
      <4> QED
        BY <2>5, <2>6, <2>8, <3>1, <4>1 DEF TimerInv, Down
    <3>2. CASE s.http.state = "Disconnecting"
      <4>1. Down(t)
        BY <2>4, <2>6, <3>2, Zenon DEF Down, StateAfter
      <4> QED
        BY <4>1, TimerDown, Zenon
    <3> QED
      BY <2>8, <3>1, <3>2, Zenon
  <2> QED
    BY <2>6, <2>7, <2>8, Zenon DEF Fine
<1>TransportOpensClosedFine.
  ASSUME NEW f \in Frames, TransportOpensClosed(f)
  PROVE  Fine(heap, heap')
  <2> USE <1>TransportOpensClosedFine
  <2> DEFINE s == heap
             u == stopConnection(s, FALSE, FALSE)
             t == started(u, f)
  <2>1. Sound(s) /\ s.frame[f].at = "connect" /\ Becomes(t)
    BY HeapParts, Zenon DEF TransportOpensClosed
  <2>2. PICK retry, act : act = FALSE /\ u = Stopped(s, retry, act)
    BY Zenon DEF Stopped
  <2> HIDE DEF s, u
  <2>3. Fine(s, t)
    BY <2>1, <2>2, <1>OpensClosed, Zenon DEF AtConnect
  <2> QED
    BY <2>1, <2>3, BecomesFine, Zenon DEF s
<1>1. ASSUME NEW f \in Frames, NegotiationFails(f) \/ TransportFails(f)
      PROVE  Fine(heap, heap')
  BY <1>1, <1>FailStartFine, Zenon DEF NegotiationFails, TransportFails, Early
<1> QED
  BY <1>1, <1>RenegotiationAnsweredFine, <1>TransportOpensFine, <1>TransportOpensClosedFine,
     <1>NegotiationAnsweredFine, <1>TransportFallsBackFine, StopSteps, Zenon
     DEF Answer

\* A frame that has ended.
LEMMA FrameEnds ==
  ASSUME NEW s, NEW t, NEW f \in Frames, t.frame[f] = NoFrame,
         \A g \in Frames : g # f => t.frame[g] = s.frame[g]
  PROVE  /\ Quieter(s, t)
         /\ \A g \in Frames : Settling(t, g) => Settling(s, g)
         /\ \A g \in Frames : \/ g # f /\ t.frame[g] = s.frame[g]
                             \/ /\ t.frame[g].by = "none" /\ t.frame[g].at = "off"
                                /\ t.frame[g].c = 0
<1>1. NoFrame.by = "none" /\ NoFrame.at = "off" /\ NoFrame.c = 0
  BY Zenon DEF NoFrame
<1>2. \A g \in Frames : \/ g # f /\ t.frame[g] = s.frame[g]
                       \/ /\ t.frame[g].by = "none" /\ t.frame[g].at = "off"
                          /\ t.frame[g].c = 0
  BY <1>1, Zenon
<1>3. Quieter(s, t)
  BY <1>2, Zenon DEF Quieter, Early
<1>4. \A g \in Frames : Settling(t, g) => Settling(s, g)
  BY <1>2, Zenon DEF Settling
<1> QED
  BY <1>2, <1>3, <1>4, Zenon

\* A frame ends, and what is left of the heap stays.
LEMMA EndFine ==
  ASSUME NEW s, Sound(s), NEW f \in Frames, NEW t, t = End(s, f),
         s.frame[f].by = "start" => s.hub.state # "Connecting"
  PROVE  Fine(s, t)
<1>1. Sound(t)
  BY EndSound, Zenon
<1>2. /\ t.http = s.http /\ t.conn = s.conn /\ t.connects = s.connects
      /\ t.hub.state = s.hub.state /\ t.hub.timeout = s.hub.timeout
      /\ t.frame[f] = NoFrame /\ \A g \in Frames : g # f => t.frame[g] = s.frame[g]
  <2>1. s \in Heap
    BY Zenon DEF Sound
  <2> QED
    BY <2>1, EndEffect
<1>3. SameHold(s, t)
  BY <1>2, Zenon DEF SameHold
<1>4. Quieter(s, t) /\ \A g \in Frames : Settling(t, g) => Settling(s, g)
  BY <1>2, FrameEnds
<1>5. TimerInv(s) => TimerInv(t)
  BY <1>2, <1>4, TimerKept, Zenon DEF Down
<1> QED
  BY <1>1, <1>3, <1>4, <1>5, HeldKept, Zenon DEF Fine

-----------------------------------------------------------------------------
(* The loop of reconnect.                                                  *)

\* An attempt fails, and the next begins after its delay.
LEMMA ReconnectFacts ==
  /\ \A f \in Frames, retry \in BOOLEAN, act \in Acts :
       Sound(heap) /\ ReconnectRejected(f, retry, act) =>
         Fine(heap, heap')
  /\ \A f \in Frames :
       Sound(heap) /\ DelayElapses(f) =>
         Fine(heap, heap')
<1>CompleteCloseFine.
  ASSUME NEW s, Sound(s), NEW act \in BOOLEAN, ~reacts => act = FALSE,
         NEW t, t = completeClose(s, act)
  PROVE  Fine(s, t)
  <2> USE <1>CompleteCloseFine
  <2>1. Sound(t)
    BY CompleteCloseSound, Zenon
  <2>2. SUFFICES ASSUME act = FALSE
                 PROVE  Held(s) /\ TimerInv(s) => Held(t) /\ TimerInv(t)
    BY <2>1, Zenon DEF Fine
  <2>3. /\ t.http = s.http /\ t.conn = s.conn /\ t.connects = s.connects
        /\ t.frame = s.frame /\ t.hub.state \in {s.hub.state, "Disconnected"}
        /\ t.hub.timeout = s.hub.timeout
    <3>1. s \in Heap
      BY Zenon DEF Sound
    <3> QED
      BY <2>2, <3>1, CompleteCloseEffect, Zenon
  <2>4. SameHold(s, t) /\ Quieter(s, t)
    BY <2>3, Zenon DEF SameHold, Quieter
  <2>5. TimerInv(s) => TimerInv(t)
    BY <2>3, Zenon DEF TimerInv, Settling, Down
  <2> QED
    BY <2>4, <2>5, HeldKept, Zenon
<1>ReconnectRejectedFine.
  ASSUME Sound(heap), NEW f \in Frames, NEW retry \in BOOLEAN, NEW act \in Acts,
         ReconnectRejected(f, retry, act)
  PROVE  Fine(heap, heap')
  <2> USE <1>ReconnectRejectedFine
  <2> DEFINE s == heap
             e == End(s, f)
             x == [NoFrame EXCEPT !.by = "reconnect", !.at = "delay"]
             d == [s EXCEPT !.frame[f] = x, !.hub.delay = f]
  <2>1. s.frame[f].by = "reconnect" /\ s.hub = hub
    BY HeapParts, Zenon DEF ReconnectRejected
  <2>2. \/ Becomes(e)
        \/ hub.state = "Reconnecting" /\ Becomes(d)
        \/ Becomes(completeClose(e, act))
    BY Zenon DEF ReconnectRejected
  <2>3. Sound(s) /\ s \in Heap /\ s.connects \in Conn0
    BY Parts, Zenon DEF Sound
  <2> HIDE DEF s
  <2>4. Fine(s, e) /\ Sound(e)
    BY <2>1, <2>3, EndFine, Zenon DEF Fine
  <2> HIDE DEF e
  <2>5. Fine(s, completeClose(e, act))
    BY <2>4, ActsFacts, <1>CompleteCloseFine, FineTransitive, Zenon
  <2>6. CASE hub.state = "Reconnecting" /\ Becomes(d)
    <3>1. x \in FrameFields /\ x.by = "reconnect" /\ x.at = "delay" /\ x.c = 0
      BY NoAwait, Numbers, Zenon DEF NoFrame, FrameFields
    <3> HIDE DEF x
    <3> DEFINE u == SetFrame(s, f, x)
    <3>2. u = [s EXCEPT !.frame[f] = x]
      BY <2>3, Parts, Zenon DEF SetFrame
    <3>3. d = [u EXCEPT !.hub.delay = f]
      BY <3>2, Zenon
    <3>4. u \in Heap /\ u.hub = s.hub
      BY <2>3, <3>1, SetFrameEffect
    <3>5. d = SetHub(u, [s.hub EXCEPT !.delay = f])
      <4> HIDE DEF u
      <4> QED BY <3>3, <3>4, Parts, Zenon DEF SetHub
    <3>6. s.hub.state = "Reconnecting" /\ 0 <= s.connects
      BY <2>1, <2>3, <2>6, ConnectsAssumption DEF Conn0
    <3>7. Becomes(d)
      BY <2>6, Zenon
    <3>8. d = Delayed(s, f, x)
      BY <3>5, Zenon DEF Delayed
    <3> HIDE DEF d, u
    <3>9. /\ Sound(d) /\ d.http = s.http /\ d.conn = s.conn /\ d.connects = s.connects
          /\ d.hub.state = s.hub.state /\ d.hub.timeout = s.hub.timeout
          /\ d.frame[f].at = "delay" /\ \A g \in Frames : g # f => d.frame[g] = s.frame[g]
      BY <2>3, <3>1, <3>6, <3>8, DelayEffect
    <3>10. SameHold(s, d)
      BY <3>9, Zenon DEF SameHold
    <3>11. Quieter(s, d)
      BY <3>9, Zenon DEF Quieter, Early
    <3>12. \A g \in Frames : Settling(d, g) => Settling(s, g)
      BY <3>9, Zenon DEF Settling
    <3>13. TimerInv(s) => TimerInv(d)
      BY <3>9, <3>12, Zenon DEF TimerInv, Down
    <3>14. Fine(s, d)
      BY <3>9, <3>10, <3>11, <3>13, HeldKept, Zenon DEF Fine
    <3> QED
      BY <3>7, <3>14, BecomesFine, Zenon DEF s
  <2>7. CASE Becomes(e)
    BY <2>4, <2>7, BecomesFine, Zenon DEF s
  <2>8. CASE Becomes(completeClose(e, act))
    BY <2>5, <2>8, BecomesFine, Zenon DEF s
  <2> QED
    BY <2>2, <2>6, <2>7, <2>8, Zenon
<1>DelayElapsesFine.
  ASSUME Sound(heap), NEW f \in Frames, DelayElapses(f)
  PROVE  Fine(heap, heap')
  <2> USE <1>DelayElapsesFine
  <2> DEFINE h == heap
             s == [h EXCEPT !.hub.delay = 0]
             b == [h.hub EXCEPT !.delay = 0]
  <2>1. h.frame[f].at = "delay" /\ h.hub = hub /\ h.connects = connects /\ h.http = http
    BY HeapParts, Zenon DEF DelayElapses
  <2>2. \/ Becomes(End(s, f))
        \/ hub.state = "Reconnecting" /\ connects # MaxConnects /\ Becomes(startInternal(s, f))
    BY Zenon DEF DelayElapses
  <2>3. Held(h) /\ h.http.state = "Disconnected" => Rest(h)
    BY <2>1, StartFacts, Zenon DEF DelayElapses
  <2>4. Sound(h) /\ h \in Heap /\ h.hub \in HubFields /\ h.connects \in Conn0
    BY Parts, Zenon DEF Sound
  <2> HIDE DEF h
  <2>5. /\ b \in HubFields /\ b.state = h.hub.state /\ b.started = h.hub.started
        /\ b.timeout = h.hub.timeout
    BY <2>4, Zenon DEF HubFields
  <2>6. s = SetHub(h, b)
    BY <2>4, Parts, Zenon DEF SetHub
  <2> HIDE DEF s, b
  <2>7. Sound(s) /\ HubStep(h, s) /\ s.hub = b
    BY <2>4, <2>5, <2>6, HubStepEffect, Zenon
  <2>8. Fine(h, s)
    BY <2>5, <2>7, HubStepFine, Zenon
  <2>9. CASE Becomes(End(s, f))
    <3>1. s.frame[f].by = "reconnect"
      BY <2>1, <2>4, <2>7 DEF HubStep, Sound, StartsInv
    <3>2. Fine(s, End(s, f))
      BY <2>7, <3>1, EndFine, Zenon
    <3>3. Fine(h, End(s, f))
      BY <2>8, <3>2, FineTransitive, Zenon
    <3> QED
      BY <2>9, <3>3, BecomesFine, Zenon DEF h
  <2>10. CASE hub.state = "Reconnecting" /\ connects # MaxConnects /\ Becomes(startInternal(s, f))
    <3>1. s.connects < MaxConnects
      BY <2>1, <2>4, <2>7, <2>10, ConnectsAssumption DEF Conn0, HubStep
    <3>2. s.hub.state # "Connected"
      BY <2>1, <2>5, <2>7, <2>10, Zenon
    <3>3. SameHold(s, h) /\ Quieter(s, h)
      BY <2>7, Zenon DEF HubStep, SameHold, Quieter
    <3>4. Held(s) /\ s.http.state = "Disconnected" => Rest(h)
      BY <2>3, <2>7, <3>3, HeldKept, Zenon DEF HubStep
    <3>5. Held(s) /\ s.http.state = "Disconnected" => Rest(s)
      BY <2>7, <3>4, Zenon DEF HubStep, Rest, Settling
    <3>6. Fine(s, startInternal(s, f))
      BY <2>7, <3>1, <3>2, <3>5, StartFacts, Zenon
    <3>7. Fine(h, startInternal(s, f))
      BY <2>8, <3>6, FineTransitive, Zenon
    <3> QED
      BY <2>10, <3>7, BecomesFine, Zenon DEF h
  <2> QED
    BY <2>2, <2>9, <2>10, Zenon
<1> QED
  BY <1>ReconnectRejectedFine, <1>DelayElapsesFine, Zenon

\* cleanupTimeout.
LEMMA CleanupTimeoutEffect ==
  ASSUME NEW s, Sound(s), NEW t, t = cleanupTimeout(s)
  PROVE  Sound(t) /\ HubStep(s, t) /\ t.hub.resolver = s.hub.resolver
<1> DEFINE b == [s.hub EXCEPT !.timeout = FALSE]
<1>1. s \in Heap /\ s.hub \in HubFields
  BY Parts, Zenon DEF Sound
<1>2. /\ b \in HubFields /\ b.state = s.hub.state /\ b.started = s.hub.started
      /\ b.resolver = s.hub.resolver
  BY <1>1, Zenon DEF HubFields
<1>3. t = SetHub(s, b)
  BY <1>1, Parts, Zenon DEF cleanupTimeout, SetHub
<1> HIDE DEF b
<1> QED
  BY <1>2, <1>3, HubStepEffect

\* cleanupPingTimer.
LEMMA CleanupPingEffect ==
  ASSUME NEW s, Sound(s), NEW t, t = cleanupPingTimer(s)
  PROVE  Sound(t) /\ HubStep(s, t) /\ t.hub.timeout = s.hub.timeout
<1> DEFINE b == [s.hub EXCEPT !.ping = FALSE]
<1>1. s \in Heap /\ s.hub \in HubFields
  BY Parts, Zenon DEF Sound
<1>2. /\ b \in HubFields /\ b.state = s.hub.state /\ b.started = s.hub.started
      /\ b.timeout = s.hub.timeout
  BY <1>1, Zenon DEF HubFields
<1>3. t = SetHub(s, b)
  BY <1>1, Parts, Zenon DEF cleanupPingTimer, SetHub
<1> HIDE DEF b
<1> QED
  BY <1>2, <1>3, HubStepEffect

\* resetTimeoutPeriod arms the timer unless the transport keeps the connection alive.
LEMMA ResetTimeoutEffect ==
  ASSUME NEW s, Sound(s), NEW t, t = resetTimeoutPeriod(s)
  PROVE  Sound(t) /\ HubStep(s, t) /\ (t.hub.timeout \/ t.http.inherentKeepAlive)
<1>1. CASE s.http.inherentKeepAlive
  <2>1. t = s
    BY <1>1, Zenon DEF resetTimeoutPeriod
  <2> QED
    BY <1>1, <2>1, Zenon DEF HubStep
<1>2. CASE ~s.http.inherentKeepAlive
  <2> DEFINE b == [s.hub EXCEPT !.timeout = TRUE]
  <2>1. s \in Heap /\ s.hub \in HubFields
    BY Parts, Zenon DEF Sound
  <2>2. b \in HubFields /\ b.state = s.hub.state /\ b.started = s.hub.started /\ b.timeout
    BY <2>1, Zenon DEF HubFields
  <2>3. t = [s EXCEPT !.hub.timeout = TRUE]
    BY <1>2, Zenon DEF resetTimeoutPeriod
  <2>4. t = SetHub(s, b)
    BY <2>1, <2>3, Parts, Zenon DEF SetHub
  <2> HIDE DEF b
  <2> QED
    BY <2>2, <2>4, HubStepEffect
<1> QED
  BY <1>1, <1>2, Zenon

\* resetKeepAliveInterval arms the timer of the ping.
LEMMA ResetKeepAliveEffect ==
  ASSUME NEW s, Sound(s), NEW t, t = resetKeepAliveInterval(s)
  PROVE  Sound(t) /\ HubStep(s, t) /\ t.hub.timeout = s.hub.timeout
<1>1. CASE s.http.inherentKeepAlive
  <2>1. t = s
    BY <1>1, Zenon DEF resetKeepAliveInterval
  <2> QED
    BY <2>1, Zenon DEF HubStep
<1>2. CASE ~s.http.inherentKeepAlive
  <2> DEFINE b == [s.hub EXCEPT !.ping = TRUE]
  <2>1. s \in Heap /\ s.hub \in HubFields
    BY Parts, Zenon DEF Sound
  <2>2. /\ b \in HubFields /\ b.state = s.hub.state /\ b.started = s.hub.started
        /\ b.timeout = s.hub.timeout
    BY <2>1, Zenon DEF HubFields
  <2>3. t = [s EXCEPT !.hub.ping = TRUE]
    BY <1>2, Zenon DEF resetKeepAliveInterval
  <2>4. t = SetHub(s, b)
    BY <2>1, <2>3, Parts, Zenon DEF SetHub
  <2> HIDE DEF b
  <2> QED
    BY <2>2, <2>4, HubStepEffect
<1> QED
  BY <1>1, <1>2, Zenon

\* With the timer armed TimerInv holds.
LEMMA TimerArmed ==
  ASSUME NEW t, t.hub.timeout \/ t.http.inherentKeepAlive
  PROVE  TimerInv(t)
BY Zenon DEF TimerInv

\* What processIncomingData does before it looks at the messages: nothing that
\* touches the connection.
Alike(s, t) ==
  /\ t.http = s.http /\ t.conn = s.conn /\ t.connects = s.connects
  /\ \A f \in Frames : t.frame[f].at = s.frame[f].at /\ t.frame[f].c = s.frame[f].c


\* A pending handshake is answered.
HandshakeAnswered(s, b, h) ==
  IF b /\ s.hub.resolver # 0 /\ s.frame[s.hub.resolver].handshake = "pending"
  THEN [s EXCEPT !.frame[s.hub.resolver].handshake = h] ELSE s


\* processIncomingData clears the timer and answers the handshake.
Received(s, b, h) == HandshakeAnswered(cleanupTimeout(s), b, h)


Greeted(s) == SetHub(s, [s.hub EXCEPT !.gotHandshake = TRUE])


\* The POST of a ping begins or ends.
Pinging(s, n) == SetHub(s, [s.hub EXCEPT !.pinging = n])


-----------------------------------------------------------------------------
(* Events of the transport and of the timers.                              *)

\* What the transport and the timers call.
LEMMA EventFine ==
  ASSUME Sound(heap), Event
  PROVE  Fine(heap, heap')
<1>TransportClosesFine.
  ASSUME NEW c \in Conns, NEW retry \in BOOLEAN, NEW act \in Acts,
         TransportCloses(c, retry, act)
  PROVE  Fine(heap, heap')
  <2> USE <1>TransportClosesFine
  <2> DEFINE s == heap
             t == transportCloses(s, c, retry, act)
  <2>1. Sound(s) /\ s.conn[c].live /\ s.conn[c].stop # "transport" /\ Becomes(t)
    BY HeapParts, Zenon DEF TransportCloses
  <2> HIDE DEF s
  <2>2. Sound(t) /\ (~reacts /\ Held(s) => Held(t) /\ Down(t))
    BY <2>1, ClosingFacts, Zenon
  <2>3. Fine(s, t)
    BY <2>2, TimerDown, Zenon DEF Fine
  <2> QED
    BY <2>1, <2>3, BecomesFine, Zenon DEF s
<1>HeldAlike.
  ASSUME NEW s, NEW t, Held(s), Alike(s, t)
  PROVE  Held(t)
  <2> USE <1>HeldAlike
  <2>1. SameHold(s, t) /\ Quieter(s, t)
    BY Zenon DEF Alike, SameHold, Quieter
  <2> QED
    BY <2>1, HeldKept, Zenon
<1>ThrowsHeld.
  ASSUME NEW s, Sound(s), NEW c \in Conns, s.conn[c].live, s.conn = conn,
         NEW retry, NEW act \in Acts, NEW t, t = throws(s, c, retry, act)
  PROVE  Sound(t) /\ (~reacts /\ Held(s) => Held(t) /\ Down(t))
  <2> USE <1>ThrowsHeld
  <2>1. CASE s.conn[c].stop = "transport"
    <3>1. t = s
      BY <2>1, Zenon DEF throws
    <3>2. Held(s) => Down(s)
      BY <2>1, Zenon DEF Held, Down
    <3> QED
      BY <3>1, <3>2, Zenon
  <2>2. CASE s.conn[c].stop # "transport"
    <3>1. t = transportCloses(s, c, retry, act)
      BY <2>2, Zenon DEF throws
    <3> QED
      BY <2>2, <3>1, ClosingFacts, Zenon
  <2> QED
    BY <2>1, <2>2, Zenon
<1>HandshakeAnsweredEffect.
  ASSUME NEW s, Sound(s), NEW b, NEW h \in Handshakes, NEW t, t = HandshakeAnswered(s, b, h)
  PROVE  Sound(t) /\ Alike(s, t) /\ t.hub = s.hub
  <2> USE <1>HandshakeAnsweredEffect
  <2>1. s \in Heap
    BY Zenon DEF Sound
  <2>2. CASE t = s
    BY <2>2, Zenon DEF Alike
  <2>3. CASE s.hub.resolver # 0 /\ t = [s EXCEPT !.frame[s.hub.resolver].handshake = h]
    <3> DEFINE r == s.hub.resolver
    <3>1. r \in Frames
      BY <2>1, <2>3, Parts, Zenon DEF HubFields
    <3>2. t = [s EXCEPT !.frame[r].handshake = h]
      BY <2>3, Zenon
    <3> HIDE DEF r
    <3>3. t = Answered(s, r, h)
      BY <2>1, <3>1, <3>2, AnsweredForm, Zenon
    <3> QED
      BY <3>1, <3>3, AnsweredEffect DEF Alike
  <2> QED
    BY <2>2, <2>3, Zenon DEF HandshakeAnswered
<1>ReceivedEffect.
  ASSUME NEW s, Sound(s), NEW b, NEW h \in Handshakes, NEW t, t = Received(s, b, h)
  PROVE  Sound(t) /\ Alike(s, t)
  <2> USE <1>ReceivedEffect
  <2> DEFINE v == cleanupTimeout(s)
  <2>1. Sound(v) /\ HubStep(s, v)
    BY CleanupTimeoutEffect, Zenon
  <2>2. t = HandshakeAnswered(v, b, h)
    BY Zenon DEF Received
  <2> HIDE DEF v
  <2>3. Sound(t) /\ Alike(v, t)
    BY <2>1, <2>2, <1>HandshakeAnsweredEffect, Zenon
  <2> QED
    BY <2>1, <2>3, Zenon DEF HubStep, Alike
<1>ReceivedForm.
  ASSUME NEW b, NEW h
  PROVE  Received(heap, b, h)
           = IF b /\ hub.resolver # 0 /\ frame[hub.resolver].handshake = "pending"
             THEN [cleanupTimeout(heap) EXCEPT !.frame[hub.resolver].handshake = h]
             ELSE cleanupTimeout(heap)
  <2> DEFINE v == cleanupTimeout(heap)
  <2>1. HubStep(heap, v) /\ v.hub.resolver = heap.hub.resolver
    BY CleanupTimeoutEffect, Zenon
  <2>2. v.hub.resolver = hub.resolver /\ v.frame = frame
    BY <2>1, HeapParts, Zenon DEF HubStep
  <2>3. Received(heap, b, h) = HandshakeAnswered(v, b, h)
    BY Zenon DEF Received
  <2> HIDE DEF v
  <2>4. HandshakeAnswered(v, b, h)
          = IF b /\ hub.resolver # 0 /\ frame[hub.resolver].handshake = "pending"
            THEN [v EXCEPT !.frame[hub.resolver].handshake = h] ELSE v
    BY <2>2, Zenon DEF HandshakeAnswered
  <2> QED
    BY <2>3, <2>4, Zenon DEF v
<1>HandshakeRefusedFine.
  ASSUME NEW c \in Conns, NEW retry \in BOOLEAN, NEW act \in Acts,
         HandshakeRefused(c, retry, act)
  PROVE  Fine(heap, heap')
  <2> USE <1>HandshakeRefusedFine
  <2>1. PICK b \in BOOLEAN, h \in Handshakes : Becomes(throws(Received(heap, b, h), c, retry, act))
    <3>1. Received(heap, TRUE, "rejected")
            = IF hub.resolver # 0 /\ frame[hub.resolver].handshake = "pending"
              THEN [cleanupTimeout(heap) EXCEPT !.frame[hub.resolver].handshake = "rejected"]
              ELSE cleanupTimeout(heap)
      BY <1>ReceivedForm, Zenon
    <3>2. Becomes(throws(Received(heap, TRUE, "rejected"), c, retry, act))
      BY <3>1, Zenon DEF HandshakeRefused
    <3>3. "rejected" \in Handshakes
      BY Zenon DEF Handshakes
    <3> QED
      BY <3>2, <3>3, Zenon
  <2> DEFINE s == heap
             v == Received(s, b, h)
             t == throws(v, c, retry, act)
  <2>2. Sound(s) /\ s.conn[c].live /\ s.conn = conn /\ Becomes(t)
    BY <2>1, HeapParts, Zenon DEF HandshakeRefused
  <2> HIDE DEF s
  <2>3. Sound(v) /\ Alike(s, v)
    BY <2>2, <1>ReceivedEffect, Zenon
  <2> HIDE DEF v
  <2>4. v.conn = conn /\ v.conn[c].live
    BY <2>2, <2>3, Zenon DEF Alike
  <2>5. Sound(t) /\ (~reacts /\ Held(v) => Held(t) /\ Down(t))
    BY <2>3, <2>4, <1>ThrowsHeld, Zenon
  <2> HIDE DEF t
  <2>6. Fine(s, t)
    BY <2>3, <2>5, <1>HeldAlike, TimerDown, Zenon DEF Fine
  <2> QED
    BY <2>2, <2>6, BecomesFine, Zenon DEF s
\* The timer is armed again.
<1>ResetFine.
  ASSUME NEW s, Sound(s), NEW t, t = resetTimeoutPeriod(s)
  PROVE  Sound(t) /\ TimerInv(t) /\ (Held(s) => Held(t))
  <2> USE <1>ResetFine
  <2>1. Sound(t) /\ HubStep(s, t) /\ (t.hub.timeout \/ t.http.inherentKeepAlive)
    BY ResetTimeoutEffect, Zenon
  <2>2. Alike(s, t)
    BY <2>1, Zenon DEF HubStep, Alike
  <2> QED
    BY <2>1, <2>2, <1>HeldAlike, TimerArmed, Zenon
<1>MessagesFine.
  ASSUME NEW s, Sound(s), NEW c \in Conns, s.conn[c].live, s.conn = conn,
         NEW what \in {"other", "bad", "reconnect", "close"}, NEW retry, NEW act \in Acts,
         NEW t, t = processMessages(s, c, what, retry, act)
  PROVE  Sound(t) /\ (~reacts /\ Held(s) => Held(t) /\ TimerInv(t))
  <2> USE <1>MessagesFine
  <2>1. CASE what = "other"
    <3>1. t = resetTimeoutPeriod(s)
      BY <2>1, Zenon DEF processMessages
    <3> QED
      BY <3>1, <1>ResetFine, Zenon
  <2>2. CASE what = "bad"
    <3>1. t = throws(s, c, retry, act)
      BY <2>2, Zenon DEF processMessages
    <3> QED
      BY <3>1, <1>ThrowsHeld, TimerDown, Zenon
  <2>3. CASE what = "reconnect"
    <3> DEFINE v == httpStop(s)
    <3>1. t = resetTimeoutPeriod(v)
      BY <2>3, Zenon DEF processMessages
    <3>2. Sound(v) /\ Halts(s, v) /\ v.frame = s.frame
      BY HttpStopFacts, Zenon
    <3> HIDE DEF v
    <3>3. Quieter(s, v)
      BY <3>2, Zenon DEF Quieter
    <3>4. Held(s) => Held(v)
      BY <3>2, <3>3, HeldHalts, Zenon
    <3> QED
      BY <3>1, <3>2, <3>4, <1>ResetFine, Zenon
  <2>4. CASE what = "close"
    <3>1. PICK a \in BOOLEAN : a = FALSE /\ t = resetTimeoutPeriod(stopInternal(s, a))
      BY <2>4, Zenon DEF processMessages
    <3> DEFINE v == stopInternal(s, a)
    <3>2. Sound(v)
      BY StopInternalFacts, Zenon
    <3>3. Held(s) => Held(v)
      BY <3>1, StopInternalFacts, Zenon
    <3>4. t = resetTimeoutPeriod(v)
      BY <3>1, Zenon
    <3> HIDE DEF v
    <3> QED
      BY <3>2, <3>3, <3>4, <1>ResetFine, Zenon
  <2> QED
    BY <2>1, <2>2, <2>3, <2>4, Zenon
<1>GreetedEffect.
  ASSUME NEW s, Sound(s), NEW t, t = Greeted(s)
  PROVE  Sound(t) /\ Alike(s, t)
  <2> USE <1>GreetedEffect
  <2> DEFINE b == [s.hub EXCEPT !.gotHandshake = TRUE]
  <2>1. s.hub \in HubFields
    BY Parts, Zenon DEF Sound
  <2>2. b \in HubFields /\ b.state = s.hub.state /\ b.started = s.hub.started
    BY <2>1, Zenon DEF HubFields
  <2>3. t = SetHub(s, b)
    BY Zenon DEF Greeted
  <2> HIDE DEF b
  <2>4. Sound(t) /\ HubStep(s, t)
    BY <2>2, <2>3, HubStepEffect, Zenon
  <2> QED
    BY <2>4, Zenon DEF HubStep, Alike
<1>DataArrivesFine.
  ASSUME NEW c \in Conns, NEW what \in {"other", "bad", "reconnect", "close"},
         NEW retry \in BOOLEAN, NEW act \in Acts, DataArrives(c, what, retry, act)
  PROVE  Fine(heap, heap')
  <2> USE <1>DataArrivesFine
  <2>1. PICK b, h : /\ h \in Handshakes
                    /\ Becomes(processMessages([Received(heap, b, h) EXCEPT !.hub.gotHandshake = TRUE],
                                               c, what, retry, act))
    <3> DEFINE b == ~hub.gotHandshake
    <3>1. Received(heap, b, "resolved")
            = IF b /\ hub.resolver # 0 /\ frame[hub.resolver].handshake = "pending"
              THEN [cleanupTimeout(heap) EXCEPT !.frame[hub.resolver].handshake = "resolved"]
              ELSE cleanupTimeout(heap)
      BY <1>ReceivedForm, Zenon
    <3>2. Becomes(processMessages([Received(heap, b, "resolved") EXCEPT !.hub.gotHandshake = TRUE],
                                  c, what, retry, act))
      BY <3>1, Zenon DEF DataArrives
    <3>3. "resolved" \in Handshakes
      BY Zenon DEF Handshakes
    <3> HIDE DEF b
    <3> QED
      BY <3>2, <3>3, Zenon
  <2> DEFINE s == heap
             v == Received(s, b, h)
             w == Greeted(v)
             t == processMessages(w, c, what, retry, act)
  <2>2. Sound(s) /\ s.conn[c].live /\ s.conn = conn
    BY HeapParts, Zenon DEF DataArrives
  <2>3. Sound(v) /\ Alike(s, v)
    BY <2>1, <2>2, <1>ReceivedEffect, Zenon
  <2>4. Becomes(processMessages([v EXCEPT !.hub.gotHandshake = TRUE], c, what, retry, act))
    BY <2>1, Zenon
  <2> HIDE DEF v
  <2>5. [v EXCEPT !.hub.gotHandshake = TRUE] = w
    <3>1. v \in Heap
      BY <2>3, Zenon DEF Sound
    <3> QED
      BY <3>1, Parts, Zenon DEF Greeted, SetHub
  <2>6. Becomes(t)
    BY <2>4, <2>5, Zenon
  <2> HIDE DEF s
  <2>7. Sound(w) /\ Alike(v, w)
    BY <2>3, <1>GreetedEffect, Zenon
  <2> HIDE DEF w
  <2>8. w.conn = conn /\ w.conn[c].live /\ Alike(s, w)
    BY <2>2, <2>3, <2>7, Zenon DEF Alike
  <2>9. Sound(t) /\ (~reacts /\ Held(w) => Held(t) /\ TimerInv(t))
    BY <2>7, <2>8, <1>MessagesFine
  <2> HIDE DEF t
  <2>10. Fine(s, t)
    BY <2>8, <2>9, <1>HeldAlike, Zenon DEF Fine
  <2> QED
    BY <2>6, <2>10, BecomesFine, Zenon DEF s
<1>ServerTimeoutFine.
  ASSUME ServerTimeout
  PROVE  Fine(heap, heap')
  <2> USE <1>ServerTimeoutFine
  <2> DEFINE s == heap
             v == cleanupTimeout(s)
             t == httpStop(v)
  <2>1. Sound(s) /\ Becomes(t)
    BY Zenon DEF ServerTimeout
  <2> HIDE DEF s
  <2>2. Sound(v) /\ HubStep(s, v)
    BY <2>1, CleanupTimeoutEffect, Zenon
  <2> HIDE DEF v
  <2>3. Sound(t) /\ Halts(v, t) /\ t.frame = v.frame
    BY <2>2, HttpStopFacts, Zenon
  <2> HIDE DEF t
  <2>4. Quieter(v, t) /\ Down(t) /\ Alike(s, v)
    BY <2>2, <2>3, Zenon DEF Quieter, Halts, HubStep, Alike
  <2>5. ASSUME Held(s)
        PROVE  Held(t)
    <3>1. Held(v)
      BY <2>4, <2>5, <1>HeldAlike, Zenon
    <3> QED
      BY <2>3, <2>4, <3>1, HeldHalts, Zenon
  <2>6. Fine(s, t)
    BY <2>3, <2>4, <2>5, TimerDown, Zenon DEF Fine
  <2> QED
    BY <2>1, <2>6, BecomesFine, Zenon DEF s
<1>PingStepsFine.
  ASSUME NEW s, Sound(s), NEW t, t = cleanupPingTimer(s) \/ t = resetKeepAliveInterval(s)
  PROVE  Sound(t) /\ Fine(s, t) /\ t.http = s.http
  <2> USE <1>PingStepsFine
  <2>1. Sound(t) /\ HubStep(s, t) /\ t.hub.timeout = s.hub.timeout
    BY CleanupPingEffect, ResetKeepAliveEffect, Zenon
  <2>2. t.http = s.http
    BY <2>1, Zenon DEF HubStep
  <2> QED
    BY <2>1, <2>2, HubStepFine, Zenon
<1>PingingFine.
  ASSUME NEW s, Sound(s), NEW n \in Conn0, NEW t, t = Pinging(s, n)
  PROVE  Sound(t) /\ Fine(s, t)
  <2> USE <1>PingingFine
  <2> DEFINE b == [s.hub EXCEPT !.pinging = n]
  <2>1. s.hub \in HubFields
    BY Parts, Zenon DEF Sound
  <2>2. /\ b \in HubFields /\ b.state = s.hub.state /\ b.started = s.hub.started
        /\ b.timeout = s.hub.timeout
    BY <2>1, Zenon DEF HubFields
  <2>3. t = SetHub(s, b)
    BY Zenon DEF Pinging
  <2> HIDE DEF b
  <2>4. Sound(t) /\ HubStep(s, t) /\ t.hub = b
    BY <2>2, <2>3, HubStepEffect
  <2> QED
    BY <2>2, <2>4, HubStepFine, Zenon
<1>PingingForm.
  ASSUME NEW s, Sound(s), NEW n
  PROVE  [s EXCEPT !.hub.pinging = n] = Pinging(s, n)
  <2> USE <1>PingingForm
  <2>1. s \in Heap
    BY Zenon DEF Sound
  <2> QED
    BY <2>1, Parts, Zenon DEF Pinging, SetHub
<1>PingFiresFine.
  ASSUME PingFires
  PROVE  Fine(heap, heap')
  <2> USE <1>PingFiresFine
  <2> DEFINE s == heap
             v == cleanupPingTimer(s)
             w == resetKeepAliveInterval(v)
             x == cleanupPingTimer(w)
             n == s.http.transport
             y == [w EXCEPT !.hub.pinging = n]
  <2>1. Sound(s) /\ (Becomes(v) \/ Becomes(x) \/ Becomes(w) \/ Becomes(y))
    BY HeapParts, Zenon DEF PingFires
  <2>2. n \in Conn0
    BY <2>1, Parts, Zenon DEF Sound, HttpFields
  <2>a. s = heap
    BY Zenon
  <2> HIDE DEF s, n
  <2>3. Sound(v) /\ Fine(s, v)
    BY <2>1, <1>PingStepsFine, Zenon
  <2> HIDE DEF v
  <2>4. Sound(w) /\ Fine(v, w)
    BY <2>3, <1>PingStepsFine, Zenon
  <2> HIDE DEF w
  <2>5. Sound(x) /\ Fine(w, x)
    BY <2>4, <1>PingStepsFine, Zenon
  <2> HIDE DEF x
  <2>6. y = Pinging(w, n)
    BY <2>4, <1>PingingForm, Zenon
  <2> HIDE DEF y
  <2>7. Fine(w, y)
    BY <2>2, <2>4, <2>6, <1>PingingFine, Zenon
  <2>8. Fine(s, w)
    BY <2>3, <2>4, FineTransitive, Zenon
  <2>9. Fine(s, x)
    BY <2>5, <2>8, FineTransitive, Zenon
  <2>10. Fine(s, y)
    BY <2>7, <2>8, FineTransitive, Zenon
  <2> QED
    BY <2>a, <2>1, <2>3, <2>8, <2>9, <2>10, BecomesFine, Zenon
<1>PingAnsweredFine.
  ASSUME NEW ok \in BOOLEAN, PingAnswered(ok)
  PROVE  Fine(heap, heap')
  <2> USE <1>PingAnsweredFine
  <2> DEFINE s == heap
             v == [s EXCEPT !.hub.pinging = 0]
             w == cleanupPingTimer(v)
  <2>1. Sound(s) /\ (Becomes(v) \/ Becomes(w))
    BY HeapParts, Zenon DEF PingAnswered
  <2>a. s = heap
    BY Zenon
  <2> HIDE DEF s
  <2>2. v = Pinging(s, 0)
    BY <2>1, <1>PingingForm, Zenon
  <2> HIDE DEF v
  <2>3. Sound(v) /\ Fine(s, v)
    BY <2>1, <2>2, <1>PingingFine, Numbers, Zenon
  <2>4. Sound(w) /\ Fine(v, w)
    BY <2>3, <1>PingStepsFine, Zenon
  <2> HIDE DEF w
  <2>5. Fine(s, w)
    BY <2>3, <2>4, FineTransitive, Zenon
  <2> QED
    BY <2>a, <2>1, <2>3, <2>5, BecomesFine, Zenon
<1> QED
  BY ReconnectFacts, <1>TransportClosesFine, <1>HandshakeRefusedFine, <1>DataArrivesFine,
     <1>ServerTimeoutFine, <1>PingFiresFine, <1>PingAnsweredFine, Zenon
     DEF Event

\* Both timers are cleared: a step of the HubConnection alone.
LEMMA CleanupTimersStep ==
  ASSUME NEW s, Sound(s), NEW t, t = cleanupTimers(s)
  PROVE  Sound(t) /\ HubStep(s, t)
<1> DEFINE v == cleanupTimeout(s)
<1>1. Sound(v) /\ HubStep(s, v)
  BY CleanupTimeoutEffect, Zenon
<1>2. t = cleanupPingTimer(v)
  BY Zenon DEF cleanupTimers
<1> HIDE DEF v
<1>3. Sound(t) /\ HubStep(v, t)
  BY <1>1, <1>2, CleanupPingEffect, Zenon
<1> QED
  BY <1>1, <1>3, Zenon DEF HubStep

\* HttpConnection.stop is called, in whatever step.
LEMMA HaltsFine ==
  ASSUME NEW s, NEW t, Sound(t), Halts(s, t), Quieter(s, t)
  PROVE  Fine(s, t)
<1>1. TimerInv(t)
  BY TimerDown, Zenon DEF Halts
<1> QED
  BY <1>1, HeldHalts, Zenon DEF Fine

\* A caller of stop goes on.
LEMMA CallerFine ==
  ASSUME NEW s, Sound(s), NEW K \in [Stops -> CallerFields], NEW t, t = SetCaller(s, K)
  PROVE  Fine(s, t)
<1>1. s \in Heap
  BY Zenon DEF Sound
<1>2. /\ t \in Heap /\ t.http = s.http /\ t.hub = s.hub /\ t.frame = s.frame /\ t.conn = s.conn
      /\ t.connects = s.connects
  BY <1>1, SetCallerEffect
<1>3. Sound(t)
  BY <1>2, SoundKept, Zenon
<1>4. HubStep(s, t)
  BY <1>2, Zenon DEF HubStep
<1> QED
  BY <1>2, <1>3, <1>4, HubStepFine, Zenon

\* The caller of stop goes on.
CallerAt(s, u, at) == [s EXCEPT !.caller[u].at = at]


-----------------------------------------------------------------------------
(* Continuations.                                                          *)

\* What follows a promise that is settled.
LEMMA ContinueFine ==
  ASSUME Sound(heap), Continue
  PROVE  Fine(heap, heap')
<1>HandshakeFailsEffect.
  ASSUME NEW s, Sound(s), NEW f \in Frames, NEW t, t = handshakeFails(s, f)
  PROVE  /\ Sound(t) /\ Halts(s, t) /\ t.frame[f].at = "failing"
         /\ \A g \in Frames : g # f => t.frame[g] = s.frame[g]
  <2> USE <1>HandshakeFailsEffect
  <2> DEFINE v == cleanupTimers(s)
             w == httpStop(v)
             z == httpStopAwaits(s)
             x == [w.frame[f] EXCEPT !.at = "failing", !.awaits = z]
  <2>1. t = [w EXCEPT !.frame[f].at = "failing", !.frame[f].awaits = z]
    BY Zenon DEF handshakeFails
  <2>2. z \in Awaits
    BY StopAwaits, Zenon DEF Sound
  <2>3. Sound(v) /\ HubStep(s, v)
    BY CleanupTimersStep, Zenon
  <2> HIDE DEF v, z
  <2>4. Sound(w) /\ Halts(v, w) /\ w.frame = v.frame
    BY <2>3, HttpStopFacts, Zenon
  <2> HIDE DEF w
  <2>5. w \in Heap /\ w.frame[f] \in FrameFields
    BY <2>4, Parts, Zenon DEF Sound
  <2>6. x \in FrameFields /\ x.by = w.frame[f].by /\ x.c = w.frame[f].c /\ x.at = "failing"
    BY <2>2, <2>5, Zenon DEF FrameFields
  <2>7. t = SetFrame(w, f, x)
    BY <2>1, <2>5, Parts, Zenon DEF SetFrame
  <2> HIDE DEF x
  <2>8. /\ t.http = w.http /\ t.hub = w.hub /\ t.conn = w.conn /\ t.connects = w.connects
        /\ t.frame[f] = x /\ \A g \in Frames : g # f => t.frame[g] = w.frame[g]
    BY <2>5, <2>6, <2>7, SetFrameEffect
  <2>9. Sound(t)
    BY <2>4, <2>6, <2>7, MoveSound DEF Halts
  <2>10. Halts(s, t)
    BY <2>3, <2>4, <2>8 DEF Halts, HubStep, Down
  <2> QED
    BY <2>3, <2>4, <2>6, <2>8, <2>9, <2>10 DEF HubStep
<1>HttpStartContinuesFine.
  ASSUME NEW f \in Frames, HttpStartContinues(f)
  PROVE  Fine(heap, heap')
  <2> USE <1>HttpStartContinuesFine
  <2> DEFINE s == heap
             z == Await("promise", http.stopPromise)
  <2>1. s \in Heap /\ s.frame[f] \in FrameFields /\ s.http \in HttpFields /\ Sound(s)
    BY Parts, Zenon DEF Sound
  <2>2. s.frame[f].at = "ok" /\ s.http = http
    BY HeapParts, Zenon DEF HttpStartContinues
  <2>3. CASE http.state = "Disconnecting"
    <3> DEFINE t == [Goto(s, f, "awaitStop") EXCEPT !.frame[f].awaits = z]
               x == [s.frame[f] EXCEPT !.at = "awaitStop", !.awaits = z]
    <3>1. Becomes(t)
      BY <2>3, Zenon DEF HttpStartContinues
    <3>2. z \in Awaits
      <4>1. http.stopPromise \in Conns
        BY <2>1, <2>2, <2>3, Numbers, Zenon DEF Sound, BoundsInv, HttpFields
      <4> QED
        BY <4>1 DEF Awaits
    <3> HIDE DEF z, s
    <3>3. x \in FrameFields /\ x.at = "awaitStop" /\ x.c = s.frame[f].c /\ x.by = s.frame[f].by
      BY <2>1, <3>2, Zenon DEF FrameFields
    <3>4. t = SetFrame(s, f, x)
      BY <2>1, Parts, Zenon DEF Goto, SetFrame
    <3>5. MayGo(s, f, "awaitStop")
      BY <2>2, <2>3, Zenon DEF MayGo, Down
    <3> HIDE DEF t, x
    <3>6. Fine(s, t)
      BY <2>1, <3>3, <3>4, <3>5, MoveFine, Zenon DEF Early
    <3> QED
      BY <3>1, <3>6, BecomesFine, Zenon DEF s
  <2>4. CASE http.state = "Connected"
    <3> DEFINE u == Goto(s, f, "connected")
               t == [u EXCEPT !.http.started = TRUE]
               a == [u.http EXCEPT !.started = TRUE]
    <3>1. Becomes(t)
      BY <2>4, Zenon DEF HttpStartContinues
    <3> HIDE DEF s
    <3>2. PICK at \in Points : u = Goto(s, f, at) /\ MayGo(s, f, at) /\ at = "connected"
      BY Zenon DEF Points, MayGo
    <3> HIDE DEF u
    <3>3. Fine(s, u)
      BY <2>1, <3>2, GotoFine, Zenon DEF Early
    <3>4. Sound(u) /\ u \in Heap /\ u.http \in HttpFields
      BY <3>3, Parts, Zenon DEF Fine, Sound
    <3>5. /\ a \in HttpFields /\ a.state = u.http.state /\ a.stopPromise = u.http.stopPromise
          /\ a.transport = u.http.transport /\ a.inherentKeepAlive = u.http.inherentKeepAlive
      BY <3>4, Zenon DEF HttpFields
    <3>6. t = SetHttp(u, a)
      BY <3>4, Parts, Zenon DEF SetHttp
    <3> HIDE DEF t, a
    <3>7. /\ t \in Heap /\ t.http = a /\ t.hub = u.hub /\ t.frame = u.frame /\ t.conn = u.conn
          /\ t.connects = u.connects
      BY <3>4, <3>5, <3>6, SetHttpEffect
    <3>8. Sound(t)
      BY <3>4, <3>5, <3>7, SoundKept, Zenon
    <3>9. Held(u) => Held(t)
      <4>1. SameHold(u, t) /\ Quieter(u, t)
        BY <3>5, <3>7, Zenon DEF SameHold, Quieter
      <4> QED
        BY <4>1, HeldKept, Zenon
    <3>10. TimerInv(u) => TimerInv(t)
      BY <3>5, <3>7, Zenon DEF TimerInv, Settling, Down
    <3>11. Fine(s, t)
      BY <3>3, <3>8, <3>9, <3>10, Zenon DEF Fine
    <3> QED
      BY <3>1, <3>11, BecomesFine, Zenon DEF s
  <2>5. CASE http.state \notin {"Disconnecting", "Connected"}
    <3> DEFINE t == Goto(s, f, "rejected")
    <3>1. Becomes(t)
      BY <2>5, Zenon DEF HttpStartContinues
    <3> HIDE DEF s
    <3>2. PICK at \in Points : t = Goto(s, f, at) /\ at = "rejected"
      BY Zenon DEF Points
    <3>3. MayGo(s, f, at)
      BY <2>1, <2>2, <2>5, <3>2, Zenon
         DEF MayGo, Down, Sound, FailsInv, HttpFields, HttpStates, HubStates
    <3> HIDE DEF t
    <3>4. Fine(s, t)
      BY <2>1, <3>2, <3>3, GotoFine, Zenon DEF Early
    <3> QED
      BY <3>1, <3>4, BecomesFine, Zenon DEF s
  <2> QED
    BY <2>3, <2>4, <2>5, Zenon
\* A frame whose error is thrown on.
<1>ThrowsFine.
  ASSUME NEW f \in Frames, frame[f].at \in {"awaitStop", "failing"},
         Becomes(Goto(heap, f, "rejected"))
  PROVE  Fine(heap, heap')
  <2> USE <1>ThrowsFine
  <2> DEFINE s == heap
             t == Goto(s, f, "rejected")
  <2>1. s.frame[f].at \in {"awaitStop", "failing"}
    BY HeapParts, Zenon
  <2> HIDE DEF s
  <2>2. PICK at \in Points : t = Goto(s, f, at) /\ at = "rejected"
    BY Zenon DEF Points
  <2>3. Sound(s)
    BY Zenon DEF s
  <2>4. MayGo(s, f, at)
    BY <2>1, <2>2, <2>3, Zenon DEF MayGo, Sound, FailsInv
  <2>5. Becomes(t)
    BY Zenon DEF s
  <2> HIDE DEF t
  <2>6. Fine(s, t)
    BY <2>2, <2>3, <2>4, GotoFine, Zenon DEF Early
  <2> QED
    BY <2>5, <2>6, BecomesFine, Zenon DEF s
<1>HandshakeFailsFine.
  ASSUME NEW s, Sound(s), NEW f \in Frames, NEW t, t = handshakeFails(s, f)
  PROVE  Fine(s, t)
  <2> USE <1>HandshakeFailsFine
  <2>1. /\ Sound(t) /\ Halts(s, t) /\ t.frame[f].at = "failing"
        /\ \A g \in Frames : g # f => t.frame[g] = s.frame[g]
    BY <1>HandshakeFailsEffect
  <2>2. Quieter(s, t)
    BY <2>1, Zenon DEF Quieter, Early
  <2> QED
    BY <2>1, <2>2, HaltsFine, Zenon
<1>SendHandshakeFine.
  ASSUME NEW f \in Frames, SendHandshake(f)
  PROVE  Fine(heap, heap')
  <2> USE <1>SendHandshakeFine
  <2> DEFINE h == heap
             s == resetKeepAliveInterval(h)
             v == CASE http.transport = 0 -> "none"
                    [] conn[frame[f].c].kind = "ws" -> "ws"
                    [] OTHER -> "post"
             t == IF http.state # "Connected"
                  THEN handshakeFails(s, f)
                  ELSE [Goto(s, f, "sending") EXCEPT !.frame[f].via = v]
  <2>1. Becomes(t)
    BY Zenon DEF SendHandshake
  <2>2. v \in {"ws", "post", "none"}
    BY Zenon
  <2> HIDE DEF h, v
  <2>3. Sound(s) /\ Fine(h, s)
    <3>1. Sound(h)
      BY Zenon DEF h
    <3> QED
      BY <3>1, ResetKeepAliveEffect, HubStepFine, Zenon
  <2> HIDE DEF s
  <2>4. CASE http.state # "Connected"
    <3>1. t = handshakeFails(s, f)
      BY <2>4, Zenon
    <3> HIDE DEF t
    <3>2. Fine(h, t)
      BY <2>3, <3>1, <1>HandshakeFailsFine, FineTransitive, Zenon
    <3> QED
      BY <2>1, <3>2, BecomesFine, Zenon DEF h
  <2>5. CASE http.state = "Connected"
    <3> DEFINE x == [s.frame[f] EXCEPT !.at = "sending", !.via = v]
    <3>1. s \in Heap /\ s.frame[f] \in FrameFields
      BY <2>3, Parts, Zenon DEF Sound
    <3>2. x \in FrameFields /\ x.at = "sending" /\ x.c = s.frame[f].c /\ x.by = s.frame[f].by
      BY <2>2, <3>1, Zenon DEF FrameFields
    <3>3. t = SetFrame(s, f, x)
      BY <2>5, <3>1, Parts, Zenon DEF Goto, SetFrame
    <3>4. MayGo(s, f, "sending")
      BY Zenon DEF MayGo
    <3> HIDE DEF t, x
    <3>5. Fine(s, t)
      BY <2>3, <3>2, <3>3, <3>4, MoveFine, Zenon DEF Early
    <3>6. Fine(h, t)
      BY <2>3, <3>5, FineTransitive, Zenon
    <3> QED
      BY <2>1, <3>6, BecomesFine, Zenon DEF h
  <2> QED
    BY <2>4, <2>5, Zenon
<1>HandshakeSentFine.
  ASSUME NEW f \in Frames, HandshakeSent(f)
  PROVE  Fine(heap, heap')
  <2> USE <1>HandshakeSentFine
  <2> DEFINE h == heap
             u == cleanupTimeout(h)
             v == resetTimeoutPeriod(u)
             w == resetKeepAliveInterval(v)
             t == Goto(w, f, "handshake")
  <2>1. Becomes(t)
    BY Zenon DEF HandshakeSent
  <2> HIDE DEF h
  <2>2. Sound(u) /\ HubStep(h, u)
    <3>1. Sound(h)
      BY Zenon DEF h
    <3> QED
      BY <3>1, CleanupTimeoutEffect, Zenon
  <2> HIDE DEF u
  <2>3. Sound(v) /\ HubStep(u, v) /\ (v.hub.timeout \/ v.http.inherentKeepAlive)
    BY <2>2, ResetTimeoutEffect, Zenon
  <2> HIDE DEF v
  <2>4. Sound(w) /\ HubStep(v, w) /\ w.hub.timeout = v.hub.timeout
    BY <2>3, ResetKeepAliveEffect, Zenon
  <2> HIDE DEF w
  <2>5. HubStep(h, w) /\ (w.hub.timeout \/ w.http.inherentKeepAlive)
    BY <2>2, <2>3, <2>4, Zenon DEF HubStep
  <2>6. PICK at \in Points : t = Goto(w, f, at) /\ MayGo(w, f, at) /\ at = "handshake"
    BY Zenon DEF Points, MayGo
  <2> HIDE DEF t
  <2>7. /\ Sound(t) /\ t.http = w.http /\ t.hub = w.hub /\ t.conn = w.conn
        /\ t.connects = w.connects
        /\ t.frame[f].at = at
        /\ \A g \in Frames : g # f => t.frame[g] = w.frame[g]
    BY <2>4, <2>6, GotoEffect
  <2>8. SameHold(h, t) /\ Quieter(h, t)
    BY <2>5, <2>6, <2>7 DEF HubStep, SameHold, Quieter, Early
  <2>9. TimerInv(t)
    BY <2>5, <2>7, TimerArmed, Zenon
  <2>10. Fine(h, t)
    BY <2>7, <2>8, <2>9, HeldKept, Zenon DEF Fine
  <2> QED
    BY <2>1, <2>10, BecomesFine, Zenon DEF h
<1>HandshakeNotSentFine.
  ASSUME NEW f \in Frames, HandshakeNotSent(f)
  PROVE  Fine(heap, heap')
  <2> USE <1>HandshakeNotSentFine
  <2>1. Becomes(handshakeFails(heap, f))
    BY Zenon DEF HandshakeNotSent
  <2>2. Fine(heap, handshakeFails(heap, f))
    BY <1>HandshakeFailsFine, Zenon
  <2> QED
    BY <2>1, <2>2, BecomesFine, Zenon
<1>HandshakeContinuesFine.
  ASSUME NEW f \in Frames, HandshakeContinues(f)
  PROVE  Fine(heap, heap')
  <2> USE <1>HandshakeContinuesFine
  <2> DEFINE s == heap
  <2>1. s \in Heap /\ s.frame[f] \in FrameFields /\ Sound(s)
    BY Parts, Zenon DEF Sound
  <2>2. s.frame[f].at = "handshake" /\ s.frame[f].handshake # "pending"
    BY HeapParts, Zenon DEF HandshakeContinues
  <2>3. \/ Becomes(handshakeFails(heap, f))
        \/ s.frame[f].handshake # "rejected" /\ Becomes(Goto(s, f, "resolved"))
    BY HeapParts, Zenon DEF HandshakeContinues
  <2>4. Fine(heap, handshakeFails(heap, f))
    BY <1>HandshakeFailsFine, Zenon
  <2>5. CASE s.frame[f].handshake # "rejected" /\ Becomes(Goto(s, f, "resolved"))
    <3> DEFINE t == Goto(s, f, "resolved")
               x == [s.frame[f] EXCEPT !.at = "resolved"]
    <3> HIDE DEF s
    <3>1. s.frame[f].handshake = "resolved"
      BY <2>1, <2>2, <2>5, Zenon DEF FrameFields
    <3>2. Settling(s, f)
      BY <2>2, <3>1, Zenon DEF Settling
    <3>3. x \in FrameFields /\ x.at = "resolved" /\ x.c = s.frame[f].c /\ x.by = s.frame[f].by
      BY <2>1, Zenon DEF FrameFields
    <3>4. t = SetFrame(s, f, x)
      BY <2>1, GotoForm, Zenon
    <3>5. MayGo(s, f, "resolved")
      BY Zenon DEF MayGo
    <3> HIDE DEF t, x
    <3>6. Fine(s, t)
      BY <2>1, <3>2, <3>3, <3>4, <3>5, MoveFine, Zenon DEF Early
    <3>7. Becomes(t)
      BY <2>5, Zenon DEF t
    <3> QED
      BY <3>6, <3>7, BecomesFine, Zenon DEF s
  <2> QED
    BY <2>3, <2>4, <2>5, BecomesFine, Zenon
\* startWithStateTransitions returns (up) or throws: the state of the HubConnection
\* changes in the same step.
<1>StartEnds.
  ASSUME NEW s, Sound(s), NEW f \in Frames, s.frame[f].by = "start", NEW b \in HubFields,
         NEW e, e = End(s, f), NEW t, t = SetHub(e, b), b.timeout = e.hub.timeout,
         \/ b.state = "Connected" /\ Settling(s, f)
         \/ b.state = "Disconnected" /\ b.started = e.hub.started
  PROVE  Fine(s, t)
  <2> USE <1>StartEnds
  <2>1. s \in Heap
    BY Zenon DEF Sound
  <2>2. /\ e \in Heap /\ e.http = s.http /\ e.conn = s.conn /\ e.connects = s.connects
        /\ e.hub.started = s.hub.started /\ e.hub.timeout = s.hub.timeout
        /\ e.frame[f] = NoFrame /\ \A g \in Frames : g # f => e.frame[g] = s.frame[g]
    BY <2>1, EndEffect
  <2>3. /\ t \in Heap /\ t.http = s.http /\ t.conn = s.conn /\ t.connects = s.connects
        /\ t.hub = b
        /\ t.frame[f] = NoFrame /\ \A g \in Frames : g # f => t.frame[g] = s.frame[g]
    BY <2>2, SetHubEffect
  <2>4. /\ Quieter(s, t)
        /\ \A g \in Frames : Settling(t, g) => Settling(s, g)
        /\ \A g \in Frames : \/ g # f /\ t.frame[g] = s.frame[g]
                            \/ /\ t.frame[g].by = "none" /\ t.frame[g].at = "off"
                               /\ t.frame[g].c = 0
    <3>1. t.frame[f] = NoFrame
      BY <2>3, Zenon
    <3>2. \A g \in Frames : g # f => t.frame[g] = s.frame[g]
      BY <2>3, Zenon
    <3> QED
      BY <3>1, <3>2, FrameEnds
  <2>5. BoundsInv(t)
    <3>1. s.connects \in Conn0
      BY <2>1, Parts, Zenon
    <3>2. 0 <= s.connects
      BY <3>1, ConnectsAssumption DEF Conn0
    <3> QED
      BY <2>3, <2>4, <3>2, Zenon DEF Sound, BoundsInv
  <2>6. StartsInv(t)
    <3>1. \A g \in Frames : s.frame[g].by = "start" => g = f
      BY Zenon DEF Sound, StartsInv
    <3>2. \A g \in Frames : t.frame[g].by # "start"
      BY <2>4, <3>1, Zenon
    <3>3. b.state = "Disconnected" => ~b.started
      BY <2>2, Zenon DEF Sound, StartsInv
    <3>4. b.state # "Connecting"
      BY Zenon
    <3>5. \A g \in Frames : s.frame[g].at = "delay" => s.frame[g].by = "reconnect"
      BY Zenon DEF Sound, StartsInv
    <3>6. \A g \in Frames : t.frame[g].at = "delay" => t.frame[g].by = "reconnect"
      BY <2>4, <3>5
    <3> QED
      BY <2>3, <3>2, <3>3, <3>4, <3>6, Zenon DEF StartsInv
  <2>7. FailsInv(t)
    <3>1. FailsInv(s)
      BY Zenon DEF Sound
    <3> QED
      BY <2>3, <2>4, <3>1 DEF FailsInv, Down
  <2>8. Sound(t)
    BY <2>3, <2>5, <2>6, <2>7, Zenon DEF Sound
  <2>9. SameHold(s, t)
    BY <2>3, Zenon DEF SameHold
  <2>10. TimerInv(s) => TimerInv(t)
    BY <2>2, <2>3, <2>4, Zenon DEF TimerInv, Down
  <2> QED
    BY <2>4, <2>8, <2>9, <2>10, HeldKept, Zenon DEF Fine
<1>HubStartedFine.
  ASSUME NEW f \in Frames, HubStarted(f)
  PROVE  Fine(heap, heap')
  <2> USE <1>HubStartedFine
  <2> DEFINE s == heap
             e == End(s, f)
             t == [e EXCEPT !.hub.state = "Connected", !.hub.started = TRUE]
             b == [e.hub EXCEPT !.state = "Connected", !.started = TRUE]
  <2>1. s.frame[f].by = "start" /\ Settling(s, f)
    BY HeapParts, Zenon DEF HubStarted, Settling
  <2>2. Becomes(t)
    BY Zenon DEF HubStarted
  <2>3. Sound(s) /\ s \in Heap
    BY Zenon DEF Sound
  <2> HIDE DEF s
  <2>4. e \in Heap /\ e.hub \in HubFields
    BY <2>3, EndEffect, Parts, Zenon
  <2> HIDE DEF e
  <2>5. b \in HubFields /\ b.state = "Connected" /\ b.timeout = e.hub.timeout
    BY <2>4, Zenon DEF HubFields, HubStates
  <2>6. t = SetHub(e, b)
    BY <2>4, Parts, Zenon DEF SetHub
  <2> HIDE DEF t, b
  <2>7. Fine(s, t)
    BY <2>1, <2>3, <2>5, <2>6, <1>StartEnds, Zenon DEF e
  <2> QED
    BY <2>2, <2>7, BecomesFine, Zenon DEF s
<1>StartRejectedFine.
  ASSUME NEW f \in Frames, StartRejected(f)
  PROVE  Fine(heap, heap')
  <2> USE <1>StartRejectedFine
  <2> DEFINE s == heap
             e == End(s, f)
             t == [e EXCEPT !.hub.state = "Disconnected"]
             b == [e.hub EXCEPT !.state = "Disconnected"]
  <2>1. s.frame[f].by = "start"
    BY HeapParts, Zenon DEF StartRejected
  <2>2. Becomes(t)
    BY Zenon DEF StartRejected
  <2>3. Sound(s) /\ s \in Heap
    BY Zenon DEF Sound
  <2> HIDE DEF s
  <2>4. e \in Heap /\ e.hub \in HubFields
    BY <2>3, EndEffect, Parts, Zenon
  <2> HIDE DEF e
  <2>5. /\ b \in HubFields /\ b.state = "Disconnected" /\ b.timeout = e.hub.timeout
        /\ b.started = e.hub.started
    BY <2>4, Zenon DEF HubFields, HubStates
  <2>6. t = SetHub(e, b)
    BY <2>4, Parts, Zenon DEF SetHub
  <2> HIDE DEF t, b
  <2>7. Fine(s, t)
    BY <2>1, <2>3, <2>5, <2>6, <1>StartEnds, Zenon DEF e
  <2> QED
    BY <2>2, <2>7, BecomesFine, Zenon DEF s
<1>HubReconnectedFine.
  ASSUME NEW f \in Frames, HubReconnected(f)
  PROVE  Fine(heap, heap')
  <2> USE <1>HubReconnectedFine
  <2> DEFINE s == heap
             e == End(s, f)
             t == [e EXCEPT !.hub.state = "Connected"]
             b == [e.hub EXCEPT !.state = "Connected"]
  <2>1. s.frame[f].by = "reconnect" /\ Settling(s, f)
    BY HeapParts, Zenon DEF HubReconnected, Settling
  <2>2. Becomes(t)
    BY Zenon DEF HubReconnected
  <2>3. Sound(s) /\ s \in Heap
    BY Zenon DEF Sound
  <2> HIDE DEF s
  <2>4. /\ e \in Heap /\ e.hub \in HubFields /\ e.http = s.http /\ e.conn = s.conn
        /\ e.connects = s.connects /\ e.hub.timeout = s.hub.timeout
        /\ e.frame[f] = NoFrame /\ \A g \in Frames : g # f => e.frame[g] = s.frame[g]
    BY <2>3, EndEffect, Parts
  <2>5. Fine(s, e)
    BY <2>1, <2>3, EndFine, Zenon
  <2> HIDE DEF e
  <2>6. /\ b \in HubFields /\ b.state = "Connected" /\ b.timeout = e.hub.timeout
        /\ b.started = e.hub.started
    BY <2>4, Zenon DEF HubFields, HubStates
  <2>7. t = SetHub(e, b)
    BY <2>4, Parts, Zenon DEF SetHub
  <2> HIDE DEF t, b
  <2>8. /\ t.http = e.http /\ t.hub = b /\ t.frame = e.frame /\ t.conn = e.conn
        /\ t.connects = e.connects
    BY <2>4, <2>6, <2>7, SetHubEffect
  <2>9. Sound(t)
    BY <2>5, <2>6, <2>7, HubSound, Zenon DEF Fine
  <2>10. Quieter(s, t) /\ \A g \in Frames : Settling(t, g) => Settling(s, g)
    <3>1. t.frame[f] = NoFrame
      BY <2>4, <2>8, Zenon
    <3>2. \A g \in Frames : g # f => t.frame[g] = s.frame[g]
      BY <2>4, <2>8, Zenon
    <3> QED
      BY <3>1, <3>2, FrameEnds, Zenon
  <2>11. Held(s) => Held(t)
    <3>1. SameHold(s, t)
      BY <2>4, <2>8, Zenon DEF SameHold
    <3> QED
      BY <2>10, <3>1, HeldKept, Zenon
  <2>12. TimerInv(s) => TimerInv(t)
    BY <2>1, <2>4, <2>6, <2>8, <2>10, Zenon DEF TimerInv, Down
  <2>13. Fine(s, t)
    BY <2>9, <2>11, <2>12, Zenon DEF Fine
  <2> QED
    BY <2>2, <2>13, BecomesFine, Zenon DEF s
<1>CallerAtFine.
  ASSUME NEW s, Sound(s), NEW u \in Stops, NEW at \in {"start", "done"},
         NEW t, t = CallerAt(s, u, at)
  PROVE  Fine(s, t)
  <2> USE <1>CallerAtFine
  <2> DEFINE r == [s.caller[u] EXCEPT !.at = at]
             K == [s.caller EXCEPT ![u] = r]
  <2>1. s \in Heap
    BY Zenon DEF Sound
  <2>2. s.caller[u] \in CallerFields
    BY <2>1, Parts, Zenon
  <2>3. r \in CallerFields
    BY <2>2, Zenon DEF CallerFields
  <2>4. t = SetCaller(s, K)
    BY <2>1, Parts, Zenon DEF SetCaller, CallerAt
  <2> HIDE DEF r
  <2>5. K \in [Stops -> CallerFields]
    BY <2>1, <2>3, Parts, Zenon
  <2> HIDE DEF K
  <2> QED
    BY <2>4, <2>5, CallerFine, Zenon
<1>StopContinuesFine.
  ASSUME NEW u \in Stops, StopContinues(u)
  PROVE  Fine(heap, heap')
  <2> USE <1>StopContinuesFine
  <2>1. PICK at \in {"start", "done"} : Becomes(CallerAt(heap, u, at))
    BY Zenon DEF StopContinues, CallerAt
  <2> QED
    BY <2>1, <1>CallerAtFine, BecomesFine, Zenon
<1>StopReturnsFine.
  ASSUME NEW u \in Stops, StopReturns(u)
  PROVE  Fine(heap, heap')
  <2> USE <1>StopReturnsFine
  <2>1. PICK at \in {"start", "done"} : Becomes(CallerAt(heap, u, at))
    BY Zenon DEF StopReturns, CallerAt
  <2> QED
    BY <2>1, <1>CallerAtFine, BecomesFine, Zenon
<1>1. ASSUME NEW f \in Frames, HttpStartStopped(f) \/ HandshakeThrows(f)
      PROVE  Fine(heap, heap')
  BY <1>1, <1>ThrowsFine, Zenon DEF HttpStartStopped, HandshakeThrows
<1> QED
  BY <1>1, <1>HttpStartContinuesFine, <1>SendHandshakeFine, <1>HandshakeSentFine,
     <1>HandshakeNotSentFine, <1>HandshakeContinuesFine, <1>HubStartedFine, <1>HubReconnectedFine,
     <1>StartRejectedFine, ReconnectFacts, StopSteps, <1>StopContinuesFine, <1>StopReturnsFine, Zenon
     DEF Continue

Called(s, u, r) == [s EXCEPT !.caller[u] = r]


-----------------------------------------------------------------------------
(* Calls of stop.                                                          *)

\* A call of stop.
LEMMA StopCalled ==
  /\ \A u \in Stops, act \in Acts :
       Sound(heap) /\ Stop(u, act) =>
         Fine(heap, heap')
<1>StopAwaitsType.
  ASSUME NEW s, Sound(s)
  PROVE  stopAwaits(s) \in Awaits
  <2> USE <1>StopAwaitsType
  <2>1. s \in Heap /\ BoundsInv(s)
    BY Zenon DEF Sound
  <2>2. httpStopAwaits(s) \in Awaits /\ Nothing \in Awaits
    BY <2>1, StopAwaits, Zenon
  <2>3. s.hub.stopPromise \in Awaits
    BY <2>1, Parts, Zenon DEF HubFields
  <2>4. \/ stopAwaits(s) = Nothing \/ stopAwaits(s) = s.hub.stopPromise
        \/ stopAwaits(s) = httpStopAwaits(s)
    BY Zenon DEF stopAwaits
  <2> QED
    BY <2>2, <2>3, <2>4, Zenon
<1>StopFine.
  ASSUME Sound(heap), NEW u \in Stops, NEW act \in Acts, Stop(u, act)
  PROVE  Fine(heap, heap')
  <2> USE <1>StopFine
  <2> DEFINE s == heap
             v == stopInternal(s, act)
             r == [at |-> "stop", awaits |-> stopAwaits(s), f |-> s.hub.startPromise]
             t == Called(v, u, r)
             K == [v.caller EXCEPT ![u] = r]
  <2>1. Sound(s) /\ Becomes(t)
    BY HeapParts, Zenon DEF Stop, Called
  <2>a. s = heap
    BY Zenon
  <2> HIDE DEF s
  <2>2. stopAwaits(s) \in Awaits /\ s.hub.startPromise \in Frames \cup {0}
    <3>1. s.hub \in HubFields
      BY <2>1, Parts, Zenon DEF Sound
    <3>2. s.hub.startPromise \in Frames \cup {0}
      BY <3>1, Zenon DEF HubFields
    <3> QED
      BY <2>1, <3>2, <1>StopAwaitsType, Zenon
  <2>3. r \in CallerFields
    BY <2>2, Zenon DEF CallerFields
  <2> HIDE DEF r
  <2>4. Sound(v) /\ Fine(s, v)
    BY <2>1, StopInternalFacts, Zenon
  <2> HIDE DEF v
  <2>5. v \in Heap
    BY <2>4, Zenon DEF Sound
  <2>6. t = SetCaller(v, K)
    BY <2>5, Parts, Zenon DEF Called, SetCaller
  <2>7. K \in [Stops -> CallerFields]
    BY <2>3, <2>5, Parts, Zenon
  <2> HIDE DEF K, t
  <2>8. Fine(v, t)
    BY <2>4, <2>6, <2>7, CallerFine, Zenon
  <2>9. Fine(s, t)
    BY <2>4, <2>8, FineTransitive, Zenon
  <2> QED
    BY <2>a, <2>1, <2>9, BecomesFine, Zenon
<1> QED
  BY <1>StopFine, Zenon

-----------------------------------------------------------------------------
(* The inductive invariant.                                                *)

\* Every action keeps the invariant.
LEMMA LifeStep == LifeInv /\ [Next]_vars => LifeInv'
<1> SUFFICES ASSUME LifeInv, [Next]_vars
             PROVE  LifeInv'
  BY Zenon
<1>1. ASSUME Next
      PROVE  LifeInv'
  <2>1. Sound(heap) /\ (~reacts => Held(heap) /\ TimerInv(heap))
    BY Zenon DEF LifeInv
  <2>2. Fine(heap, heap')
    BY <1>1, <2>1, ContinueFine, AnswerFine, EventFine, StartFacts, StopCalled, Zenon DEF Next
  <2>3. skip' = skip /\ reacts' = reacts
    BY <1>1, OptionsKept, Zenon DEF Fixed
  <2>4. Sound(heap') /\ (~reacts => Held(heap') /\ TimerInv(heap'))
    BY <2>1, <2>2, Zenon DEF Fine
  <2>5. Sound(heap)' /\ (~reacts => Held(heap)' /\ TimerInv(heap)')
    BY <2>4, Zenon DEF Sound, BoundsInv, StartsInv, FailsInv, Down, Held, TimerInv, Settling
  <2> QED
    BY <2>3, <2>5, Zenon DEF LifeInv
<1>2. ASSUME UNCHANGED vars
      PROVE  LifeInv'
  <2>1. skip' = skip /\ reacts' = reacts /\ heap' = heap
    BY <1>2, Zenon DEF vars, heap
  <2>2. /\ skip \in BOOLEAN /\ reacts \in BOOLEAN /\ Sound(heap)
        /\ ~reacts => Held(heap) /\ TimerInv(heap)
    BY Zenon DEF LifeInv
  <2>3. Sound(heap') /\ (~reacts => Held(heap') /\ TimerInv(heap'))
    BY <2>1, <2>2, Zenon
  <2>4. Sound(heap)' /\ (~reacts => Held(heap)' /\ TimerInv(heap)')
    BY <2>3, Zenon DEF Sound, BoundsInv, StartsInv, FailsInv, Down, Held, TimerInv, Settling
  <2> QED
    BY <2>1, <2>2, <2>4, Zenon DEF LifeInv
<1> QED
  BY <1>1, <1>2, Zenon

-----------------------------------------------------------------------------
(* The theorems.                                                           *)

\* The invariant holds in every state.
LEMMA Life == Spec => []LifeInv
<1> QED
  BY LifeStart, LifeStep, PTL DEF Spec

\* Whatever start, stop, the handshake, the timers and the transports do in
\* signalr.js, the fields of HubConnection and HttpConnection and what each
\* pending promise waits for keep their types: in particular stopPromise is there
\* whenever somebody waits for it.
THEOREM FieldsTyped == Spec => []TypeOK
<1>1. LifeInv => TypeOK
  BY Zenon DEF LifeInv, TypeOK, Sound
<1> QED
  BY <1>1, Life, PTL

\* For any number of starts, frames and calls of stop, also of applications that
\* call start and stop in callbacks: startWithStateTransitions never runs twice at
\* once, and a start or an attempt of reconnect that fails has stopped, or is
\* stopping, the HttpConnection it had started.
THEOREM StartsAccounted == Spec => []StateAccounted
<1>1. LifeInv => StateAccounted
  <2> SUFFICES ASSUME LifeInv
               PROVE  StateAccounted
    BY Zenon
  <2>1. StartsInv(heap) /\ FailsInv(heap)
    BY Zenon DEF LifeInv, Sound
  <2> QED
    BY <2>1, HeapParts, Zenon DEF StartsInv, FailsInv, Down, StateAccounted
<1> QED
  BY <1>1, Life, PTL

\* For any number of starts: the transport that is open is the one in
\* HttpConnection.transport, however starts, stops, fallbacks and attempts to
\* reconnect overlap.
THEOREM TransportsHeld == Spec => []NoTransportLost
<1>1. LifeInv => NoTransportLost
  BY HeapParts, Zenon DEF LifeInv, Held, NoTransportLost
<1> QED
  BY <1>1, Life, PTL

\* For any number of starts: a HubConnection that is Connected above a connected
\* HttpConnection has the timer of resetTimeoutPeriod armed, unless the transport
\* keeps the connection alive itself.
THEOREM SilenceNoticed == Spec => []SilenceIsNoticed
<1>1. LifeInv => SilenceIsNoticed
  BY HeapParts, Zenon DEF LifeInv, TimerInv, Down, SilenceIsNoticed
<1> QED
  BY <1>1, Life, PTL
=============================================================================
