----------------------- MODULE ArchipelagoClientProofs -----------------------
(***************************************************************************)
(* Proofs about ArchipelagoClient, for any length of the event queue, any  *)
(* intervals and any behaviour of the servers: no event of an old socket   *)
(* is processed, no old socket is left running, and the scheme that worked *)
(* is the one used for the next attempt.                                   *)
(***************************************************************************)
EXTENDS ArchipelagoClient, SequenceTheorems, TLAPS

Nothing == events = << >> /\ drained = << >>

\* The sockets.  Each pushes into a queue of its own; the client drains that
\* of the socket it holds, which has not been told to stop.
SocketInv ==
    /\ \A s \in Slots : socket[s].queue = s
    /\ \A s \in Slots : socket[s].stopping => socket[s].phase # "none"
    /\ ws # None => eventQueue = ws /\ ~socket[ws].stopping /\ socket[ws].phase \notin {"none", "silent"}
    /\ ws = None /\ ~gone => Nothing /\ state = "Disconnected" /\ \A s \in Slots : socket[s].phase = "none"
    /\ gone => ws = None /\ ~polling
    /\ ~polling => drained = << >>

\* The order of what is pushed, seen from what waits in the two queues: an
\* Open comes before anything else, a Close after everything.
OrderInv ==
    ws # None =>
        /\ \A i \in DOMAIN drained : drained[i].type = "Open" => i = 1
        /\ \A i \in DOMAIN events : events[i].type = "Open" => i = 1 /\ drained = << >>
        /\ \A i \in DOMAIN drained :
              drained[i].type = "Close" => i = Len(drained) /\ events = << >> /\ socket[ws].phase = "over"
        /\ \A i \in DOMAIN events :
              events[i].type = "Close" => i = Len(events) /\ socket[ws].phase = "over"

\* Nothing has been heard of the attempt yet.
Fresh ==
    /\ state = "SocketConnecting"
    /\ reconnectInterval # FirstInterval
    /\ currentAttemptTls = socket[ws].tls
    /\ ~(polling /\ shouldFallbackToPlain)

OpenWaits == \E e \in ElementsOf(drained) \union ElementsOf(events) : e.type = "Open"

\* While nothing has come of the attempt the client has not moved; once its
\* connection has come up, the client holds on to the scheme, and the
\* connection is up or all there was to say of it has been processed.
SchemeInv ==
    ws # None =>
        /\ socket[ws].phase = "attempting" => Fresh /\ Nothing
        /\ OpenWaits => Fresh
        /\ CameUp =>
              /\ currentAttemptTls = socket[ws].tls
              /\ ~(polling /\ shouldFallbackToPlain)
              /\ state \in Up \/ (state = "Disconnected" /\ Nothing /\ socket[ws].phase = "over")

IInv == TypeOK /\ NoStaleEvents /\ OthersStopped /\ SocketInv /\ OrderInv /\ SchemeInv

-----------------------------------------------------------------------------
(* The event queue. *)

\* Appending adds the one element, at the end.
LEMMA AppendEvent ==
    ASSUME NEW q \in Seq(Events), NEW e \in Events
    PROVE  /\ Append(q, e) \in Seq(Events)
           /\ Len(Append(q, e)) = Len(q) + 1
           /\ Append(q, e) # << >>
           /\ DOMAIN Append(q, e) = DOMAIN q \union {Len(q) + 1}
           /\ \A i \in DOMAIN q : i \in 1 .. Len(q) /\ Append(q, e)[i] = q[i]
           /\ Append(q, e)[Len(q) + 1] = e
           /\ Len(q) \in Nat /\ (q = << >> => Len(q) = 0)
<1>1. Len(q) \in Nat /\ DOMAIN q = 1 .. Len(q)
  BY LenProperties
<1>2. /\ Append(q, e) \in Seq(Events)
      /\ Append(q, e) # << >>
      /\ Len(Append(q, e)) = Len(q) + 1
      /\ \A i \in 1 .. Len(q) : Append(q, e)[i] = q[i]
      /\ Append(q, e)[Len(q) + 1] = e
  BY AppendProperties
<1>3. DOMAIN Append(q, e) = 1 .. Len(q) + 1
  BY <1>2, LenProperties
<1>4. 1 .. Len(q) + 1 = 1 .. Len(q) \union {Len(q) + 1}
  BY <1>1
<1>5. q = << >> => Len(q) = 0
  BY EmptySeq
<1> QED
  BY <1>1, <1>2, <1>3, <1>4, <1>5

\* Taking the first element moves the others up by one.
LEMMA TakeEvent ==
    ASSUME NEW q \in Seq(Events), q # << >>
    PROVE  /\ Tail(q) \in Seq(Events)
           /\ Len(q) \in Nat \ {0} /\ Len(Tail(q)) = Len(q) - 1
           /\ 1 \in DOMAIN q /\ Head(q) = q[1] /\ Head(q) \in Events
           /\ \A i \in DOMAIN Tail(q) :
                 i \in Nat \ {0} /\ i + 1 \in DOMAIN q /\ Tail(q)[i] = q[i + 1]
           /\ Len(q) = 1 => Tail(q) = << >>
<1>1. Len(q) \in Nat \ {0} /\ DOMAIN q = 1 .. Len(q)
  BY EmptySeq, LenProperties
<1>2. /\ Head(q) \in Events /\ Tail(q) \in Seq(Events) /\ Len(Tail(q)) = Len(q) - 1
      /\ \A i \in 1 .. Len(Tail(q)) : Tail(q)[i] = q[i + 1]
  BY HeadTailProperties
<1>3. DOMAIN Tail(q) = 1 .. Len(q) - 1
  BY <1>2, LenProperties
<1>4. Head(q) = q[1]
  BY <1>1
<1>5. Len(q) = 1 => Tail(q) = << >>
  <2>1. \A r \in Seq(Events) : r # << >> => Len(r) \in Nat \ {0}
    BY EmptySeq
  <2>2. Len(q) = 1 => Len(Tail(q)) = 0
    BY <1>2
  <2> QED
    BY <1>2, <2>1, <2>2
<1>6. ASSUME NEW i \in DOMAIN Tail(q)
      PROVE  i \in Nat \ {0} /\ i + 1 \in DOMAIN q /\ Tail(q)[i] = q[i + 1]
  BY <1>1, <1>2, <1>3
<1> QED
  BY <1>1, <1>2, <1>4, <1>5, <1>6

-----------------------------------------------------------------------------
(* The io threads. *)

\* What a callback pushes from a socket that the client has let go of is
\* lost with the queue it goes into.
LEMMA OldSocketPushes ==
    ASSUME IInv, NEW s \in Slots, s # ws, NEW phase \in Phases \ {"none"}, NEW type \in EventTypes,
           ~Finished(s), BecomesAndPushes(s, phase, type)
    PROVE  IInv'
<1> USE DEF IInv, BecomesAndPushes, gameVars
<1>1. socket[s].phase # "none" /\ socket[s].stopping
  BY DEF Finished, OthersStopped
<1>2. socket' \in [Slots -> Sockets] /\ socket' = [socket EXCEPT ![s].phase = phase]
  BY DEF TypeOK, Sockets
<1>3. \A t \in Slots : /\ socket'[t].tls = socket[t].tls /\ socket'[t].queue = socket[t].queue
                       /\ socket'[t].stopping = socket[t].stopping
                       /\ t # s => socket'[t] = socket[t]
  BY <1>2 DEF TypeOK, Sockets
<1>4. socket'[s].phase = phase
  BY <1>2 DEF TypeOK, Sockets
<1>5. CASE ws = None
  <2>1. gone
    BY <1>1, <1>5 DEF SocketInv
  <2>2. events' \in Seq(Events) /\ Len(events') \in Nat /\ Len(events') <= MaxEvents
    <3>1. [type |-> type, from |-> s] \in Events
      BY DEF Events
    <3>2. Len(events) \in Nat /\ MaxEvents \in Nat
      BY LenProperties, ClientAssumption DEF TypeOK
    <3> QED
      BY <3>1, <3>2, AppendEvent DEF Push, TypeOK
  <2>3. TypeOK'
    BY <1>2, <2>2 DEF TypeOK
  <2>4. OthersStopped'
    BY <1>1, <1>3 DEF OthersStopped, Finished
  <2>5. (NoStaleEvents /\ SocketInv /\ OrderInv /\ SchemeInv)'
    BY <1>1, <1>3, <1>4, <1>5, <2>1 DEF NoStaleEvents, SocketInv, OrderInv, SchemeInv
  <2> QED
    BY <2>3, <2>4, <2>5
<1>6. CASE ws # None
  <2>1. UNCHANGED events
    BY <1>6 DEF SocketInv, Push
  <2>2. socket'[ws] = socket[ws]
    BY <1>3, <1>6 DEF TypeOK
  <2>3. TypeOK'
    BY <1>2, <2>1 DEF TypeOK
  <2>4. NoStaleEvents'
    BY <2>1 DEF NoStaleEvents
  <2>5. OthersStopped'
    BY <1>1, <1>3 DEF OthersStopped, Finished
  <2>6. SocketInv'
    BY <1>3, <1>4, <1>6, <2>1, <2>2 DEF SocketInv
  <2>7. OrderInv'
    BY <2>1, <2>2 DEF OrderInv
  <2>8. SchemeInv'
    BY <2>1, <2>2 DEF SchemeInv, Fresh, Nothing, OpenWaits, CameUp
  <2> QED
    BY <2>3, <2>4, <2>5, <2>6, <2>7, <2>8
<1> QED
  BY <1>5, <1>6

\* What a callback pushes from the socket the client holds.
LEMMA HeldSocketPushes ==
    ASSUME IInv, ws # None, ~Finished(ws),
           NEW phase \in Phases \ {"none", "silent", "attempting"}, NEW type \in EventTypes,
           type = "Open" => socket[ws].phase = "attempting" /\ phase = "open",
           type = "Close" => phase = "over",
           BecomesAndPushes(ws, phase, type)
    PROVE  IInv'
<1> DEFINE e == [type |-> type, from |-> ws]
<1> USE DEF IInv, BecomesAndPushes, gameVars
<1>1. ws \in Slots /\ e \in Events /\ e.type = type /\ e.from = ws
  BY DEF TypeOK, Events
<1>2. /\ socket' \in [Slots -> Sockets]
      /\ \A t \in Slots : /\ socket'[t].tls = socket[t].tls /\ socket'[t].queue = socket[t].queue
                          /\ socket'[t].stopping = socket[t].stopping
                          /\ t # ws => socket'[t] = socket[t]
      /\ socket'[ws].phase = phase
  <2>1. socket' = [socket EXCEPT ![ws].phase = phase] /\ socket \in [Slots -> Sockets] /\ phase \in Phases
    BY DEF TypeOK
  <2>2. socket' \in [Slots -> Sockets]
    BY <1>1, <2>1 DEF Sockets
  <2> QED
    BY <1>1, <2>1, <2>2 DEF Sockets
<1>3. events' = Append(events, e)
  BY <1>1 DEF Push, SocketInv
<1>4. /\ events' \in Seq(Events) /\ Len(events') = Len(events) + 1 /\ events' # << >>
      /\ DOMAIN events' = DOMAIN events \union {Len(events) + 1}
      /\ \A i \in DOMAIN events : i \in 1 .. Len(events) /\ events'[i] = events[i]
      /\ events'[Len(events) + 1] = e
      /\ Len(events) \in Nat /\ (events = << >> => Len(events) = 0)
  BY <1>1, <1>3, AppendEvent DEF TypeOK
<1>5. ElementsOf(events') = ElementsOf(events) \union {e}
  BY <1>4 DEF ElementsOf
<1>6. ~gone /\ socket[ws].phase # "over"
  BY DEF SocketInv, Finished
<1> HIDE DEF e
<1>7. TypeOK'
  BY <1>2, <1>4, ClientAssumption DEF TypeOK
<1>8. NoStaleEvents'
  BY <1>1, <1>5, <1>6 DEF NoStaleEvents
<1>9. OthersStopped'
  BY <1>2 DEF OthersStopped, Finished
<1>10. SocketInv'
  BY <1>1, <1>2, <1>6 DEF SocketInv, Nothing
<1>11. OrderInv'
  <2>1. ASSUME NEW i \in DOMAIN drained
        PROVE  drained[i].type # "Close" /\ (drained[i].type = "Open" => i = 1)
    BY <1>6 DEF OrderInv
  <2>2. ASSUME NEW i \in DOMAIN events
        PROVE  events[i].type # "Close" /\ (events[i].type = "Open" => i = 1 /\ drained = << >>)
    BY <1>6 DEF OrderInv
  <2>3. type = "Open" => events = << >> /\ drained = << >>
    BY DEF SchemeInv, Nothing
  <2>4. ASSUME NEW i \in DOMAIN events'
        PROVE  /\ events'[i].type = "Open" => i = 1 /\ drained' = << >>
               /\ events'[i].type = "Close" => i = Len(events') /\ socket'[ws'].phase = "over"
    <3>1. CASE i \in DOMAIN events
      BY <1>4, <2>2, <3>1
    <3>2. CASE i = Len(events) + 1
      BY <1>1, <1>2, <1>4, <2>3, <3>2
    <3> QED
      BY <1>4, <3>1, <3>2
  <2> QED
    BY <2>1, <2>4 DEF OrderInv
<1>12. SchemeInv'
  <2>1. socket'[ws].tls = socket[ws].tls /\ socket'[ws].phase # "attempting"
    BY <1>1, <1>2
  <2>2. ASSUME OpenWaits' PROVE Fresh
    BY <1>1, <1>5, <2>2 DEF OpenWaits, SchemeInv
  <2>3. Fresh => Fresh'
    BY <2>1 DEF Fresh
  <2>4. ASSUME CameUp PROVE state \in Up /\ currentAttemptTls = socket[ws].tls /\ ~(polling /\ shouldFallbackToPlain)
    BY <1>6, <2>4 DEF SchemeInv
  <2> QED
    BY <2>1, <2>2, <2>3, <2>4 DEF SchemeInv, CameUp
<1> QED
  BY <1>7, <1>8, <1>9, <1>10, <1>11, <1>12

\* A socket told to stop gets to it.
LEMMA StopInv == ASSUME IInv, NEW s \in Slots, StopRuns(s) PROVE IInv'
<1> USE DEF IInv, StopRuns, gameVars
<1>1. s # ws
  BY DEF SocketInv, None, Slots
<1>2. /\ socket' \in [Slots -> Sockets]
      /\ \A t \in Slots : /\ socket'[t].tls = socket[t].tls /\ socket'[t].queue = socket[t].queue
                          /\ t # s => socket'[t] = socket[t]
      /\ socket'[s].phase = "silent" /\ ~socket'[s].stopping
  BY DEF TypeOK, Sockets, Phases
<1>3. ws # None => socket'[ws] = socket[ws]
  BY <1>1, <1>2 DEF TypeOK
<1>4. socket[s].phase # "none"
  BY DEF SocketInv
<1>5. TypeOK'
  BY <1>2 DEF TypeOK
<1>6. NoStaleEvents' /\ OrderInv'
  BY <1>3 DEF NoStaleEvents, OrderInv
<1>7. OthersStopped'
  BY <1>2 DEF OthersStopped, Finished
<1>8. SocketInv'
  <2>1. ws # None \/ gone
    BY <1>4 DEF SocketInv
  <2>2. \A t \in Slots : socket'[t].queue = t /\ (socket'[t].stopping => socket'[t].phase # "none")
    BY <1>2 DEF SocketInv
  <2> QED
    BY <1>3, <2>1, <2>2 DEF SocketInv
<1>9. SchemeInv'
  BY <1>3 DEF SchemeInv, Fresh, Nothing, OpenWaits, CameUp
<1> QED
  BY <1>5, <1>6, <1>7, <1>8, <1>9

LEMMA StrandInv == ASSUME IInv, NEW s \in Slots, Strand(s) PROVE IInv'
<1>1. CASE StopRuns(s)
  BY <1>1, StopInv
<1>2. CASE ~StopRuns(s)
  <2>1. PICK phase \in Phases \ {"none", "silent", "attempting"}, type \in EventTypes :
            /\ BecomesAndPushes(s, phase, type)
            /\ ~Finished(s)
            /\ type = "Open" => socket[s].phase = "attempting" /\ phase = "open"
            /\ type = "Close" => phase = "over"
    <3>1. CASE SocketOpens(s)
      BY <3>1 DEF SocketOpens, Phases, EventTypes, Finished
    <3>2. CASE SocketFails(s)
      BY <3>2 DEF SocketFails, Phases, EventTypes, Finished
    <3>3. CASE SocketCloses(s)
      BY <3>3 DEF SocketCloses, Phases, EventTypes, Finished
    <3>4. CASE SocketReceives(s)
      BY <3>4 DEF SocketReceives, Phases, EventTypes, Finished
    <3>5. CASE ConnectionLost(s)
      BY <3>5 DEF ConnectionLost, Phases, EventTypes, Finished
    <3> QED
      BY <1>2, <3>1, <3>2, <3>3, <3>4, <3>5 DEF Strand
  <2>2. CASE s = ws
    <3>1. ws # None
      BY <2>2 DEF Slots, None
    <3> QED
      BY <2>1, <2>2, <3>1, HeldSocketPushes
  <2>3. CASE s # ws
    BY <2>1, <2>3, OldSocketPushes
  <2> QED
    BY <2>2, <2>3
<1> QED
  BY <1>1, <1>2

-----------------------------------------------------------------------------
(* The game thread. *)

LEMMA PollBeginsInv == ASSUME IInv, PollBegins PROVE IInv'
<1> USE DEF IInv, PollBegins
<1>1. ~gone /\ drained = << >> /\ ~polling /\ << >> \in Seq(Events) /\ Len(<< >>) = 0 /\ DOMAIN << >> = {}
  BY EmptySeq DEF SocketInv
<1>2. ElementsOf(events') = {} /\ ElementsOf(drained) = {} /\ ElementsOf(drained') = ElementsOf(events)
  BY <1>1 DEF ElementsOf
<1>3. TypeOK'
  BY <1>1, ClientAssumption DEF TypeOK
<1>4. NoStaleEvents' /\ OthersStopped'
  BY <1>1, <1>2 DEF NoStaleEvents, OthersStopped, Finished
<1>5. SocketInv'
  BY <1>1 DEF SocketInv, Nothing
<1>6. OrderInv'
  BY <1>1 DEF OrderInv
<1>7. SchemeInv'
  BY <1>1, <1>2 DEF SchemeInv, Fresh, Nothing, OpenWaits, CameUp
<1> QED
  BY <1>3, <1>4, <1>5, <1>6, <1>7

\* What taking an event off the drained ones leaves, whatever its type.
LEMMA TakesInv ==
    ASSUME IInv, NEW type, Takes(type)
    PROVE  /\ ws # None /\ socket[ws].phase # "attempting" /\ ~OpenWaits'
           /\ drained' \in Seq(Events) /\ Len(drained') <= MaxEvents
           /\ type = "Open" => Fresh
           /\ type = "Close" => Nothing' /\ socket[ws].phase = "over"
           /\ NoStaleEvents' /\ OthersStopped' /\ SocketInv' /\ OrderInv'
<1> USE DEF IInv, Takes
<1>1. ~gone /\ ws # None /\ drained # << >> /\ drained \in Seq(Events) /\ Head(drained).type = type
  BY DEF SocketInv, Nothing, TypeOK
<1>2. /\ Tail(drained) \in Seq(Events)
      /\ Len(drained) \in Nat \ {0} /\ Len(Tail(drained)) = Len(drained) - 1
      /\ 1 \in DOMAIN drained /\ Head(drained) = drained[1]
      /\ \A i \in DOMAIN Tail(drained) :
            i \in Nat \ {0} /\ i + 1 \in DOMAIN drained /\ Tail(drained)[i] = drained[i + 1]
      /\ Len(drained) = 1 => Tail(drained) = << >>
  BY <1>1, TakeEvent
<1>3. ASSUME NEW i \in DOMAIN drained'
      PROVE  /\ i + 1 \in DOMAIN drained /\ drained'[i] = drained[i + 1]
             /\ i + 1 # 1 /\ (i + 1 = Len(drained) => i = Len(drained'))
  BY <1>2
<1>4. ElementsOf(drained') \subseteq ElementsOf(drained)
  BY <1>3 DEF ElementsOf
<1>5. ~OpenWaits'
  <2>1. \A i \in DOMAIN drained' : drained'[i].type # "Open"
    BY <1>1, <1>3 DEF OrderInv
  <2>2. \A i \in DOMAIN events : events[i].type # "Open"
    BY <1>1 DEF OrderInv
  <2> QED
    BY <2>1, <2>2 DEF OpenWaits, ElementsOf
<1>6. drained' \in Seq(Events) /\ Len(drained') <= MaxEvents
  BY <1>2, ClientAssumption DEF TypeOK
<1>7. type = "Open" => Fresh
  BY <1>1, <1>2 DEF SchemeInv, OpenWaits, ElementsOf
<1>8. type = "Close" => Nothing' /\ socket[ws].phase = "over"
  BY <1>1, <1>2 DEF OrderInv, Nothing
<1>9. socket[ws].phase # "attempting"
  BY <1>1 DEF SchemeInv, Nothing
<1>10. NoStaleEvents' /\ OthersStopped'
  BY <1>4 DEF NoStaleEvents, OthersStopped, Finished
<1>11. SocketInv'
  BY <1>1 DEF SocketInv
<1>12. OrderInv'
  <2>1. ASSUME NEW i \in DOMAIN drained'
        PROVE  /\ drained'[i].type # "Open"
               /\ drained'[i].type = "Close" => i = Len(drained') /\ events = << >> /\ socket[ws].phase = "over"
    BY <1>1, <1>3 DEF OrderInv
  <2>2. ASSUME NEW i \in DOMAIN events
        PROVE  /\ events[i].type # "Open"
               /\ events[i].type = "Close" => i = Len(events) /\ socket[ws].phase = "over"
    BY <1>1 DEF OrderInv
  <2> QED
    BY <2>1, <2>2 DEF OrderInv
<1> QED
  BY <1>1, <1>5, <1>6, <1>7, <1>8, <1>9, <1>10, <1>11, <1>12

LEMMA HandledInv ==
    ASSUME IInv, PollOpen \/ PollTlsHandshakeFailed \/ PollClose \/ PollMessage \/ PollError
    PROVE  IInv'
<1> USE DEF IInv
<1>1. CASE PollOpen
  <2> USE <1>1 DEF PollOpen
  <2>1. /\ ws # None /\ socket[ws].phase # "attempting" /\ ~OpenWaits' /\ Fresh
        /\ drained' \in Seq(Events) /\ Len(drained') <= MaxEvents
        /\ NoStaleEvents' /\ OthersStopped' /\ SocketInv' /\ OrderInv'
    BY TakesInv
  <2>2. TypeOK'
    BY <2>1, ClientAssumption DEF TypeOK, Takes, Up
  <2>3. SchemeInv'
    BY <2>1 DEF SchemeInv, Takes, Fresh, Up
  <2> QED
    BY <2>1, <2>2, <2>3
<1>2. CASE PollTlsHandshakeFailed
  <2> USE <1>2 DEF PollTlsHandshakeFailed
  <2>1. /\ ws # None /\ socket[ws].phase # "attempting" /\ ~OpenWaits'
        /\ drained' \in Seq(Events) /\ Len(drained') <= MaxEvents
        /\ NoStaleEvents' /\ OthersStopped' /\ SocketInv' /\ OrderInv'
    BY TakesInv
  <2>2. TypeOK'
    BY <2>1 DEF TypeOK, Takes, FallsBack
  <2>3. CameUp => state \in Up /\ ~shouldFallbackToPlain
    BY DEF SchemeInv, Takes, Nothing, CameUp
  <2>4. SchemeInv'
    BY <2>1, <2>3 DEF SchemeInv, Takes, CameUp, FallsBack, Up
  <2> QED
    BY <2>1, <2>2, <2>4
<1>3. CASE PollClose
  <2> USE <1>3 DEF PollClose
  <2>1. /\ ws # None /\ socket[ws].phase = "over" /\ ~OpenWaits' /\ Nothing'
        /\ drained' \in Seq(Events) /\ Len(drained') <= MaxEvents
        /\ NoStaleEvents' /\ OthersStopped' /\ SocketInv' /\ OrderInv'
    BY TakesInv
  <2>2. TypeOK'
    BY <2>1 DEF TypeOK, Takes, Up, Down
  <2>3. CameUp => state \in Up /\ ~shouldFallbackToPlain
    BY DEF SchemeInv, Takes, Nothing, CameUp
  <2>4. SchemeInv'
    BY <2>1, <2>3 DEF SchemeInv, Takes, CameUp, Up, Down
  <2> QED
    BY <2>1, <2>2, <2>4
<1>4. CASE PollMessage \/ PollError
  <2>1. PICK type : Takes(type)
    BY <1>4 DEF PollMessage, PollError
  <2>2. /\ ws # None /\ socket[ws].phase # "attempting" /\ ~OpenWaits'
        /\ drained' \in Seq(Events) /\ Len(drained') <= MaxEvents
        /\ NoStaleEvents' /\ OthersStopped' /\ SocketInv' /\ OrderInv'
    BY <2>1, TakesInv
  <2>3. /\ state' = state \/ state' \in Up
        /\ UNCHANGED <<currentAttemptTls, reconnectInterval, shouldFallbackToPlain>>
    BY <1>4 DEF PollMessage, PollError, Up
  <2>4. TypeOK'
    BY <2>1, <2>2, <2>3 DEF TypeOK, Takes
  <2>5. CameUp => state \in Up
    BY <2>1 DEF SchemeInv, Takes, Nothing, CameUp
  <2>6. SchemeInv'
    BY <2>1, <2>2, <2>3, <2>5 DEF SchemeInv, Takes, CameUp
  <2> QED
    BY <2>2, <2>4, <2>6
<1> QED
  BY <1>1, <1>2, <1>3, <1>4

\* The back-off stays under the cap, and never leaves the interval where a
\* connection that came up has put it.
LEMMA BackOff ==
    ASSUME NEW interval \in FirstInterval .. MaxInterval
    PROVE  BackedOff(interval) \in FirstInterval .. MaxInterval /\ BackedOff(interval) # FirstInterval
  BY ClientAssumption DEF BackedOff

\* Dispatching Stop marks the socket the client holds, and no other.
LEMMA Dispatched ==
    ASSUME TypeOK, SocketInv
    PROVE  /\ StopDispatched(socket) \in [Slots -> Sockets]
           /\ \A t \in Slots : /\ StopDispatched(socket)[t].phase = socket[t].phase
                               /\ StopDispatched(socket)[t].queue = socket[t].queue
                               /\ t = ws => StopDispatched(socket)[t].stopping = TRUE
                               /\ t # ws => StopDispatched(socket)[t] = socket[t]
<1>1. socket \in [Slots -> Sockets]
  BY DEF TypeOK
<1>2. CASE ws = None
  BY <1>1, <1>2 DEF StopDispatched, Slots, None
<1>3. CASE ws # None
  <2>1. ws \in Slots /\ StopDispatched(socket) = [socket EXCEPT ![ws].stopping = TRUE]
    BY <1>3 DEF StopDispatched, TypeOK, SocketInv
  <2>2. socket[ws] \in Sockets
    BY <1>1, <2>1
  <2>3. [socket[ws] EXCEPT !.stopping = TRUE] \in Sockets
    BY <2>2 DEF Sockets
  <2>4. StopDispatched(socket) \in [Slots -> Sockets]
    BY <1>1, <2>1, <2>3
  <2> QED
    BY <1>1, <2>1, <2>2, <2>4 DEF Sockets
<1> QED
  BY <1>2, <1>3

\* A new attempt: the old queue goes with the old socket.
LEMMA ConnectInv ==
    ASSUME IInv, polling, drained = << >>, polling' = FALSE, NEW useTls \in BOOLEAN, ConnectSocket(useTls),
           UNCHANGED <<preferTls, drained, shouldFallbackToPlain, gone, server>>
    PROVE  IInv'
<1> USE DEF IInv
<1>1. PICK s \in Slots \ {ws} :
          /\ Finished(s)
          /\ eventQueue' = s /\ events' = << >>
          /\ socket' = [StopDispatched(socket) EXCEPT
                          ![s] = [phase |-> "attempting", tls |-> useTls, queue |-> s, stopping |-> FALSE]]
          /\ ws' = s
          /\ state' = "SocketConnecting"
          /\ currentAttemptTls' = useTls
          /\ reconnectNow' = FALSE
          /\ reconnectInterval' = BackedOff(reconnectInterval)
          /\ elapsed' = 0
  BY DEF ConnectSocket, NewEventQueue
<1>2. /\ StopDispatched(socket) \in [Slots -> Sockets]
      /\ \A t \in Slots : /\ StopDispatched(socket)[t].phase = socket[t].phase
                          /\ StopDispatched(socket)[t].queue = socket[t].queue
                          /\ t = ws => StopDispatched(socket)[t].stopping = TRUE
                          /\ t # ws => StopDispatched(socket)[t] = socket[t]
  BY Dispatched
<1>3. /\ socket' \in [Slots -> Sockets]
      /\ \A t \in Slots \ {s} : socket'[t] = StopDispatched(socket)[t]
      /\ socket'[s].phase = "attempting" /\ socket'[s].tls = useTls
      /\ socket'[s].queue = s /\ ~socket'[s].stopping
  BY <1>1, <1>2 DEF Sockets, Phases
<1>4. /\ s # None /\ << >> \in Seq(Events) /\ Len(<< >>) = 0 /\ DOMAIN << >> = {}
      /\ Nothing' /\ ElementsOf(events') = {} /\ ElementsOf(drained') = {}
  BY <1>1, EmptySeq DEF Slots, None, Nothing, ElementsOf
<1>5. TypeOK'
  <2>1. reconnectInterval' \in FirstInterval .. MaxInterval
    BY <1>1, BackOff DEF TypeOK
  <2>2. elapsed' \in 0 .. HandshakeTimeout /\ Len(events') <= MaxEvents /\ Len(drained') <= MaxEvents
    BY <1>1, <1>4, ClientAssumption
  <2>3. /\ state' \in Down /\ ws' \in Slots /\ eventQueue' \in Slots
        /\ events' \in Seq(Events) /\ drained' \in Seq(Events)
        /\ {preferTls', currentAttemptTls', reconnectNow', polling', shouldFallbackToPlain', gone'} \subseteq BOOLEAN
    BY <1>1, <1>4 DEF TypeOK, Down
  <2> QED
    BY <1>3, <2>1, <2>2, <2>3 DEF TypeOK
<1>6. NoStaleEvents' /\ OrderInv'
  BY <1>1, <1>4 DEF NoStaleEvents, OrderInv
<1>7. OthersStopped'
  <2>1. ASSUME NEW t \in Slots \ {s} PROVE Finished(t)' \/ socket'[t].stopping
    <3>1. CASE t = ws
      BY <1>2, <1>3, <3>1
    <3>2. CASE t # ws
      BY <1>2, <1>3, <3>2 DEF OthersStopped, Finished
    <3> QED
      BY <3>1, <3>2
  <2> QED
    BY <1>1, <2>1 DEF OthersStopped
<1>8. SocketInv'
  <2>1. ~gone
    BY DEF SocketInv
  <2>2. ASSUME NEW t \in Slots, t # s, socket'[t].stopping PROVE socket'[t].phase # "none"
    <3>1. CASE t = ws
      BY <1>2, <1>3, <2>2, <3>1 DEF SocketInv, Slots, None
    <3>2. CASE t # ws
      BY <1>2, <1>3, <2>2, <3>2 DEF SocketInv
    <3> QED
      BY <3>1, <3>2
  <2> QED
    <3>1. \A t \in Slots : socket'[t].queue = t
      BY <1>2, <1>3 DEF SocketInv
    <3>2. \A t \in Slots : socket'[t].stopping => socket'[t].phase # "none"
      BY <1>3, <2>2
    <3> QED
      BY <1>1, <1>3, <1>4, <2>1, <3>1, <3>2 DEF SocketInv
<1>9. SchemeInv'
  <2>1. reconnectInterval' # FirstInterval
    BY <1>1, BackOff DEF TypeOK
  <2> QED
    BY <1>1, <1>3, <1>4, <2>1 DEF SchemeInv, Fresh, OpenWaits, CameUp
<1> QED
  BY <1>5, <1>6, <1>7, <1>8, <1>9

LEMMA PollEndsInv == ASSUME IInv, PollEnds PROVE IInv'
<1> USE DEF PollEnds
<1>1. CASE ConnectSocket(FALSE)
  BY <1>1, ConnectInv
<1>2. CASE ConnectSocket(currentAttemptTls)
  BY <1>2, ConnectInv DEF IInv, TypeOK
<1>3. CASE UNCHANGED <<state, currentAttemptTls, reconnectNow, reconnectInterval, elapsed,
                       ws, eventQueue, events, socket>>
  <2> USE <1>3 DEF IInv
  <2>1. TypeOK' /\ NoStaleEvents' /\ OthersStopped' /\ OrderInv'
    BY DEF TypeOK, NoStaleEvents, OthersStopped, Finished, OrderInv
  <2>2. SocketInv'
    BY DEF SocketInv, Nothing
  <2>3. SchemeInv'
    BY DEF SchemeInv, Fresh, Nothing, OpenWaits, CameUp
  <2> QED
    BY <2>1, <2>2, <2>3
<1> QED
  BY <1>1, <1>2, <1>3

LEMMA ResetInv == ASSUME IInv, Reset PROVE IInv'
<1> USE DEF IInv, Reset
<1>1. ws \in Slots /\ drained = << >> /\ << >> \in Seq(Events) /\ Len(<< >>) = 0
  BY EmptySeq DEF TypeOK, SocketInv
<1>2. /\ socket' \in [Slots -> Sockets]
      /\ \A t \in Slots : /\ socket'[t].phase = socket[t].phase
                          /\ socket'[t].queue = socket[t].queue
                          /\ t = ws => socket'[t].stopping = TRUE
                          /\ t # ws => socket'[t] = socket[t]
  BY Dispatched
<1>3. TypeOK'
  BY <1>1, <1>2, ClientAssumption DEF TypeOK, Down
<1>4. NoStaleEvents' /\ OrderInv' /\ SchemeInv'
  BY DEF NoStaleEvents, OrderInv, SchemeInv
<1>5. OthersStopped'
  <2>1. ASSUME NEW t \in Slots PROVE Finished(t)' \/ socket'[t].stopping
    <3>1. CASE t = ws
      BY <1>2, <3>1
    <3>2. CASE t # ws
      BY <1>2, <3>2 DEF OthersStopped, Finished
    <3> QED
      BY <3>1, <3>2
  <2> QED
    BY <2>1 DEF OthersStopped
<1>6. SocketInv'
  <2>1. ASSUME NEW t \in Slots
        PROVE  socket'[t].queue = t /\ (socket'[t].stopping => socket'[t].phase # "none")
    <3>1. CASE t = ws
      BY <1>1, <1>2, <3>1 DEF SocketInv, None, Slots
    <3>2. CASE t # ws
      BY <1>2, <3>2 DEF SocketInv
    <3> QED
      BY <3>1, <3>2
  <2>2. gone' /\ ws' = None /\ ~polling' /\ drained' = << >>
    BY <1>1
  <2> QED
    BY <2>1, <2>2 DEF SocketInv
<1> QED
  BY <1>3, <1>4, <1>5, <1>6

LEMMA TickInv == ASSUME IInv, Tick PROVE IInv'
<1> USE DEF IInv, Tick
<1>1. elapsed' \in 0 .. HandshakeTimeout
  BY ClientAssumption DEF TypeOK, Counted
<1>2. TypeOK' /\ NoStaleEvents' /\ OthersStopped' /\ OrderInv'
  BY <1>1 DEF TypeOK, NoStaleEvents, OthersStopped, Finished, OrderInv
<1>3. SocketInv' /\ SchemeInv'
  BY DEF SocketInv, SchemeInv, Fresh, Nothing, OpenWaits, CameUp
<1> QED
  BY <1>2, <1>3

-----------------------------------------------------------------------------

LEMMA InitInv == Init => IInv
<1> SUFFICES ASSUME Init PROVE IInv
  OBVIOUS
<1> USE DEF Init
<1>1. << >> \in Seq(Events) /\ Len(<< >>) = 0 /\ DOMAIN << >> = {}
  BY EmptySeq
<1>2. TypeOK
  <2>1. socket \in [Slots -> Sockets]
    BY DEF Slots, Sockets, Phases
  <2>2. {preferTls, currentAttemptTls, reconnectNow, polling, shouldFallbackToPlain, gone} \subseteq BOOLEAN
    OBVIOUS
  <2>3. /\ reconnectInterval \in FirstInterval .. MaxInterval /\ elapsed \in 0 .. HandshakeTimeout
        /\ Len(events) <= MaxEvents /\ Len(drained) <= MaxEvents
    BY <1>1, ClientAssumption
  <2>4. /\ state \in Down /\ ws = None /\ eventQueue \in Slots
        /\ events \in Seq(Events) /\ drained \in Seq(Events) /\ server \in [BOOLEAN -> Kinds]
    BY <1>1 DEF Down, Slots
  <2> QED
    BY <2>1, <2>2, <2>3, <2>4 DEF TypeOK
<1>3. NoStaleEvents /\ OthersStopped
  BY <1>1 DEF NoStaleEvents, OthersStopped, Finished, ElementsOf
<1>4. SocketInv /\ OrderInv /\ SchemeInv
  BY DEF SocketInv, OrderInv, SchemeInv, Nothing
<1> QED
  BY <1>2, <1>3, <1>4 DEF IInv

LEMMA StepInv == IInv /\ [Next]_vars => IInv'
<1> SUFFICES ASSUME IInv, [Next]_vars PROVE IInv'
  OBVIOUS
<1>1. CASE PollBegins
  BY <1>1, PollBeginsInv
<1>2. CASE PollOpen \/ PollTlsHandshakeFailed \/ PollClose \/ PollMessage \/ PollError
  BY <1>2, HandledInv
<1>3. CASE PollEnds
  BY <1>3, PollEndsInv
<1>4. CASE Reset
  BY <1>4, ResetInv
<1>5. CASE Tick
  BY <1>5, TickInv
<1>6. ASSUME NEW s \in Slots, Strand(s) PROVE IInv'
  BY <1>6, StrandInv
<1>7. CASE UNCHANGED vars
  <2> USE <1>7 DEF IInv, vars
  <2>1. TypeOK' /\ NoStaleEvents' /\ OthersStopped' /\ OrderInv'
    BY DEF TypeOK, NoStaleEvents, OthersStopped, Finished, OrderInv
  <2>2. SocketInv' /\ SchemeInv'
    BY DEF SocketInv, SchemeInv, Fresh, Nothing, OpenWaits, CameUp
  <2> QED
    BY <2>1, <2>2
<1> QED
  BY <1>1, <1>2, <1>3, <1>4, <1>5, <1>6, <1>7 DEF Next, Poll

LEMMA Invariance == Spec => []IInv
  BY InitInv, StepInv, PTL DEF Spec

\* The members of the client keep their types; the back-off stays between
\* its first value and its cap (ConnectSocket).
THEOREM TypeCorrect == Spec => []TypeOK
<1>1. IInv => TypeOK
  BY DEF IInv
<1> QED
  BY <1>1, Invariance, PTL

\* Late events of an earlier socket never reach the client (the comment in
\* ConnectSocket).
THEOREM NeverStale == Spec => []NoStaleEvents
<1>1. IInv => NoStaleEvents
  BY DEF IInv
<1> QED
  BY <1>1, Invariance, PTL

\* No socket the client has let go of runs on (ConnectSocket, Reset).
THEOREM OthersAlwaysStopped == Spec => []OthersStopped
<1>1. IInv => OthersStopped
  BY DEF IInv
<1> QED
  BY <1>1, Invariance, PTL

\* The attempt after a connection that had come up uses its scheme, whatever
\* ended it (the comments in Poll on the alternation and the fallback).
THEOREM WorkingSchemeKept == Spec => KeepsWorkingScheme
<1>1. ASSUME IInv, [Next]_vars, CameUp, ws' \notin {ws, None}
      PROVE  socket'[ws'].tls = socket[ws].tls
  <2>1. PollEnds /\ ~shouldFallbackToPlain /\ ConnectSocket(currentAttemptTls)
    <3>1. PollEnds
      BY <1>1 DEF Next, Poll, PollBegins, PollOpen, PollTlsHandshakeFailed, PollClose, PollMessage, PollError,
                  Takes, Reset, Tick, Strand, SocketOpens, SocketFails, SocketCloses, SocketReceives,
                  ConnectionLost, StopRuns, BecomesAndPushes, gameVars, vars
    <3> QED
      BY <1>1, <3>1 DEF PollEnds, IInv, SchemeInv, CameUp
  <2>2. currentAttemptTls = socket[ws].tls /\ StopDispatched(socket) \in [Slots -> Sockets]
    <3>1. currentAttemptTls = socket[ws].tls
      BY <1>1 DEF IInv, SchemeInv, CameUp
    <3>2. StopDispatched(socket) \in [Slots -> Sockets]
      BY <1>1 DEF IInv, StopDispatched, TypeOK, Sockets
    <3> QED
      BY <3>1, <3>2
  <2>3. socket'[ws'].tls = currentAttemptTls
    BY <2>1, <2>2 DEF ConnectSocket
  <2> QED
    BY <2>2, <2>3
<1> QED
  BY <1>1, Invariance, PTL DEF Spec, KeepsWorkingScheme
==============================================================================
