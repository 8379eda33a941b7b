-------------------------- MODULE ArchipelagoClient --------------------------
(***************************************************************************)
(* How Client (network/AP_Client.cpp) gets and keeps a connection: Poll on *)
(* the game thread, the sockets it creates on the io threads, and the      *)
(* EventQueue between the two.  A socket follows module Transport, which   *)
(* WebSocketClient implements.                                             *)
(*                                                                         *)
(* Time passes in ticks of 1500 ms, the first reconnect interval.          *)
(***************************************************************************)
EXTENDS Integers, Sequences

CONSTANTS
    FirstInterval,     \* reconnectInterval after construction and after Open
    MaxInterval,       \* the cap on reconnectInterval
    HandshakeTimeout,  \* kHandshakeTimeout of the WebSocketClient
    AnswerTicks,       \* a server that answers an attempt does so within this
    MaxEvents,         \* bound on the events waiting in the queue
    Kinds              \* the ways in which the server's port may behave

ASSUME ClientAssumption ==
    /\ {FirstInterval, MaxInterval, HandshakeTimeout, AnswerTicks, MaxEvents} \subseteq Nat \ {0}
    /\ FirstInterval < MaxInterval /\ MaxInterval <= HandshakeTimeout   \* 1.5 s, 15 s, 30 s
    /\ Kinds \subseteq {"answers", "refuses", "badTls", "silent"}

VARIABLES
    \* the game thread
    state,              \* Client::State
    preferTls,          \* FALSE when the host was given as ws://
    currentAttemptTls,
    reconnectNow,
    reconnectInterval,
    elapsed,            \* ticks since lastConnectAttempt, up to a bound
    ws,                 \* the socket the client holds, or None
    eventQueue,         \* which EventQueue the client drains
    events,             \* what is in that queue
    drained,            \* what Poll drained and has yet to process
    polling,            \* Poll is running
    shouldFallbackToPlain,
    gone,               \* the client was reset for good
    \* the io threads
    socket,             \* the two most recent sockets
    server              \* how the server behaves, by scheme (external)

vars == <<state, preferTls, currentAttemptTls, reconnectNow, reconnectInterval,
          elapsed, ws, eventQueue, events, drained, polling,
          shouldFallbackToPlain, gone, socket, server>>

Slots == {0, 1}
None == -1

Down == {"Disconnected", "SocketConnecting"}
Up == {"SocketConnected", "RoomInfo", "SlotConnected"}

EventTypes == {"Open", "Close", "RoomInfo", "Connected", "Error", "TlsHandshakeFailed"}
Events == [type : EventTypes, from : Slots]

Phases == {"none", "attempting", "failing", "open", "greeted", "over", "silent"}
Sockets == [phase : Phases, tls : BOOLEAN, queue : Slots, stopping : BOOLEAN]

\* The members of the client stay in their types; in particular the
\* reconnect interval stays between its first value and its cap.
TypeOK ==
    /\ state \in Down \union Up
    /\ {preferTls, currentAttemptTls, reconnectNow, polling, shouldFallbackToPlain, gone} \subseteq BOOLEAN
    /\ reconnectInterval \in FirstInterval .. MaxInterval
    /\ elapsed \in 0 .. HandshakeTimeout
    /\ ws \in Slots \union {None}
    /\ eventQueue \in Slots
    /\ events \in Seq(Events) /\ Len(events) <= MaxEvents
    /\ drained \in Seq(Events) /\ Len(drained) <= MaxEvents
    /\ socket \in [Slots -> Sockets]
    /\ server \in [BOOLEAN -> Kinds]

Init ==
    /\ state = "Disconnected"
    /\ preferTls \in BOOLEAN
    /\ currentAttemptTls = preferTls
    /\ reconnectNow = TRUE
    /\ reconnectInterval = FirstInterval
    /\ elapsed = 0
    /\ ws = None
    /\ eventQueue = 0
    /\ events = << >>
    /\ drained = << >>
    /\ polling = FALSE
    /\ shouldFallbackToPlain = FALSE
    /\ gone = FALSE
    /\ socket = [s \in Slots |-> [phase |-> "none", tls |-> FALSE, queue |-> s, stopping |-> FALSE]]
    /\ server \in {k \in [BOOLEAN -> Kinds] : k[FALSE] # "badTls"}

-----------------------------------------------------------------------------
(* The io threads: what the sockets' callbacks push. *)

gameVars == <<state, preferTls, currentAttemptTls, reconnectNow, reconnectInterval, elapsed,
              ws, eventQueue, drained, polling, shouldFallbackToPlain, gone>>

\* A callback captured the queue that was the client's when the socket was
\* made; what goes into a queue the client has since replaced is lost.
Push(s, type) ==
    events' = IF socket[s].queue = eventQueue
                THEN Append(events, [type |-> type, from |-> s]) ELSE events

BecomesAndPushes(s, phase, type) ==
    /\ Len(events) < MaxEvents
    /\ Push(s, type)
    /\ socket' = [socket EXCEPT ![s].phase = phase]
    /\ UNCHANGED <<gameVars, server>>

SocketOpens(s) ==
    /\ socket[s].phase = "attempting"
    /\ server[socket[s].tls] = "answers"
    /\ BecomesAndPushes(s, "open", "Open")

\* Fail invokes onError and then onClose, as two pushes.  A server that does
\* not react at all is given up after kHandshakeTimeout.
SocketFails(s) ==
    /\ socket[s].phase = "attempting"
    /\ \/ /\ server[socket[s].tls] = "refuses"
          /\ BecomesAndPushes(s, "failing", "Error")
       \/ /\ server[socket[s].tls] = "badTls"
          /\ BecomesAndPushes(s, "failing", "TlsHandshakeFailed")
       \/ /\ server[socket[s].tls] = "silent"
          /\ s = ws /\ elapsed >= HandshakeTimeout
          /\ BecomesAndPushes(s, "failing", "Error")

SocketCloses(s) ==
    /\ socket[s].phase = "failing"
    /\ BecomesAndPushes(s, "over", "Close")

\* The server greets the client and, asked to, lets it into the slot.
SocketReceives(s) ==
    \/ /\ socket[s].phase = "open"
       /\ BecomesAndPushes(s, "greeted", "RoomInfo")
    \/ /\ socket[s].phase = "greeted"
       /\ BecomesAndPushes(s, "greeted", "Connected")

\* An established connection ends: closed by the server, or broken; on a TLS
\* stream the error may be of the ssl category.
ConnectionLost(s) ==
    /\ socket[s].phase \in {"open", "greeted"}
    /\ \/ BecomesAndPushes(s, "over", "Close")
       \/ BecomesAndPushes(s, "failing", "Error")
       \/ /\ socket[s].tls
          /\ BecomesAndPushes(s, "failing", "TlsHandshakeFailed")

\* The strand gets to the Stop that the game thread dispatched.
StopRuns(s) ==
    /\ socket[s].stopping
    /\ socket' = [socket EXCEPT ![s].phase = "silent", ![s].stopping = FALSE]
    /\ UNCHANGED <<gameVars, events, server>>

-----------------------------------------------------------------------------
(* The game thread. *)

\* An attempt is due at once or after the interval.
Due == reconnectNow \/ elapsed >= reconnectInterval

\* Bound: of the sockets the client has given up, only the last may still
\* wait for its Stop.
Finished(s) == socket[s].phase \in {"none", "over", "silent"}

\* Poll starts with a swap under the mutex: the events so far become its
\* own.  It does nothing when there is no event and no attempt is due; those
\* calls are left out.
PollBegins ==
    /\ ~polling /\ ~gone
    /\ events # << >> \/ (state \in Down /\ Due)
    /\ polling' = TRUE
    /\ shouldFallbackToPlain' = FALSE
    /\ drained' = events
    /\ events' = << >>
    /\ UNCHANGED <<state, preferTls, currentAttemptTls, reconnectNow, reconnectInterval,
                   elapsed, ws, eventQueue, gone, socket, server>>

\* The next drained event is of this type; the rest of its handler follows.
Takes(type) ==
    /\ polling
    /\ drained # << >>
    /\ Head(drained).type = type
    /\ drained' = Tail(drained)
    /\ UNCHANGED <<preferTls, reconnectNow, elapsed, ws, eventQueue, events, polling, gone, socket, server>>

PollOpen ==
    /\ Takes("Open")
    /\ state' = "SocketConnected"
    /\ reconnectInterval' = FirstInterval
    /\ UNCHANGED <<currentAttemptTls, shouldFallbackToPlain>>

\* An attempt whose TLS handshake failed is repeated in plaintext; the same
\* error on an established connection is only reported.
\* Definitions named for a slip are mistaken variants of the one they
\* precede; nothing uses them but the runs that show a property can fail.
FallsBackAlways == TRUE
FallsBack == state = "SocketConnecting"

PollTlsHandshakeFailed ==
    /\ Takes("TlsHandshakeFailed")
    /\ shouldFallbackToPlain' = (FallsBack \/ shouldFallbackToPlain)
    /\ UNCHANGED <<state, currentAttemptTls, reconnectInterval>>

PollClose ==
    /\ Takes("Close")
    /\ currentAttemptTls' = IF state \in Down /\ ~shouldFallbackToPlain
                              THEN ~currentAttemptTls ELSE currentAttemptTls
    /\ state' = IF state \in Up \/ ~shouldFallbackToPlain THEN "Disconnected" ELSE state
    /\ UNCHANGED <<reconnectInterval, shouldFallbackToPlain>>

PollMessage ==
    /\ \/ Takes("RoomInfo") /\ state' = (IF state = "SlotConnected" THEN state ELSE "RoomInfo")
       \/ Takes("Connected") /\ state' = "SlotConnected"
    /\ UNCHANGED <<currentAttemptTls, reconnectInterval, shouldFallbackToPlain>>

PollError ==
    /\ Takes("Error")
    /\ UNCHANGED <<state, currentAttemptTls, reconnectInterval, shouldFallbackToPlain>>

\* The client replaces its queue with each socket.
KeepEventQueue(s) == UNCHANGED <<eventQueue, events>>
NewEventQueue(s) == eventQueue' = s /\ events' = << >>

\* Dispatching Stop to the socket the client lets go of.
LetGo(sockets) == sockets
StopDispatched(sockets) ==
    IF ws = None \/ sockets[ws].phase = "none" THEN sockets
    ELSE [sockets EXCEPT ![ws].stopping = TRUE]

\* reconnectInterval = min(2 * reconnectInterval, 15 s).
NeverBackedOff(interval) == interval
BackedOffUncapped(interval) == 2 * interval
BackedOff(interval) == IF 2 * interval < MaxInterval THEN 2 * interval ELSE MaxInterval

ConnectSocket(useTls) ==
    \E s \in Slots \ {ws} :
        /\ Finished(s)
        /\ NewEventQueue(s)
        /\ socket' = [StopDispatched(socket) EXCEPT
                        ![s] = [phase |-> "attempting", tls |-> useTls, queue |-> eventQueue', stopping |-> FALSE]]
        /\ ws' = s
        /\ state' = "SocketConnecting"
        /\ currentAttemptTls' = useTls
        /\ reconnectNow' = FALSE
        /\ reconnectInterval' = BackedOff(reconnectInterval)
        /\ elapsed' = 0

PollEnds ==
    /\ polling
    /\ drained = << >>
    /\ polling' = FALSE
    /\ \/ /\ shouldFallbackToPlain
          /\ ConnectSocket(FALSE)
       \/ /\ ~shouldFallbackToPlain
          /\ state \in Down /\ Due
          /\ ConnectSocket(currentAttemptTls)
       \/ /\ ~shouldFallbackToPlain
          /\ ~(state \in Down /\ Due)
          /\ UNCHANGED <<state, currentAttemptTls, reconnectNow, reconnectInterval, elapsed,
                         ws, eventQueue, events, socket>>
    /\ UNCHANGED <<preferTls, drained, shouldFallbackToPlain, gone, server>>

\* Its one caller, ~AP_Character, destroys the client afterwards.
Reset ==
    /\ ~polling /\ ~gone
    /\ ws # None
    /\ gone' = TRUE
    /\ events' = << >>
    /\ socket' = StopDispatched(socket)
    /\ ws' = None
    /\ state' = "Disconnected"
    /\ currentAttemptTls' = preferTls
    /\ reconnectNow' = TRUE
    /\ reconnectInterval' = FirstInterval
    /\ elapsed' = HandshakeTimeout
    /\ UNCHANGED <<preferTls, eventQueue, drained, polling, shouldFallbackToPlain, server>>

-----------------------------------------------------------------------------
(* Time.  The world update polls many times in a tick, so what is in the   *)
(* queue is drained and an attempt that is due is made before the next     *)
(* tick; a strand that has pushed an error pushes the close right after    *)
(* it; and a server that reacts to an attempt at all does so within        *)
(* AnswerTicks.                                                            *)

Overdue ==
    \/ events # << >>
    \/ state \in Down /\ Due
    \/ /\ ws # None
       /\ \/ socket[ws].phase = "failing"
          \/ /\ socket[ws].phase = "attempting"
             /\ server[socket[ws].tls] # "silent"
             /\ elapsed >= AnswerTicks

\* Bound: how far the time since the last attempt is counted; no comparison
\* needs more.
Counted == IF state \in Up THEN MaxInterval ELSE HandshakeTimeout

Tick ==
    /\ ~polling /\ ~gone
    /\ ws # None
    /\ ~Overdue
    /\ elapsed < Counted
    /\ elapsed' = elapsed + 1
    /\ UNCHANGED <<state, preferTls, currentAttemptTls, reconnectNow, reconnectInterval, ws, eventQueue,
                   events, drained, polling, shouldFallbackToPlain, gone, socket, server>>

Poll == PollBegins \/ PollOpen \/ PollTlsHandshakeFailed \/ PollClose \/ PollMessage \/ PollError \/ PollEnds

Strand(s) == SocketOpens(s) \/ SocketFails(s) \/ SocketCloses(s)
             \/ SocketReceives(s) \/ ConnectionLost(s) \/ StopRuns(s)

Next == Poll \/ Reset \/ Tick \/ \E s \in Slots : Strand(s)

Spec == Init /\ [][Next]_vars

\* The world update keeps polling, time passes, the strands run what is
\* dispatched to them, and attempts end; losing a connection, receiving and
\* Reset are not fair.
Fairness ==
    /\ WF_vars(Poll)
    /\ WF_vars(Tick)
    /\ \A s \in Slots :
          WF_vars(SocketOpens(s)) /\ WF_vars(SocketFails(s)) /\ WF_vars(SocketCloses(s)) /\ WF_vars(StopRuns(s))

FairSpec == Spec /\ Fairness

-----------------------------------------------------------------------------
(* Properties *)

ElementsOf(q) == {q[i] : i \in DOMAIN q}

\* Whatever the client is about to process came from the socket it holds
\* now: late events of an earlier socket never reach it (the comment in
\* ConnectSocket).
NoStaleEvents == ~gone => \A e \in ElementsOf(events) \union ElementsOf(drained) : e.from = ws

\* A socket the client no longer holds is finished or about to be stopped.
OthersStopped == \A s \in Slots \ {ws} : Finished(s) \/ socket[s].stopping

\* A connection has come up since the last attempt when its Open has reset
\* the back-off, for every attempt backs off.
CameUp == ws # None /\ reconnectInterval = FirstInterval

\* Once connected, the working scheme is kept: an attempt that follows a
\* connection which had come up uses that connection's scheme, whatever
\* ended it (the comments in Poll).
KeepsWorkingScheme ==
    [][ CameUp /\ ws' \notin {ws, None} => socket'[ws'].tls = socket[ws].tls ]_vars

\* As long as one scheme answers and the other at least fails, the client
\* gets connected: the back-off grows until the answer is waited for, and
\* the schemes alternate.
Answering == \E tls \in BOOLEAN : server[tls] = "answers"
Silent == \E tls \in BOOLEAN : server[tls] = "silent"

GetsConnected == (Answering /\ ~Silent /\ state \in Down) ~> (state \in Up \/ gone)

\* The comment in Poll promises the alternation "until one succeeds".
AlternatesUntilOneSucceeds == (Answering /\ state \in Down) ~> (state \in Up \/ gone)
==============================================================================
