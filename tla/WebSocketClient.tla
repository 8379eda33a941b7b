--------------------------- MODULE WebSocketClient ---------------------------
(***************************************************************************)
(* One WebSocketClient (network/AP_WebSocketClient.cpp).  Every lambda and *)
(* every completion handler runs on the client's own strand, so each is    *)
(* one atomic action; what interleaves is the order in which the owner's   *)
(* dispatched calls and the completions of the outstanding asynchronous    *)
(* operations reach that strand.                                           *)
(*                                                                         *)
(* boost::beast is external: an operation that is outstanding may complete *)
(* at any time, with success or with an error, except that once the stream *)
(* has failed, has been closed by the peer or had its socket closed, what  *)
(* is still outstanding can only complete with an error.                   *)
(***************************************************************************)
EXTENDS Naturals, Sequences

CONSTANTS
    Tls,          \* the client was created for wss://
    MaxSends,     \* bound on the messages the owner gets accepted
    MaxMessages   \* bound on the messages the peer sends

ASSUME WebSocketAssumption ==
    /\ Tls \in BOOLEAN
    /\ MaxSends \in Nat
    /\ MaxMessages \in Nat

VARIABLES
    state,           \* std::atomic<State> state
    stopped,         \* std::atomic<bool> stopped
    writing,         \* a write is in flight, as the client believes
    closeRequested,  \* a Close() waits for the write in flight
    writeQueue,      \* the messages queued for sending, numbered as accepted
    ops,             \* the asynchronous operations outstanding in boost
    buffer,          \* the message the outstanding async_write reads from
    broken,          \* the stream failed, or its socket was closed
    attempted,       \* the owner has called Connect, which it does once
    accepted,        \* how many messages Send has accepted so far
    written,         \* the messages whose write completed, in that order
    seen             \* how often each callback has been invoked

vars == <<state, stopped, writing, closeRequested, writeQueue, ops, buffer,
          broken, attempted, accepted, written, seen>>

States == {"Disconnected", "Connecting", "Connected", "Closing"}

Operations == {"resolve", "connect", "tlsHandshake", "handshake",
               "read", "write", "close"}

Callbacks == {"open", "message", "error", "close"}

\* The completion of an operation: beast never reports success on a stream
\* that has already failed or whose socket was closed.
Outcomes == IF broken THEN {"error"} ELSE {"ok", "error"}

\* The members of the client and of its outstanding operations stay in
\* their types; in particular the state is one of the four of the enum.
TypeOK ==
    /\ state \in States
    /\ stopped \in BOOLEAN
    /\ writing \in BOOLEAN
    /\ closeRequested \in BOOLEAN
    /\ writeQueue \in Seq(Nat)
    /\ ops \subseteq Operations
    /\ buffer \in Nat
    /\ broken \in BOOLEAN
    /\ attempted \in BOOLEAN
    /\ accepted \in Nat
    /\ written \in Seq(Nat)
    /\ seen \in [Callbacks -> Nat]

\* The constructor's initializer for `state`, and one that is missing.
ConstructedUninitialised == "garbage"
Constructed == "Disconnected"

Init ==
    /\ state = Constructed
    /\ stopped = FALSE
    /\ writing = FALSE
    /\ closeRequested = FALSE
    /\ writeQueue = << >>
    /\ ops = {}
    /\ buffer = 0
    /\ broken = FALSE
    /\ attempted = FALSE
    /\ accepted = 0
    /\ written = << >>
    /\ seen = [c \in Callbacks |-> 0]

-----------------------------------------------------------------------------
(* Helpers: what a handler starts, and which callbacks it invokes.  A      *)
(* definition whose name ends in a slip, such as PoppedNot, is a variant *)
(* of the next one with a mistake; nothing uses it but the checks that the *)
(* properties can tell the two apart.                                      *)

Replaced(done, started) == ops' = (ops \ {done}) \union {started}

Finished(done) == ops' = ops \ {done}

Invoked(callbacks) == seen' = [c \in Callbacks |-> seen[c] + IF c \in callbacks THEN 1 ELSE 0]

\* Closing the socket aborts whatever is outstanding on it.
CloseSocketForgotten == UNCHANGED broken
CloseSocket == broken' = TRUE

\* DoWrite: the write reads from the front of the queue until it completes.
DoWrite(queue, others) ==
    /\ writing' = TRUE
    /\ buffer' = Head(queue)
    /\ ops' = others \union {"write"}

\* The queue after Fail: what a write in flight reads from has to stay.
QueueClearedAnyway(inFlight) == << >>
QueueAfterFail(inFlight) == IF inFlight THEN writeQueue ELSE << >>

\* Fail, as the handler of the failed operation `done` runs it.  `inFlight`
\* is the writing flag at that point.
Fail(done, inFlight) ==
    /\ state' = "Disconnected"
    /\ closeRequested' = FALSE
    /\ writeQueue' = QueueAfterFail(inFlight)
    /\ CloseSocket
    /\ Finished(done)
    /\ Invoked({"error", "close"})

-----------------------------------------------------------------------------
(* The owner's calls, each the lambda the strand runs.                     *)
(*                                                                         *)
(* Client::ConnectSocket creates a client, calls Connect on it once, and   *)
(* drops its reference together with calling Stop: nothing is called after *)
(* Stop.                                                                   *)

Connect ==
    /\ ~attempted
    /\ ~stopped
    /\ state = "Disconnected"
    /\ attempted' = TRUE
    /\ state' = "Connecting"
    /\ ops' = ops \union {"resolve"}
    /\ UNCHANGED <<stopped, writing, closeRequested, writeQueue, buffer, broken, accepted, written, seen>>

\* Ignored unless connected.
Send ==
    /\ ~stopped
    /\ accepted < MaxSends
    /\ state = "Connected"
    /\ accepted' = accepted + 1
    /\ writeQueue' = Append(writeQueue, accepted + 1)
    /\ IF writing
         THEN UNCHANGED <<writing, buffer, ops>>
         ELSE DoWrite(Append(writeQueue, accepted + 1), ops)
    /\ UNCHANGED <<state, stopped, closeRequested, broken, attempted, written, seen>>

\* async_close must not overlap the write in flight, so it waits for it.
Close ==
    /\ ~stopped
    /\ state = "Connected"
    /\ state' = "Closing"
    /\ closeRequested' = writing
    /\ ops' = IF writing THEN ops ELSE ops \union {"close"}
    /\ UNCHANGED <<stopped, writing, writeQueue, buffer, broken, attempted, accepted, written, seen>>

\* Stop leaves the state as it is: the handlers look at `stopped` instead.
Stop ==
    /\ ~stopped
    /\ stopped' = TRUE
    /\ CloseSocket
    /\ UNCHANGED <<state, writing, closeRequested, writeQueue, ops, buffer, attempted, accepted, written, seen>>

-----------------------------------------------------------------------------
(* The completion handlers. *)

\* OnResolve, OnConnect, OnSslHandshake: one stage of the attempt hands over
\* to the next one, or the attempt fails.
Stages == {<<"resolve", "connect">>,
           <<"connect", IF Tls THEN "tlsHandshake" ELSE "handshake">>,
           <<"tlsHandshake", "handshake">>}

OnStage(this, next) ==
    /\ this \in ops
    /\ \/ /\ stopped
          /\ Finished(this)
          /\ UNCHANGED <<state, closeRequested, writeQueue, broken, seen>>
       \/ /\ ~stopped
          /\ "ok" \in Outcomes
          /\ Replaced(this, next)
          /\ UNCHANGED <<state, closeRequested, writeQueue, broken, seen>>
       \/ /\ ~stopped
          /\ Fail(this, writing)
    /\ UNCHANGED <<stopped, writing, buffer, attempted, accepted, written>>

OnHandshake ==
    /\ "handshake" \in ops
    /\ \/ /\ stopped
          /\ Finished("handshake")
          /\ UNCHANGED <<state, closeRequested, writeQueue, broken, seen>>
       \/ /\ ~stopped
          /\ "ok" \in Outcomes
          /\ state' = "Connected"
          /\ Invoked({"open"})
          /\ Replaced("handshake", "read")
          /\ UNCHANGED <<closeRequested, writeQueue, broken>>
       \/ /\ ~stopped
          /\ Fail("handshake", writing)
    /\ UNCHANGED <<stopped, writing, buffer, attempted, accepted, written>>

\* The states in which a failed read stays quiet, because another handler
\* has reported the end of the connection or is going to.
QuietWhenGone == {"Disconnected"}
QuietStates == {"Disconnected", "Closing"}

\* DoRead, from the handler of a read.
ReadForgotten == Finished("read")
ReadAgain == Replaced("read", "read")

\* A read that was in progress when the peer closed reports `closed`; any
\* other failure is an error.  While Closing, OnClose does the reporting.
OnRead ==
    /\ "read" \in ops
    /\ \/ /\ stopped
          /\ Finished("read")
          /\ UNCHANGED <<state, closeRequested, writeQueue, broken, seen>>
       \/ /\ ~stopped
          /\ state \in QuietStates
          /\ broken' = TRUE
          /\ Finished("read")
          /\ UNCHANGED <<state, closeRequested, writeQueue, seen>>
       \/ /\ ~stopped
          /\ state \notin QuietStates
          /\ "ok" \in Outcomes       \* the close frame of the peer
          /\ state' = "Disconnected"
          /\ broken' = TRUE
          /\ Finished("read")
          /\ Invoked({"close"})
          /\ UNCHANGED <<closeRequested, writeQueue>>
       \/ /\ ~stopped
          /\ state \notin QuietStates
          /\ Fail("read", writing)
       \/ /\ ~stopped
          /\ "ok" \in Outcomes
          /\ seen["message"] < MaxMessages
          /\ Invoked({"message"})
          /\ ReadAgain
          /\ UNCHANGED <<state, closeRequested, writeQueue, broken>>
    /\ UNCHANGED <<stopped, writing, buffer, attempted, accepted, written>>

\* The written message leaves the queue.
PoppedNot == writeQueue
Popped == Tail(writeQueue)

\* After a write the next message is taken up, if the connection still is.
NothingMoreToWrite == FALSE
MoreToWrite == Popped # << >> /\ state = "Connected"

\* The write completed: the deferred close or the next write starts.
OnWriteDone ==
    /\ "write" \in ops
    /\ ~stopped
    /\ "ok" \in Outcomes
    /\ writeQueue' = Popped
    /\ written' = Append(written, buffer)
    /\ closeRequested' = FALSE
    /\ IF closeRequested
         THEN /\ writing' = FALSE
              /\ Replaced("write", "close")
              /\ UNCHANGED buffer
         ELSE IF MoreToWrite
                THEN DoWrite(Popped, ops)
                ELSE /\ writing' = FALSE
                     /\ Finished("write")
                     /\ UNCHANGED buffer
    /\ UNCHANGED <<state, stopped, broken, attempted, accepted, seen>>

OnWriteFailed ==
    /\ "write" \in ops
    /\ ~stopped
    /\ writing' = FALSE
    /\ \/ /\ closeRequested
          /\ closeRequested' = FALSE
          /\ state' = "Disconnected"
          /\ broken' = TRUE
          /\ Finished("write")
          /\ Invoked({"close"})
          /\ UNCHANGED writeQueue
       \/ /\ ~closeRequested
          /\ state \in {"Disconnected", "Closing"}
          /\ broken' = TRUE
          /\ Finished("write")
          /\ UNCHANGED <<state, closeRequested, writeQueue, seen>>
       \/ /\ ~closeRequested
          /\ state \notin {"Disconnected", "Closing"}
          /\ Fail("write", FALSE)
    /\ UNCHANGED <<stopped, buffer, attempted, accepted, written>>

\* A completion that finds the client stopped only resets the flag.
OnWriteStopped ==
    /\ "write" \in ops
    /\ stopped
    /\ writing' = FALSE
    /\ Finished("write")
    /\ UNCHANGED <<state, stopped, closeRequested, writeQueue, buffer, broken, attempted, accepted, written, seen>>

OnClose ==
    /\ "close" \in ops
    /\ state' = "Disconnected"
    /\ broken' = TRUE
    /\ Finished("close")
    /\ \/ /\ stopped
          /\ UNCHANGED seen
       \/ /\ ~stopped
          /\ Invoked({"close"})
       \/ /\ ~stopped
          /\ Invoked({"error", "close"})
    /\ UNCHANGED <<stopped, writing, closeRequested, writeQueue, buffer, attempted, accepted, written>>

-----------------------------------------------------------------------------

OnConnecting == \E stage \in Stages : OnStage(stage[1], stage[2])

Owner == Connect \/ Send \/ Close \/ Stop

OnWrite == OnWriteDone \/ OnWriteFailed \/ OnWriteStopped

Completion == OnConnecting \/ OnHandshake \/ OnRead \/ OnWrite \/ OnClose

Next == Owner \/ Completion

(***************************************************************************)
(* The stages of an attempt and async_close are under a 30 s deadline      *)
(* (kHandshakeTimeout, the suggested websocket timeouts, the resolver's    *)
(* own), so they complete.  A read waits for the peer as long as it takes, *)
(* and a write has no deadline either; but both are aborted once the       *)
(* socket is closed.  The owner is not fair at all.                        *)
(***************************************************************************)
Fairness ==
    /\ WF_vars(OnConnecting)
    /\ WF_vars(OnHandshake)
    /\ WF_vars(OnClose)
    /\ WF_vars(broken /\ OnRead)
    /\ WF_vars(broken /\ OnWrite)

Spec == Init /\ [][Next]_vars
FairSpec == Spec /\ Fairness

-----------------------------------------------------------------------------
(* Properties *)

\* What the strand has outstanding in boost is sound: an async_close never
\* overlaps an async_write (the comment in Close, and the hand-over through
\* closeRequested between Close, OnWrite and Fail), `writing` says exactly
\* when a write is in flight, and the message that write reads from is still
\* at the front of the queue (the comment in Fail).
OperationsSound ==
    /\ ~({"write", "close"} \subseteq ops)
    /\ writing <=> "write" \in ops
    /\ writing => writeQueue # << >> /\ buffer = Head(writeQueue)

\* What reaches the peer is a prefix of what Send accepted: in order, no
\* message twice and none skipped, however writes, failures and closes mix.
WrittenInOrder == \A i \in DOMAIN written : written[i] = i

\* No message is stranded: as long as the connection is up, whatever is
\* queued has a write on its way (Send and OnWrite agree who starts it).
NothingStranded ==
    state = "Connected" /\ ~stopped /\ writeQueue # << >> => writing

\* Until it is stopped, a client that is not disconnected has an operation
\* outstanding whose completion will report the end: the owner learns of
\* every lost connection, whichever handler returned early.
EndWillBeReported ==
    ~stopped =>
        /\ state = "Connecting" =>
              ops \intersect {"resolve", "connect", "tlsHandshake", "handshake"} # {}
        /\ state = "Connected" => "read" \in ops
        /\ state = "Closing" => "close" \in ops \/ (closeRequested /\ "write" \in ops)

Safety ==
    /\ OperationsSound
    /\ WrittenInOrder
    /\ NothingStranded
    /\ EndWillBeReported

\* The state as the owner sees it through the callbacks.
Phase ==
    CASE stopped -> "silent"
      [] ~stopped /\ state = "Disconnected" -> IF attempted THEN "over" ELSE "idle"
      [] ~stopped /\ state = "Connecting" -> "attempting"
      [] ~stopped /\ state \in {"Connected", "Closing"} -> "open"

T == INSTANCE Transport WITH phase <- Phase

\* The client keeps the contract its owner relies on (module Transport):
\* the order and number of the callbacks, and silence after Stop.
KeepsContract == T!Spec

\* Nothing is left hanging: every attempt is answered by onOpen, by onClose
\* or by the owner's own Stop; and after Stop the pending operations, which
\* keep the client alive through shared_from_this, all drain.
NothingLeftHanging == T!Answered /\ (stopped ~> ops = {})
==============================================================================
