------------------------ MODULE WebSocketClientProofs ------------------------
(***************************************************************************)
(* Proofs about WebSocketClient, for any number of messages and with or    *)
(* without TLS: the safety properties of its run, from one inductive       *)
(* invariant, and that it implements Transport.                            *)
(***************************************************************************)
EXTENDS WebSocketClient, SequenceTheorems, TLAPS

StageOps == {"resolve", "connect", "tlsHandshake", "handshake"}

\* Before the connection is up nothing was accepted, written or queued.
Untouched ==
    /\ writeQueue = << >>
    /\ written = << >>
    /\ accepted = 0
    /\ ~writing
    /\ ~closeRequested

\* What is outstanding, state by state; a stage of the attempt never runs
\* beside anything else.
OpsInv ==
    /\ state # "Connecting" => ops \subseteq {"read", "write", "close"}
    /\ state = "Connecting" =>
          /\ attempted
          /\ ops = {} \/ \E op \in StageOps : ops = {op}
    /\ "close" \in ops => state = "Closing"
    /\ ~attempted => state = "Disconnected" /\ ops = {}
    /\ attempted /\ state = "Disconnected" => broken
    /\ state = "Connecting" \/ ~attempted => Untouched
    /\ closeRequested /\ ~stopped => writing /\ state = "Closing"

\* The queue continues what was written, and while the connection is up the
\* two together are all that was accepted.
QueueInv ==
    /\ \A i \in DOMAIN writeQueue : writeQueue[i] = Len(written) + i
    /\ state = "Connected" => accepted = Len(written) + Len(writeQueue)

IInv == TypeOK /\ Safety /\ OpsInv /\ QueueInv

-----------------------------------------------------------------------------
(* Sequences, as far as the queue needs them. *)

\* Popping a queue that continues after n leaves one that continues after
\* n + 1.
LEMMA PopContinues ==
    ASSUME NEW q \in Seq(Nat), q # << >>, NEW n \in Nat,
           \A i \in DOMAIN q : q[i] = n + i
    PROVE  /\ Len(q) \in Nat \ {0}
           /\ Head(q) = n + 1
           /\ Tail(q) \in Seq(Nat)
           /\ Len(Tail(q)) = Len(q) - 1
           /\ \A i \in DOMAIN Tail(q) : Tail(q)[i] = (n + 1) + i
<1>1. Len(q) \in Nat \ {0} /\ DOMAIN q = 1 .. Len(q)
  BY EmptySeq, LenProperties
<1>2. Head(q) = q[1]
  BY <1>1
<1>3. /\ Tail(q) \in Seq(Nat)
      /\ Len(Tail(q)) = Len(q) - 1
      /\ \A i \in 1 .. Len(Tail(q)) : Tail(q)[i] = q[i + 1]
  BY HeadTailProperties
<1>4. DOMAIN Tail(q) = 1 .. (Len(q) - 1)
  BY <1>3, LenProperties
<1>5. ASSUME NEW i \in DOMAIN Tail(q)
      PROVE  Tail(q)[i] = (n + 1) + i
  <2>1. i \in 1 .. (Len(q) - 1)
    BY <1>4
  <2>2. i + 1 \in DOMAIN q
    BY <1>1, <2>1
  <2>3. q[i + 1] = n + (i + 1)
    BY <2>2
  <2> QED
    BY <1>3, <2>1, <2>3
<1> QED
  BY <1>1, <1>2, <1>3, <1>5

\* Appending the next number to a queue keeps it continuing after n.
LEMMA AppendContinues ==
    ASSUME NEW q \in Seq(Nat), NEW n \in Nat, NEW m \in Nat, m = n + Len(q) + 1,
           \A i \in DOMAIN q : q[i] = n + i
    PROVE  /\ Append(q, m) \in Seq(Nat)
           /\ Append(q, m) # << >>
           /\ Len(Append(q, m)) = Len(q) + 1
           /\ Head(Append(q, m)) \in Nat
           /\ q # << >> => Head(Append(q, m)) = Head(q)
           /\ \A i \in DOMAIN Append(q, m) : Append(q, m)[i] = n + i
<1>1. Len(q) \in Nat /\ DOMAIN q = 1 .. Len(q)
  BY LenProperties
<1>2. /\ Append(q, m) \in Seq(Nat)
      /\ Append(q, m) # << >>
      /\ Len(Append(q, m)) = Len(q) + 1
      /\ \A i \in 1 .. Len(q) : Append(q, m)[i] = q[i]
      /\ Append(q, m)[Len(q) + 1] = m
  BY AppendProperties
<1>3. DOMAIN Append(q, m) = 1 .. (Len(q) + 1)
  BY <1>2, LenProperties
<1>4. Head(Append(q, m)) \in Nat
  BY <1>2, HeadTailProperties
<1>5. q # << >> => Head(Append(q, m)) = Head(q)
  <2>1. SUFFICES ASSUME q # << >> PROVE Head(Append(q, m)) = Head(q)
    OBVIOUS
  <2>2. Len(q) \in Nat \ {0}
    BY <2>1, EmptySeq
  <2>3. Head(q) = q[1] /\ Head(Append(q, m)) = Append(q, m)[1]
    BY <1>2, <2>2
  <2> QED
    BY <1>2, <2>2, <2>3
<1>6. ASSUME NEW i \in DOMAIN Append(q, m)
      PROVE  Append(q, m)[i] = n + i
  <2>1. i \in 1 .. (Len(q) + 1)
    BY <1>3
  <2>2. CASE i \in 1 .. Len(q)
    BY <1>1, <1>2, <2>2
  <2>3. CASE i = Len(q) + 1
    BY <1>1, <1>2, <2>3
  <2> QED
    BY <1>1, <2>1, <2>2, <2>3
<1> QED
  BY <1>2, <1>4, <1>5, <1>6

-----------------------------------------------------------------------------

LEMMA InitEstablishes == Init => IInv
<1> SUFFICES ASSUME Init PROVE IInv
  OBVIOUS
<1> USE DEF Init, Constructed
<1>1. << >> \in Seq(Nat) /\ Len(<< >>) = 0 /\ DOMAIN << >> = {}
  BY EmptySeq
<1>2. TypeOK
  BY <1>1 DEF TypeOK, States, Callbacks
<1>3. Safety
  BY <1>1 DEF Safety, OperationsSound, WrittenInOrder, NothingStranded, EndWillBeReported
<1>4. OpsInv
  BY DEF OpsInv, Untouched
<1>5. QueueInv
  BY <1>1 DEF QueueInv
<1> QED
  BY <1>2, <1>3, <1>4, <1>5 DEF IInv

\* The callbacks are counted by natural numbers.
LEMMA SeenTyped ==
    ASSUME seen \in [Callbacks -> Nat], NEW cs, Invoked(cs)
    PROVE  seen' \in [Callbacks -> Nat]
  BY DEF Invoked

\* A stage of the attempt that fails leaves a disconnected, empty client.
LEMMA AttemptFails ==
    ASSUME IInv, NEW op \in StageOps, state = "Connecting", ops = {op}, ~stopped,
           Fail(op, writing),
           UNCHANGED <<stopped, writing, buffer, attempted, accepted, written>>
    PROVE  IInv'
<1> USE DEF IInv, Fail, QueueAfterFail, CloseSocket, Finished
<1>1. ops' = {} /\ writeQueue' = << >> /\ << >> \in Seq(Nat)
  BY EmptySeq DEF OpsInv, Untouched
<1>2. TypeOK'
  BY <1>1, SeenTyped DEF TypeOK, States
<1>3. Safety'
  BY <1>1 DEF Safety, OperationsSound, WrittenInOrder, NothingStranded, EndWillBeReported, OpsInv, Untouched
<1>4. OpsInv'
  BY <1>1 DEF OpsInv, Untouched
<1>5. QueueInv'
  BY <1>1 DEF QueueInv
<1> QED
  BY <1>2, <1>3, <1>4, <1>5

\* One step preserves the invariant; the owner's calls first, then the
\* completion handlers, each alternative of a handler as a case of its own.
LEMMA StepPreserves == IInv /\ [Next]_vars => IInv'
<1> SUFFICES ASSUME IInv, [Next]_vars PROVE IInv'
  OBVIOUS
<1> USE DEF IInv, States
<1>1. CASE Connect
  <2> USE <1>1 DEF Connect
  <2>1. TypeOK'
    BY DEF TypeOK, Operations
  <2>2. Safety'
    BY DEF Safety, OperationsSound, WrittenInOrder, NothingStranded, EndWillBeReported, OpsInv
  <2>3. OpsInv'
    BY DEF OpsInv, Untouched, StageOps
  <2>4. QueueInv'
    BY DEF QueueInv
  <2> QED
    BY <2>1, <2>2, <2>3, <2>4
<1>2. CASE Send
  <2> USE <1>2 DEF Send
  <2>1. /\ writeQueue \in Seq(Nat) /\ Len(written) \in Nat /\ accepted + 1 \in Nat
        /\ accepted + 1 = Len(written) + Len(writeQueue) + 1
        /\ \A i \in DOMAIN writeQueue : writeQueue[i] = Len(written) + i
    BY LenProperties DEF TypeOK, QueueInv
  <2>2. /\ writeQueue' \in Seq(Nat)
        /\ writeQueue' # << >>
        /\ Len(writeQueue') = Len(writeQueue) + 1
        /\ Head(writeQueue') \in Nat
        /\ writeQueue # << >> => Head(writeQueue') = Head(writeQueue)
        /\ \A i \in DOMAIN writeQueue' : writeQueue'[i] = Len(written) + i
    BY <2>1, AppendContinues
  <2>3. TypeOK'
    BY <2>1, <2>2 DEF TypeOK, DoWrite, Operations
  <2>4. Safety'
    BY <2>2 DEF Safety, OperationsSound, WrittenInOrder, NothingStranded, EndWillBeReported,
                OpsInv, DoWrite, TypeOK
  <2>5. OpsInv'
    BY DEF OpsInv, Untouched, StageOps, DoWrite, TypeOK
  <2>6. QueueInv'
    BY <2>1, <2>2 DEF QueueInv, TypeOK
  <2> QED
    BY <2>3, <2>4, <2>5, <2>6
<1>3. CASE Close
  <2> USE <1>3 DEF Close
  <2>1. TypeOK'
    BY DEF TypeOK, Operations
  <2>2. Safety'
    BY DEF Safety, OperationsSound, WrittenInOrder, NothingStranded, EndWillBeReported, OpsInv, TypeOK
  <2>3. OpsInv'
    BY DEF OpsInv, Untouched, StageOps, Safety, OperationsSound, TypeOK
  <2>4. QueueInv'
    BY DEF QueueInv
  <2> QED
    BY <2>1, <2>2, <2>3, <2>4
<1>4. CASE Stop
  <2> USE <1>4 DEF Stop, CloseSocket
  <2>1. TypeOK'
    BY DEF TypeOK
  <2>2. Safety'
    BY DEF Safety, OperationsSound, WrittenInOrder, NothingStranded, EndWillBeReported
  <2>3. OpsInv'
    BY DEF OpsInv, Untouched, StageOps
  <2>4. QueueInv'
    BY DEF QueueInv
  <2> QED
    BY <2>1, <2>2, <2>3, <2>4
<1>5. CASE OnConnecting
  <2>1. PICK stage \in Stages : OnStage(stage[1], stage[2])
    BY <1>5 DEF OnConnecting
  <2>2. PICK this \in StageOps, next \in StageOps : OnStage(this, next)
    <3>1. stage[1] \in StageOps /\ stage[2] \in StageOps
      BY DEF Stages, StageOps
    <3> QED
      BY <2>1, <3>1
  <2>3. state = "Connecting" /\ ops = {this}
    BY <2>2 DEF OnStage, OpsInv, StageOps
  <2>4. CASE stopped /\ ops' = {} /\ UNCHANGED <<state, closeRequested, writeQueue, broken, seen,
                           stopped, writing, buffer, attempted, accepted, written>>
    BY <2>3, <2>4 DEF TypeOK, Safety, OperationsSound, WrittenInOrder, NothingStranded,
                EndWillBeReported, OpsInv, QueueInv, Untouched
  <2>5. CASE ops' = {next} /\ UNCHANGED <<state, closeRequested, writeQueue, broken, seen,
                           stopped, writing, buffer, attempted, accepted, written>>
    BY <2>3, <2>5 DEF TypeOK, Safety, OperationsSound, WrittenInOrder, NothingStranded,
                EndWillBeReported, OpsInv, QueueInv, Untouched, StageOps, Operations
  <2>6. CASE ~stopped /\ Fail(this, writing) /\ UNCHANGED <<stopped, writing, buffer, attempted, accepted, written>>
    BY <2>3, <2>6, AttemptFails
  <2> QED
    BY <2>2, <2>3, <2>4, <2>5, <2>6 DEF OnStage, Finished, Replaced
<1>6. CASE OnHandshake
  <2>1. state = "Connecting" /\ ops = {"handshake"}
    BY <1>6 DEF OnHandshake, OpsInv, StageOps
  <2>2. CASE stopped /\ ops' = {} /\ UNCHANGED <<state, closeRequested, writeQueue, broken, seen,
                           stopped, writing, buffer, attempted, accepted, written>>
    BY <2>1, <2>2 DEF TypeOK, Safety, OperationsSound, WrittenInOrder, NothingStranded,
                EndWillBeReported, OpsInv, QueueInv, Untouched
  <2>3. CASE /\ ~stopped
             /\ state' = "Connected"
             /\ Invoked({"open"})
             /\ ops' = {"read"}
             /\ UNCHANGED <<closeRequested, writeQueue, broken, stopped, writing, buffer,
                            attempted, accepted, written>>
    <3> USE <2>1, <2>3
    <3>1. TypeOK'
      BY DEF TypeOK, Callbacks, Invoked, Operations
    <3>2. Safety'
      BY DEF Safety, OperationsSound, WrittenInOrder, NothingStranded, EndWillBeReported, OpsInv, Untouched
    <3>3. OpsInv'
      BY DEF OpsInv, Untouched
    <3>4. QueueInv'
      <4>1. writeQueue' = << >> /\ written' = << >> /\ accepted' = 0
        BY DEF OpsInv, Untouched
      <4>2. Len(<< >>) = 0 /\ DOMAIN << >> = {}
        BY EmptySeq
      <4> QED
        BY <4>1, <4>2 DEF QueueInv
    <3> QED
      BY <3>1, <3>2, <3>3, <3>4
  <2>4. CASE ~stopped /\ Fail("handshake", writing) /\ UNCHANGED <<stopped, writing, buffer, attempted, accepted, written>>
    BY <2>1, <2>4, AttemptFails DEF StageOps
  <2> QED
    BY <1>6, <2>1, <2>2, <2>3, <2>4 DEF OnHandshake, Finished, Replaced
<1>7. CASE OnRead
  <2> USE <1>7
  <2>1. "read" \in ops /\ state # "Connecting" /\ attempted
    BY DEF OnRead, OpsInv, StageOps
  <2>2. CASE stopped \/ state \in QuietStates
    <3>0. seen' \in [Callbacks -> Nat]
      BY SeenTyped DEF OnRead, Fail, TypeOK
    <3>1. ops' = ops \ {"read"} \/ ops' = ops
      BY <2>1, <2>2 DEF OnRead, Finished, ReadAgain, Replaced
    <3>2. broken' = TRUE \/ UNCHANGED broken
      BY <2>2 DEF OnRead
    <3>3. UNCHANGED <<state, closeRequested, writeQueue>>
      BY <2>2 DEF OnRead
    <3>4. UNCHANGED <<stopped, writing, buffer, attempted, accepted, written>>
      BY DEF OnRead
    <3> USE <2>1, <2>2, <3>0, <3>1, <3>2, <3>3, <3>4 DEF QuietStates
    <3>5. TypeOK'
      BY DEF TypeOK
    <3>6. Safety'
      BY DEF Safety, OperationsSound, WrittenInOrder, NothingStranded, EndWillBeReported
    <3>7. OpsInv'
      BY DEF OpsInv, Untouched, TypeOK
    <3>8. QueueInv'
      BY DEF QueueInv
    <3> QED
      BY <3>5, <3>6, <3>7, <3>8
  <2>3. CASE ~stopped /\ state \notin QuietStates
    <3>1. state = "Connected" /\ ~closeRequested
      BY <2>1, <2>3 DEF QuietStates, TypeOK, OpsInv
    <3>2. CASE \* the peer closed, or the read failed
               /\ state' = "Disconnected"
               /\ broken' = TRUE
               /\ ops' = ops \ {"read"}
               /\ closeRequested' = FALSE
               /\ writeQueue' = writeQueue \/ (~writing /\ writeQueue' = << >>)
               /\ seen' \in [Callbacks -> Nat]
               /\ UNCHANGED <<stopped, writing, buffer, attempted, accepted, written>>
      <4> USE <2>1, <2>3, <3>1, <3>2
      <4>1. << >> \in Seq(Nat) /\ DOMAIN << >> = {}
        BY EmptySeq
      <4>2. TypeOK'
        BY <4>1 DEF TypeOK
      <4>3. Safety'
        BY DEF Safety, OperationsSound, WrittenInOrder, NothingStranded, EndWillBeReported, TypeOK
      <4>4. OpsInv'
        BY DEF OpsInv, Untouched, TypeOK
      <4>5. QueueInv'
        BY <4>1 DEF QueueInv
      <4> QED
        BY <4>2, <4>3, <4>4, <4>5
    <3>3. CASE \* a message, and the next read
               /\ ops' = ops
               /\ seen' \in [Callbacks -> Nat]
               /\ UNCHANGED <<state, closeRequested, writeQueue, broken, stopped, writing,
                              buffer, attempted, accepted, written>>
      BY <3>3 DEF TypeOK, Safety, OperationsSound, WrittenInOrder, NothingStranded,
                  EndWillBeReported, OpsInv, QueueInv, Untouched
    <3>4. seen' \in [Callbacks -> Nat]
      BY SeenTyped DEF OnRead, Fail, TypeOK
    <3> QED
      BY <2>1, <2>3, <3>1, <3>2, <3>3, <3>4
         DEF OnRead, Fail, QueueAfterFail, CloseSocket, Finished, ReadAgain, Replaced, TypeOK
  <2> QED
    BY <2>2, <2>3
<1>8. CASE OnWriteDone
  <2> USE <1>8 DEF OnWriteDone, Popped
  <2>1. /\ writing /\ "close" \notin ops /\ state # "Connecting" /\ attempted
        /\ writeQueue # << >> /\ writeQueue \in Seq(Nat) /\ Len(written) \in Nat
        /\ buffer = Head(writeQueue)
        /\ \A i \in DOMAIN writeQueue : writeQueue[i] = Len(written) + i
    BY LenProperties DEF Safety, OperationsSound, OpsInv, StageOps, QueueInv, TypeOK
  <2>2. /\ Len(writeQueue) \in Nat \ {0}
        /\ buffer = Len(written) + 1
        /\ writeQueue' \in Seq(Nat)
        /\ Len(writeQueue') = Len(writeQueue) - 1
        /\ \A i \in DOMAIN writeQueue' : writeQueue'[i] = (Len(written) + 1) + i
    BY <2>1, PopContinues
  <2>3. /\ written' \in Seq(Nat)
        /\ Len(written') = Len(written) + 1
        /\ \A i \in DOMAIN written' : written'[i] = i
    <3>1. /\ written \in Seq(Nat) /\ buffer \in Nat /\ buffer = 0 + Len(written) + 1
          /\ \A i \in DOMAIN written : written[i] = 0 + i
      BY <2>1, <2>2, LenProperties DEF TypeOK, Safety, WrittenInOrder
    <3>2. /\ Append(written, buffer) \in Seq(Nat)
          /\ Len(Append(written, buffer)) = Len(written) + 1
          /\ \A i \in DOMAIN Append(written, buffer) : Append(written, buffer)[i] = 0 + i
      BY <3>1, AppendContinues
    <3>3. DOMAIN written' = 1 .. (Len(written) + 1)
      BY <2>1, <3>2, LenProperties
    <3> QED
      BY <2>1, <3>2, <3>3
  <2>4. QueueInv'
    <3>1. \A i \in DOMAIN writeQueue' : writeQueue'[i] = Len(written') + i
      BY <2>2, <2>3
    <3>2. ASSUME state' = "Connected"
          PROVE  accepted' = Len(written') + Len(writeQueue')
      <4>1. accepted = Len(written) + Len(writeQueue)
        BY <3>2 DEF QueueInv
      <4> QED
        BY <2>1, <2>2, <2>3, <4>1
    <3> QED
      BY <3>1, <3>2 DEF QueueInv
  <2>8. /\ state' \in States /\ stopped' \in BOOLEAN /\ closeRequested' \in BOOLEAN
        /\ broken' \in BOOLEAN /\ attempted' \in BOOLEAN
        /\ writeQueue' \in Seq(Nat) /\ written' \in Seq(Nat)
        /\ accepted' \in Nat /\ seen' \in [Callbacks -> Nat]
    BY <2>2, <2>3 DEF TypeOK
  <2>5. CASE closeRequested
    <3> USE <2>1, <2>5 DEF Replaced
    <3>1. TypeOK'
      <4>1. writing' \in BOOLEAN /\ buffer' \in Nat
        BY DEF TypeOK
      <4>2. ops' \subseteq Operations
        BY DEF TypeOK, Operations
      <4> QED
        BY <2>8, <4>1, <4>2 DEF TypeOK
    <3>2. state = "Closing"
      BY DEF OpsInv
    <3>3. Safety'
      BY <2>3, <3>2 DEF Safety, OperationsSound, WrittenInOrder, NothingStranded, EndWillBeReported
    <3>4. OpsInv'
      BY <3>2 DEF OpsInv, Untouched
    <3> QED
      BY <2>4, <3>1, <3>3, <3>4
  <2>6. CASE ~closeRequested /\ MoreToWrite
    <3> USE <2>1, <2>6 DEF MoreToWrite, DoWrite
    <3>0. Head(Tail(writeQueue)) \in Nat
      BY <2>2, HeadTailProperties
    <3>1. TypeOK'
      <4>1. writing' \in BOOLEAN /\ buffer' \in Nat
        BY <3>0 DEF TypeOK
      <4>2. ops' \subseteq Operations
        BY DEF TypeOK, Operations
      <4> QED
        BY <2>8, <4>1, <4>2 DEF TypeOK
    <3>2. Safety'
      BY <2>3 DEF Safety, OperationsSound, WrittenInOrder, NothingStranded, EndWillBeReported
    <3>3. OpsInv'
      BY DEF OpsInv, Untouched
    <3> QED
      BY <2>4, <3>1, <3>2, <3>3
  <2>7. CASE ~closeRequested /\ ~MoreToWrite
    <3> USE <2>1, <2>7 DEF MoreToWrite, Finished
    <3>1. TypeOK'
      <4>1. writing' \in BOOLEAN /\ buffer' \in Nat
        BY DEF TypeOK
      <4>2. ops' \subseteq Operations
        BY DEF TypeOK, Operations
      <4> QED
        BY <2>8, <4>1, <4>2 DEF TypeOK
    <3>2. Safety'
      BY <2>3 DEF Safety, OperationsSound, WrittenInOrder, NothingStranded, EndWillBeReported, OpsInv
    <3>3. OpsInv'
      BY DEF OpsInv, Untouched
    <3> QED
      BY <2>4, <3>1, <3>2, <3>3
  <2> QED
    BY <2>5, <2>6, <2>7 DEF TypeOK
<1>9. CASE OnWriteFailed
  <2> USE <1>9
  <2>1. /\ writing /\ "close" \notin ops /\ state # "Connecting" /\ attempted
        /\ state \notin {"Disconnected", "Closing"} => state = "Connected"
    BY DEF OnWriteFailed, Safety, OperationsSound, OpsInv, StageOps, TypeOK
  <2>2. /\ ~stopped
        /\ ops' = ops \ {"write"}
        /\ UNCHANGED <<stopped, buffer, attempted, accepted, written>>
    BY DEF OnWriteFailed, Fail, Finished
  <2>10. state' = "Disconnected" \/ (~closeRequested /\ state = "Closing" /\ state' = "Closing")
    BY DEF OnWriteFailed, Fail
  <2>3. writeQueue' \in {writeQueue, << >>} /\ seen' \in [Callbacks -> Nat]
    BY SeenTyped DEF OnWriteFailed, Fail, QueueAfterFail, TypeOK
  <2>4. writing' = FALSE /\ broken' = TRUE /\ closeRequested' = FALSE
    BY DEF OnWriteFailed, Fail, CloseSocket, TypeOK
  <2> USE <2>1, <2>2, <2>10, <2>3, <2>4
  <2>5. << >> \in Seq(Nat) /\ DOMAIN << >> = {}
    BY EmptySeq
  <2>6. TypeOK'
    BY <2>5 DEF TypeOK
  <2>7. Safety'
    BY DEF Safety, OperationsSound, WrittenInOrder, NothingStranded, EndWillBeReported
  <2>8. OpsInv'
    BY DEF OpsInv, Untouched
  <2>9. QueueInv'
    BY <2>5 DEF QueueInv
  <2> QED
    BY <2>6, <2>7, <2>8, <2>9
<1>10. CASE OnWriteStopped
  <2> USE <1>10 DEF OnWriteStopped, Finished
  <2>1. TypeOK'
    BY DEF TypeOK
  <2>2. Safety'
    BY DEF Safety, OperationsSound, WrittenInOrder, NothingStranded, EndWillBeReported
  <2>3. OpsInv'
    BY DEF OpsInv, Untouched, StageOps, Safety, OperationsSound
  <2>4. QueueInv'
    BY DEF QueueInv
  <2> QED
    BY <2>1, <2>2, <2>3, <2>4
<1>11. CASE OnClose
  <2> USE <1>11
  <2>1. "close" \in ops /\ state = "Closing" /\ attempted /\ ~writing
    BY DEF OnClose, OpsInv, Safety, OperationsSound
  <2>2. /\ state' = "Disconnected"
        /\ broken' = TRUE
        /\ ops' = ops \ {"close"}
        /\ seen' \in [Callbacks -> Nat]
        /\ UNCHANGED <<stopped, writing, closeRequested, writeQueue, buffer, attempted, accepted, written>>
    BY SeenTyped DEF OnClose, Finished, TypeOK
  <2> USE <2>1, <2>2
  <2>3. TypeOK'
    BY DEF TypeOK
  <2>4. Safety'
    BY DEF Safety, OperationsSound, WrittenInOrder, NothingStranded, EndWillBeReported
  <2>5. OpsInv'
    BY DEF OpsInv, Untouched
  <2>6. QueueInv'
    BY DEF QueueInv
  <2> QED
    BY <2>3, <2>4, <2>5, <2>6
<1>12. CASE UNCHANGED vars
  BY <1>12 DEF vars, TypeOK, Safety, OperationsSound, WrittenInOrder, NothingStranded,
               EndWillBeReported, OpsInv, QueueInv, Untouched
<1> QED
  BY <1>1, <1>2, <1>3, <1>4, <1>5, <1>6, <1>7, <1>8, <1>9, <1>10, <1>11, <1>12
     DEF Next, Owner, Completion, OnWrite

LEMMA Invariance == Spec => []IInv
<1>1. Init => IInv
  BY InitEstablishes
<1>2. IInv /\ [Next]_vars => IInv'
  BY StepPreserves
<1> QED
  BY <1>1, <1>2, PTL DEF Spec

\* Every variable keeps its type (network/AP_WebSocketClient.h:109-133).
THEOREM TypeCorrect == Spec => []TypeOK
<1>1. IInv => TypeOK
  BY DEF IInv
<1> QED
  BY <1>1, Invariance, PTL

\* The safety of the strand: sound outstanding operations, ordered writes,
\* no stranded message, no connection whose end nobody would report.
THEOREM SafetyHolds == Spec => []Safety
<1>1. IInv => Safety
  BY DEF IInv
<1> QED
  BY <1>1, Invariance, PTL

\* Beast's rule that async_close never overlaps an async_write, and that the
\* buffer of a write outlives it (the comments in Close and Fail).
THEOREM OperationsAlwaysSound == Spec => []OperationsSound
<1>1. IInv => OperationsSound
  BY DEF IInv, Safety
<1> QED
  BY <1>1, Invariance, PTL

\* What is written is a prefix of what was accepted (Send and OnWrite).
THEOREM AlwaysWrittenInOrder == Spec => []WrittenInOrder
<1>1. IInv => WrittenInOrder
  BY DEF IInv, Safety
<1> QED
  BY <1>1, Invariance, PTL

\* Whoever queues a message while the connection is up sees to its write
\* (Send starts one, or OnWrite will).
THEOREM NothingEverStranded == Spec => []NothingStranded
<1>1. IInv => NothingStranded
  BY DEF IInv, Safety
<1> QED
  BY <1>1, Invariance, PTL

\* Whatever handler returns early, an operation is left whose completion
\* reports the end (OnResolve to OnClose, Close).
THEOREM EndWillAlwaysBeReported == Spec => []EndWillBeReported
<1>1. IInv => EndWillBeReported
  BY DEF IInv, Safety
<1> QED
  BY <1>1, Invariance, PTL

-----------------------------------------------------------------------------
(* WebSocketClient implements Transport. *)

\* The counters after a handler, in the form Transport states them.
LEMMA InvokedOne ==
    ASSUME seen \in [Callbacks -> Nat]
    PROVE  /\ Invoked({"open"}) => seen' = [seen EXCEPT !["open"] = @ + 1]
           /\ Invoked({"message"}) => seen' = [seen EXCEPT !["message"] = @ + 1]
           /\ Invoked({"close"}) => seen' = [seen EXCEPT !["error"] = @ + 0, !["close"] = @ + 1]
           /\ Invoked({"error", "close"}) => seen' = [seen EXCEPT !["error"] = @ + 1, !["close"] = @ + 1]
  BY DEF Invoked, Callbacks

\* A handler that ends the attempt or the connection is Transport's Over.
LEMMA EndsAsOver ==
    ASSUME TypeOK, ~stopped, ~stopped', state # "Disconnected", state' = "Disconnected",
           attempted', Invoked({"close"}) \/ Invoked({"error", "close"})
    PROVE  \E errors \in {0, 1} : T!Over(errors)
<1>1. Phase \in {"attempting", "open"} /\ Phase' = "over"
  BY DEF Phase, TypeOK, States
<1>2. CASE Invoked({"close"})
  <2>1. T!Over(0)
    BY <1>1, <1>2, InvokedOne DEF T!Over, TypeOK
  <2> QED
    BY <2>1
<1>3. CASE Invoked({"error", "close"})
  <2>1. T!Over(1)
    BY <1>1, <1>3, InvokedOne DEF T!Over, TypeOK
  <2> QED
    BY <2>1
<1> QED
  BY <1>2, <1>3

LEMMA InitImplements == Init => T!Init
  BY DEF Init, Constructed, T!Init, T!Nothing, T!Callbacks, Callbacks, Phase

LEMMA StepImplements == IInv /\ [Next]_vars => [T!Next]_(T!vars)
<1> SUFFICES ASSUME IInv, [Next]_vars PROVE T!Next \/ UNCHANGED T!vars
  OBVIOUS
<1> USE DEF IInv, T!vars
<1>1. CASE Connect
  <2>1. T!Attempt
    BY <1>1 DEF Connect, T!Attempt, Phase
  <2> QED
    BY <2>1 DEF T!Next
<1>2. CASE Send
  BY <1>2 DEF Send, Phase
<1>3. CASE Close
  BY <1>3 DEF Close, Phase
<1>4. CASE Stop
  <2>1. T!Silence
    BY <1>4 DEF Stop, T!Silence, Phase, TypeOK, States
  <2> QED
    BY <2>1 DEF T!Next
<1>5. CASE OnConnecting
  <2>1. PICK stage \in Stages : OnStage(stage[1], stage[2])
    BY <1>5 DEF OnConnecting
  <2>2. state = "Connecting" /\ attempted
    <3>1. stage[1] \in StageOps
      BY DEF Stages, StageOps
    <3> QED
      BY <2>1, <3>1 DEF OnStage, OpsInv, StageOps
  <2>3. CASE ~stopped /\ Fail(stage[1], writing)
    <3>1. ~stopped' /\ attempted' /\ state' = "Disconnected" /\ Invoked({"error", "close"})
      BY <2>1, <2>2, <2>3 DEF OnStage, Fail
    <3> QED
      BY <2>2, <2>3, <3>1, EndsAsOver DEF T!Next
  <2>4. CASE UNCHANGED <<state, seen>>
    BY <2>1, <2>4 DEF OnStage, Phase
  <2> QED
    BY <2>1, <2>3, <2>4 DEF OnStage
<1>6. CASE OnHandshake
  <2>1. state = "Connecting" /\ attempted
    BY <1>6 DEF OnHandshake, OpsInv, StageOps
  <2>2. CASE ~stopped /\ Fail("handshake", writing)
    <3>1. ~stopped' /\ attempted' /\ state' = "Disconnected" /\ Invoked({"error", "close"})
      BY <1>6, <2>1, <2>2 DEF OnHandshake, Fail
    <3> QED
      BY <2>1, <2>2, <3>1, EndsAsOver DEF T!Next
  <2>3. CASE ~stopped /\ state' = "Connected" /\ Invoked({"open"})
    <3>1. T!Open
      BY <1>6, <2>1, <2>3, InvokedOne DEF OnHandshake, T!Open, Phase, TypeOK
    <3> QED
      BY <3>1 DEF T!Next
  <2>4. CASE UNCHANGED <<state, seen>>
    BY <1>6, <2>4 DEF OnHandshake, Phase
  <2> QED
    BY <1>6, <2>2, <2>3, <2>4 DEF OnHandshake
<1>7. CASE OnRead
  <2>1. state # "Connecting" /\ attempted /\ UNCHANGED <<stopped, attempted>>
    BY <1>7 DEF OnRead, OpsInv, StageOps
  <2>2. CASE ~stopped /\ state \notin QuietStates /\ state' = "Disconnected"
             /\ (Invoked({"close"}) \/ Invoked({"error", "close"}))
    BY <2>1, <2>2, EndsAsOver DEF T!Next, QuietStates
  <2>3. CASE ~stopped /\ "ok" \in Outcomes /\ Invoked({"message"}) /\ UNCHANGED state
    <3>1. Phase = "open" /\ Phase' = "open"
      BY <2>1, <2>3 DEF Phase, Outcomes, OpsInv, TypeOK, States
    <3>2. T!Message
      BY <2>3, <3>1, InvokedOne DEF T!Message, TypeOK
    <3> QED
      BY <3>2 DEF T!Next
  <2>4. CASE UNCHANGED <<state, seen>>
    BY <2>1, <2>4 DEF Phase
  <2> QED
    BY <1>7, <2>2, <2>3, <2>4 DEF OnRead, Fail
<1>8. CASE OnWriteDone
  BY <1>8 DEF OnWriteDone, Phase
<1>9. CASE OnWriteFailed
  <2>1. attempted /\ ~stopped /\ UNCHANGED <<stopped, attempted>>
    BY <1>9 DEF OnWriteFailed, OpsInv
  <2>2. CASE state # "Disconnected" /\ state' = "Disconnected"
             /\ (Invoked({"close"}) \/ Invoked({"error", "close"}))
    BY <2>1, <2>2, EndsAsOver DEF T!Next
  <2>3. CASE UNCHANGED <<state, seen>>
    BY <2>1, <2>3 DEF Phase
  <2>4. closeRequested => state # "Disconnected"
    BY <2>1 DEF OpsInv
  <2> QED
    BY <1>9, <2>2, <2>3, <2>4 DEF OnWriteFailed, Fail
<1>10. CASE OnWriteStopped
  BY <1>10 DEF OnWriteStopped, Phase
<1>11. CASE OnClose
  <2>1. state = "Closing" /\ attempted /\ state' = "Disconnected" /\ UNCHANGED <<stopped, attempted>>
    BY <1>11 DEF OnClose, OpsInv
  <2>2. CASE stopped
    BY <1>11, <2>1, <2>2 DEF OnClose, Phase
  <2>3. CASE ~stopped
    BY <1>11, <2>1, <2>3, EndsAsOver DEF OnClose, T!Next
  <2> QED
    BY <2>2, <2>3
<1>12. CASE UNCHANGED vars
  BY <1>12 DEF vars, Phase
<1> QED
  BY <1>1, <1>2, <1>3, <1>4, <1>5, <1>6, <1>7, <1>8, <1>9, <1>10, <1>11, <1>12
     DEF Next, Owner, Completion, OnWrite

\* The callback contract Client::ConnectSocket builds its event queue on:
\* each callback at its place and at most as often as promised, none after
\* Stop.  (That every attempt is answered is liveness, and checked by TLC.)
THEOREM ImplementsTransport == Spec => KeepsContract
<1>1. Init => T!Init
  BY InitImplements
<1>2. IInv /\ [Next]_vars => [T!Next]_(T!vars)
  BY StepImplements
<1> QED
  BY <1>1, <1>2, Invariance, PTL DEF Spec, T!Spec, KeepsContract
==============================================================================
