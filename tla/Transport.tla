------------------------------ MODULE Transport ------------------------------
(***************************************************************************)
(* What a WebSocketClient promises to the code that owns it, as the        *)
(* callbacks that code sees: one attempt, at most one onOpen, messages     *)
(* only while open, one onClose at the end of an attempt or of a           *)
(* connection with at most one onError ahead of it, and nothing at all     *)
(* once the client was stopped.                                            *)
(*                                                                         *)
(* This is the contract Client::ConnectSocket relies on when it turns the  *)
(* callbacks into EventQueue entries; WebSocketClient implements it.       *)
(***************************************************************************)
EXTENDS Naturals

VARIABLES
    phase,  \* "idle", "attempting", "open", "over" or "silent"
    seen    \* how often each callback has been invoked

vars == <<phase, seen>>

Callbacks == {"open", "message", "error", "close"}

Nothing == [c \in Callbacks |-> 0]

Init ==
    /\ phase = "idle"
    /\ seen = Nothing

Attempt ==
    /\ phase = "idle"
    /\ phase' = "attempting"
    /\ UNCHANGED seen

Open ==
    /\ phase = "attempting"
    /\ phase' = "open"
    /\ seen' = [seen EXCEPT !["open"] = @ + 1]

Message ==
    /\ phase = "open"
    /\ seen' = [seen EXCEPT !["message"] = @ + 1]
    /\ UNCHANGED phase

\* An attempt or a connection ends; a graceful end has no error.
Over(errors) ==
    /\ phase \in {"attempting", "open"}
    /\ phase' = "over"
    /\ seen' = [seen EXCEPT !["error"] = @ + errors, !["close"] = @ + 1]

\* The owner's Stop: from here on no callback is invoked.
Silence ==
    /\ phase # "silent"
    /\ phase' = "silent"
    /\ UNCHANGED seen

Next ==
    \/ Attempt
    \/ Open
    \/ Message
    \/ \E errors \in {0, 1} : Over(errors)
    \/ Silence

Spec == Init /\ [][Next]_vars

\* An attempt is never left unanswered.
Answered == (phase = "attempting") ~> (phase # "attempting")
==============================================================================
