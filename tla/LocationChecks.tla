--------------------------- MODULE LocationChecks ---------------------------
(***************************************************************************)
(* How what a character does reaches the multiworld: the hooks of          *)
(* AP_Character that check a location or complete the goal, the queues of  *)
(* Client, the module's location_check rows, and the catching up that a    *)
(* connection starts with.  The core, which keeps what the character has   *)
(* done and saves it in its own time, the connection and the server are    *)
(* external.                                                               *)
(*                                                                         *)
(* A feat is something done that counts: a location, or the goal.  The     *)
(* server takes each feat any number of times and in any order, so that a  *)
(* message stands for the feats it carries.                                *)
(***************************************************************************)
EXTENDS Naturals, FiniteSets

CONSTANTS
    Caught,     \* locations that CatchUpMissedProgress looks for again:
                \* achievements, explorations, flight paths, quests, skills
    Hooked,     \* locations that only a hook checks: levels, bosses,
                \* leaders, spells, the shop
    Goal,       \* the goal achievement
    MaxFaults   \* bound on lost connections, logouts and crashes together

ASSUME FeatsAssumption ==
    /\ Caught \intersect Hooked = {}
    /\ Goal \notin Caught \union Hooked
    /\ MaxFaults \in Nat

Locations == Caught \union Hooked
Feats == Locations \union {Goal}

VARIABLES
    \* external: the core
    done,          \* what the character has done
    doneSaved,     \* as of the core's last save of the character
    \* external: the connection and the server
    socketUp,
    connectedDue,  \* a Connected command waits for Poll
    wire,          \* what is on its way to the server
    reached,       \* what the server has been told
    faults,        \* how many faults there have been
    \* Client
    slotConnected, \* state = SlotConnected
    checkQueue,
    clientStatus,  \* whether it is Goal
    \* AP_Character
    online,        \* the AP_Character exists
    parsed,        \* its locations have been filled from slot data
    checkedLocations,
    goalCompleted,
    missedProgressCaughtUp,
    handler,       \* which part of a handler the game thread has yet to run
    unsaved,       \* the locations sent whose rows are not written yet
    \* the module's database, written synchronously
    table,         \* the character's location_check rows
    goalRow        \* goal_completed of the character's row

core == <<done, doneSaved>>
connection == <<socketUp, connectedDue>>
server == <<reached, faults>>
queues == <<checkQueue, clientStatus>>
database == <<table, goalRow>>

vars == <<done, doneSaved, socketUp, connectedDue, wire, reached, faults, slotConnected,
          checkQueue, clientStatus, online, parsed, checkedLocations, goalCompleted,
          missedProgressCaughtUp, handler, unsaved, table, goalRow>>

\* Rows, queue and memory hold locations only, never the goal, and the rest
\* stays in its type.
TypeOK ==
    /\ done \union doneSaved \union wire \union reached \subseteq Feats
    /\ checkQueue \union checkedLocations \union unsaved \union table \subseteq Locations
    /\ socketUp \in BOOLEAN /\ connectedDue \in BOOLEAN
    /\ slotConnected \in BOOLEAN /\ clientStatus \in BOOLEAN
    /\ online \in BOOLEAN /\ parsed \in BOOLEAN
    /\ goalCompleted \in BOOLEAN /\ missedProgressCaughtUp \in BOOLEAN
    /\ goalRow \in BOOLEAN
    /\ handler \in {"idle", "checks", "goal"}
    /\ faults \in 0 .. MaxFaults

\* A character that has just been bound to its slot, with a life before it.
Init ==
    /\ done \in SUBSET Feats
    /\ doneSaved = done
    /\ socketUp = FALSE
    /\ connectedDue = FALSE
    /\ wire = {}
    /\ reached = {}
    /\ faults = 0
    /\ slotConnected = FALSE
    /\ checkQueue = {}
    /\ clientStatus = FALSE
    /\ online = TRUE
    /\ parsed = FALSE
    /\ checkedLocations = {}
    /\ goalCompleted = FALSE
    /\ missedProgressCaughtUp = FALSE
    /\ handler = "idle"
    /\ unsaved = {}
    /\ table = {}
    /\ goalRow = FALSE

-----------------------------------------------------------------------------
(* Client. *)

\* Send drops what it is given once the socket is gone, which the client's
\* state only learns from the Close that Poll processes.
Sent(feats) == IF socketUp THEN wire \union feats ELSE wire

\* LocationChecks sends, or queues what the next connection sends.
LocationChecks(locations) ==
    IF slotConnected
      THEN wire' = Sent(locations) /\ UNCHANGED checkQueue
      ELSE checkQueue' = checkQueue \union locations /\ UNCHANGED wire

\* StatusUpdate(Goal) sends, or remembers it for the next connection.
StatusUpdate ==
    IF slotConnected
      THEN wire' = Sent({Goal}) /\ UNCHANGED clientStatus
      ELSE clientStatus' = TRUE /\ UNCHANGED wire

-----------------------------------------------------------------------------
(* The game thread. *)

Idle == online /\ handler = "idle" /\ unsaved = {}

\* The core credits a location that has not been checked, or that a hook
\* checks again: CheckLocation sends it and then writes its row.  Nothing is
\* a location before the slot data says so.
Hook(f) ==
    IF parsed /\ f \notin Hooked \intersect checkedLocations
      THEN /\ checkedLocations' = checkedLocations \union {f}
           /\ LocationChecks({f})
           /\ unsaved' = {f}
      ELSE UNCHANGED <<checkedLocations, wire, checkQueue, unsaved>>

Credit(f) ==
    /\ Idle
    /\ f \in Hooked \/ f \notin done
    /\ done' = done \union {f}
    /\ Hook(f)
    /\ UNCHANGED <<doneSaved, connection, server, slotConnected, clientStatus, online, parsed,
                   goalCompleted, missedProgressCaughtUp, handler, database>>

\* CompleteGoal: in memory, in the character's row, and to the server.
CompleteGoal ==
    /\ goalCompleted' = TRUE
    /\ goalRow' = TRUE
    /\ StatusUpdate

CreditGoal ==
    /\ Idle
    /\ Goal \notin done
    /\ done' = done \union {Goal}
    /\ IF parsed THEN CompleteGoal ELSE UNCHANGED <<goalCompleted, goalRow, wire, clientStatus>>
    /\ UNCHANGED <<doneSaved, connection, server, slotConnected, checkQueue, online, parsed,
                   checkedLocations, missedProgressCaughtUp, handler, unsaved, table>>

RowsWritten ==
    /\ unsaved # {}
    /\ table' = table \union unsaved
    /\ unsaved' = {}
    /\ UNCHANGED <<core, connection, wire, server, slotConnected, queues, online, parsed,
                   checkedLocations, goalCompleted, missedProgressCaughtUp, handler, goalRow>>

\* What SyncLocationChecks finds in the database.
\* Definitions named for a slip are mistaken variants of the one they
\* precede; nothing uses them but the runs that show a property can fail.
RecordedUnread == {}
Recorded == table

\* The client flushes its queues; the status stays for the next time.
Flushed == checkQueue \union IF clientStatus THEN {Goal} ELSE {}

\* The Connected command: after the flush the character's handler
\* saves, repeats every check on record and, with the goal completed, the
\* status.
SlotConnected ==
    /\ Idle
    /\ connectedDue
    /\ connectedDue' = FALSE
    /\ slotConnected' = TRUE
    /\ wire' = Sent(Flushed \union Recorded \union IF goalCompleted THEN {Goal} ELSE {})
    /\ checkQueue' = {}
    /\ parsed' = TRUE
    /\ goalRow' = goalCompleted
    /\ checkedLocations' = checkedLocations \union Recorded
    /\ handler' = IF missedProgressCaughtUp THEN "idle" ELSE "checks"
    /\ UNCHANGED <<core, socketUp, server, clientStatus, online, goalCompleted,
                   missedProgressCaughtUp, unsaved, table>>

\* CatchUpMissedProgress, once per login: what was done without slot data.
MissedSkipped == {}
MissedAny == done \ checkedLocations
Missed == (done \intersect Caught) \ checkedLocations

CatchUpChecks ==
    /\ handler = "checks"
    /\ LocationChecks(Missed)
    /\ checkedLocations' = checkedLocations \union Missed
    /\ unsaved' = Missed
    /\ handler' = "goal"
    /\ UNCHANGED <<core, connection, server, slotConnected, clientStatus, online, parsed,
                   goalCompleted, missedProgressCaughtUp, database>>

CatchUpGoal ==
    /\ handler = "goal" /\ unsaved = {}
    /\ IF ~goalCompleted /\ Goal \in done
         THEN CompleteGoal
         ELSE UNCHANGED <<goalCompleted, goalRow, wire, clientStatus>>
    /\ missedProgressCaughtUp' = TRUE
    /\ handler' = "idle"
    /\ UNCHANGED <<core, connection, server, slotConnected, checkQueue, online, parsed,
                   checkedLocations, unsaved, table>>

\* The Close of the socket reaches Poll.
PollClose ==
    /\ Idle
    /\ slotConnected /\ ~socketUp /\ ~connectedDue
    /\ slotConnected' = FALSE
    /\ UNCHANGED <<core, connection, wire, server, queues, online, parsed, checkedLocations,
                   goalCompleted, missedProgressCaughtUp, handler, unsaved, database>>

\* Update saves every 15 seconds.
PeriodicSave ==
    /\ Idle
    /\ goalRow' = goalCompleted
    /\ UNCHANGED <<core, connection, wire, server, slotConnected, queues, online, parsed,
                   checkedLocations, goalCompleted, missedProgressCaughtUp, handler, unsaved, table>>

-----------------------------------------------------------------------------
(* The connection, the server and the core. *)

Link ==
    /\ online
    /\ ~socketUp /\ ~slotConnected /\ ~connectedDue
    /\ socketUp' = TRUE
    /\ connectedDue' = TRUE
    /\ UNCHANGED <<core, wire, server, slotConnected, queues, online, parsed, checkedLocations,
                   goalCompleted, missedProgressCaughtUp, handler, unsaved, database>>

ServerReceives(f) ==
    /\ f \in wire
    /\ wire' = wire \ {f}
    /\ reached' = reached \union {f}
    /\ UNCHANGED <<core, connection, faults, slotConnected, queues, online, parsed, checkedLocations,
                   goalCompleted, missedProgressCaughtUp, handler, unsaved, database>>

CoreSaves ==
    /\ online
    /\ doneSaved' = done
    /\ UNCHANGED <<done, connection, wire, server, slotConnected, queues, online, parsed,
                   checkedLocations, goalCompleted, missedProgressCaughtUp, handler, unsaved, database>>

-----------------------------------------------------------------------------
(* Faults. *)

Fault == faults < MaxFaults /\ faults' = faults + 1

\* The connection is lost, with any of what is on its way either way.
LinkLost ==
    /\ socketUp
    /\ Fault
    /\ socketUp' = FALSE
    /\ wire' \in SUBSET wire
    /\ connectedDue' \in {connectedDue, FALSE}
    /\ UNCHANGED <<core, reached, slotConnected, queues, online, parsed, checkedLocations,
                   goalCompleted, missedProgressCaughtUp, handler, unsaved, database>>

\* What is gone with the AP_Character and its client.
Freed ==
    /\ online' = FALSE
    /\ socketUp' = FALSE
    /\ connectedDue' = FALSE
    /\ wire' \in SUBSET wire
    /\ slotConnected' = FALSE
    /\ checkQueue' = {}
    /\ clientStatus' = FALSE
    /\ parsed' = FALSE
    /\ checkedLocations' = {}
    /\ goalCompleted' = FALSE
    /\ missedProgressCaughtUp' = FALSE
    /\ handler' = "idle"
    /\ unsaved' = {}

Logout ==
    /\ Idle
    /\ Fault
    /\ Freed
    /\ goalRow' = goalCompleted
    /\ doneSaved' = done
    /\ UNCHANGED <<done, reached, table>>

\* The worldserver dies between any two steps.
Crash ==
    /\ online
    /\ Fault
    /\ Freed
    /\ done' = doneSaved
    /\ UNCHANGED <<doneSaved, reached, database>>

\* LoadFromDatabase.
LoadedGoalForgotten == FALSE
LoadedGoal == goalRow

Login ==
    /\ ~online
    /\ online' = TRUE
    /\ goalCompleted' = LoadedGoal
    /\ UNCHANGED <<core, connection, wire, server, slotConnected, queues, parsed, checkedLocations,
                   missedProgressCaughtUp, handler, unsaved, database>>

-----------------------------------------------------------------------------

Handle == SlotConnected \/ CatchUpChecks \/ RowsWritten \/ CatchUpGoal \/ PollClose

Next ==
    \/ \E f \in Locations : Credit(f)
    \/ CreditGoal
    \/ Handle
    \/ PeriodicSave \/ Link \/ CoreSaves
    \/ \E f \in Feats : ServerReceives(f)
    \/ LinkLost \/ Logout \/ Crash \/ Login

Spec == Init /\ [][Next]_vars

\* The world update polls, the client keeps reconnecting, the server reads,
\* and the player comes back; what the player does, the core's saves and
\* faults are up to their actors.
Fairness ==
    /\ WF_vars(Handle)
    /\ WF_vars(Link)
    /\ WF_vars(Login)
    /\ \A f \in Feats : WF_vars(ServerReceives(f))

FairSpec == Spec /\ Fairness

-----------------------------------------------------------------------------
(* Properties *)

\* Once the slot is known, the character's memory of what is checked is what
\* its rows say, across logins, crashes and reconnections: it is what the
\* trainers and the shop go by to offer a location once.
MemoryIsTheRecord ==
    Idle /\ parsed => checkedLocations = table

\* A goal on record stays on record: no later save of the character's row,
\* in this login or another, takes it back.
GoalStaysOnRecord == [][ goalRow => goalRow' ]_vars

\* What is on record reaches the server, however many connections were lost
\* while it was being sent: SyncLocationChecks repeats it on the next.
RecordReachesServer ==
    /\ \A f \in Locations : (f \in table) ~> (f \in reached)
    /\ goalRow ~> (Goal \in reached)

\* Whatever the core still knows the character did reaches the server, done
\* with slot data or without: by its hook, or by the catching up of this
\* login or, after a crash in a handler, the next.
DoneReachesServer ==
    \A f \in Caught \union {Goal} : (f \in done) ~> (f \in reached \/ f \notin done)
=============================================================================
