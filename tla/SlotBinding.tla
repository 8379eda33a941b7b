----------------------------- MODULE SlotBinding ----------------------------
(***************************************************************************)
(* Which character plays which Archipelago slot: the map apCharacters of   *)
(* ArchipelaWoW, the rows of `characters` and `location_check` behind it,  *)
(* the connect command with its takeover of finished slots, and what       *)
(* logins, logouts, refused slots, deletions and crashes do to them.       *)
(*                                                                         *)
(* A binding exists in memory before it has a row: SaveToDatabase first    *)
(* runs when the slot connects, on the timer or at logout.                 *)
(***************************************************************************)
EXTENDS Naturals, FiniteSets

CONSTANTS
    Characters,    \* the characters of this worldserver, by guid
    Slots,         \* the slot names of the multiworld
    MaxTakeovers,  \* bound on how often a finished slot changes hands
    RefusesPlayed, \* whether a new seed may refuse a character the slot it has played
    None           \* no binding, no row

ASSUME BindingAssumption ==
    /\ MaxTakeovers \in Nat
    /\ RefusesPlayed \in BOOLEAN
    /\ None \notin [slot : Slots, goal : BOOLEAN]
    /\ None \notin [slot : Slots, goal : BOOLEAN, known : BOOLEAN, connected : BOOLEAN]

VARIABLES
    \* external: the multiworld
    accepts,     \* the pairs <<character, slot>> that the server and APSlotConnectedHandler take
    delivered,   \* the checks each slot got since it was last taken over
    \* the characters in the world, and apCharacters
    online,      \* the characters in the world
    bound,       \* apCharacters: each character's AP_Character, or None
    \* the module's database, written synchronously
    rows,        \* `characters`: each character's row, or None
    checkRows,   \* `location_check`: each character's rows
    \* history
    tenure,      \* how often each slot has been taken over
    raced        \* the slots connected to while another character's binding had no row yet

vars == <<accepts, delivered, online, bound, rows, checkRows, tenure, raced>>

\* A check is told apart by the slot, and the tenure of the slot, it was done for.
Checks == [slot : Slots, tenure : 0 .. MaxTakeovers]

Rows == [slot : Slots, goal : BOOLEAN]
Bindings == [slot : Slots, goal : BOOLEAN, known : BOOLEAN, connected : BOOLEAN]

Bound(c) == bound[c] # None

\* The variables keep their types, and only characters in the world have an
\* AP_Character.
TypeOK ==
    /\ accepts \subseteq Characters \X Slots
    /\ delivered \in [Slots -> SUBSET Checks]
    /\ online \subseteq Characters
    /\ bound \in [Characters -> Bindings \union {None}]
    /\ rows \in [Characters -> Rows \union {None}]
    /\ checkRows \in [Characters -> SUBSET Checks]
    /\ tenure \in [Slots -> 0 .. MaxTakeovers]
    /\ raced \subseteq Slots
    /\ \A c \in Characters : Bound(c) => c \in online

Init ==
    /\ accepts \in SUBSET (Characters \X Slots)
    /\ delivered = [s \in Slots |-> {}]
    /\ online = {}
    /\ bound = [c \in Characters |-> None]
    /\ rows = [c \in Characters |-> None]
    /\ checkRows = [c \in Characters |-> {}]
    /\ tenure = [s \in Slots |-> 0]
    /\ raced = {}

-----------------------------------------------------------------------------
(* Rows.                                                                   *)

\* SaveToDatabase replaces the character's row by what is in memory.
Saved(c) == [rows EXCEPT ![c] = [slot |-> bound[c].slot, goal |-> bound[c].goal]]

Binding(slot, goal, known, connected) ==
    [slot |-> slot, goal |-> goal, known |-> known, connected |-> connected]
Fresh(slot, goal) == Binding(slot, goal, FALSE, FALSE)

\* LoadFromDatabase
Loaded(c) == IF rows[c] = None THEN None ELSE Fresh(rows[c].slot, rows[c].goal)

\* The AP_Character is deleted and erased from apCharacters.
ErasedNot(c) == bound
Erased(c) == [bound EXCEPT ![c] = None]

\* ReleaseBinding: freed without a save, then the rows are deleted.
RowsReleasedSavedBack(c) == IF Bound(c) THEN Saved(c) ELSE [rows EXCEPT ![c] = None]
RowsReleased(c) == [rows EXCEPT ![c] = None]
ChecksReleasedForgotten(c) == checkRows
ChecksReleased(c) == [checkRows EXCEPT ![c] = {}]

-----------------------------------------------------------------------------
(* The hooks of the core and the connect command.                          *)

\* OnPlayerLogin.  A guid may be that of a character deleted before.
Login(c) ==
    /\ c \notin online
    /\ online' = online \union {c}
    /\ bound' = [bound EXCEPT ![c] = Loaded(c)]
    /\ UNCHANGED <<accepts, delivered, rows, checkRows, tenure, raced>>

\* OnPlayerBeforeLogout; OnShutdown does the same for every character.
Logout(c) ==
    /\ c \in online
    /\ online' = online \ {c}
    /\ rows' = IF Bound(c) THEN Saved(c) ELSE rows
    /\ bound' = Erased(c)
    /\ UNCHANGED <<accepts, delivered, checkRows, tenure, raced>>

\* OnPlayerDeleteFromDB.  An online character is logged out a tick later.
Delete(c) ==
    /\ bound' = Erased(c)
    /\ rows' = RowsReleased(c)
    /\ checkRows' = ChecksReleased(c)
    /\ UNCHANGED <<accepts, delivered, online, tenure, raced>>

\* The rows that GetSlotBinding finds; it looks at the first, whichever that is.
RowsOf(s) == {c \in Characters : rows[c] # None /\ rows[c].slot = s}

\* HandleAPConnectCommand on a slot that no row names
ConnectFree(c, s) ==
    /\ c \in online
    /\ ~Bound(c)
    /\ RowsOf(s) = {}
    /\ bound' = [bound EXCEPT ![c] = Fresh(s, FALSE)]
    /\ raced' = IF \E d \in Characters : Bound(d) /\ bound[d].slot = s
                THEN raced \union {s}
                ELSE raced
    /\ UNCHANGED <<accepts, delivered, online, rows, checkRows, tenure>>

\* HandleAPConnectCommand on a finished slot: its character d is unbound first
TakeOver(c, s, d) ==
    /\ c \in online
    /\ ~Bound(c)
    /\ d \in RowsOf(s)
    /\ rows[d].goal
    /\ tenure[s] < MaxTakeovers
    /\ bound' = [Erased(d) EXCEPT ![c] = Fresh(s, FALSE)]
    /\ rows' = RowsReleased(d)
    /\ checkRows' = ChecksReleased(d)
    /\ tenure' = [tenure EXCEPT ![s] = @ + 1]
    /\ delivered' = [delivered EXCEPT ![s] = {}]
    /\ UNCHANGED <<accepts, online, raced>>

-----------------------------------------------------------------------------
(* OnWorldUpdate.                                                          *)

\* Update: the save on the timer, whether or not the slot has ever connected
PeriodicSave(c) ==
    /\ Bound(c)
    /\ rows' = Saved(c)
    /\ UNCHANGED <<accepts, delivered, online, bound, checkRows, tenure, raced>>

Done(c) == [slot |-> bound[c].slot, tenure |-> tenure[bound[c].slot]]

\* APSlotConnectedHandler: the row is saved, SyncLocationChecks sends every
\* check on record, and CatchUpMissedProgress may find one more, or the goal.
SlotConnected(c) ==
    /\ Bound(c)
    /\ ~bound[c].connected
    /\ <<c, bound[c].slot>> \in accepts
    /\ \E missed \in {{}, {Done(c)}}, goal \in {bound[c].goal, TRUE} :
        /\ missed # {} \/ goal # bound[c].goal => ~bound[c].known
        /\ bound' = [bound EXCEPT ![c] = Binding(bound[c].slot, goal, TRUE, TRUE)]
        /\ rows' = [rows EXCEPT ![c] = [slot |-> bound[c].slot, goal |-> goal]]
        /\ checkRows' = [checkRows EXCEPT ![c] = @ \union missed]
        /\ delivered' = [delivered EXCEPT ![bound[c].slot] = @ \union checkRows[c] \union missed]
    /\ UNCHANGED <<accepts, online, tenure, raced>>

\* The client's checkQueue: the checks of this binding that are on record and
\* have not been sent since.  Those that have been are delivered in any case.
Flushed(c) == IF bound[c].known THEN checkRows[c] \intersect {Done(c)} ELSE {}

\* APSlotRefusedHandler, or APSlotConnectedHandler with another class or race
\* than the slot's: run is over and OnWorldUpdate frees the AP_Character
\* without a save.  In the second case the client has sent its checkQueue
\* before, and the items behind Connected, if there are any, save the row.
SlotRefused(c) ==
    /\ Bound(c)
    /\ ~bound[c].connected
    /\ <<c, bound[c].slot>> \notin accepts
    /\ \/ UNCHANGED <<rows, delivered>>
       \/ /\ rows' \in {rows, Saved(c)}
          /\ delivered' = [delivered EXCEPT ![bound[c].slot] = @ \union Flushed(c)]
    /\ bound' = Erased(c)
    /\ UNCHANGED <<accepts, online, checkRows, tenure, raced>>

\* A location is checked: sent if the slot is connected, and recorded.
CheckLocation(c) ==
    /\ Bound(c)
    /\ bound[c].known
    /\ checkRows' = [checkRows EXCEPT ![c] = @ \union {Done(c)}]
    /\ delivered' = IF bound[c].connected
                    THEN [delivered EXCEPT ![bound[c].slot] = @ \union {Done(c)}]
                    ELSE delivered
    /\ UNCHANGED <<accepts, online, bound, rows, tenure, raced>>

CompleteGoal(c) ==
    /\ Bound(c)
    /\ bound[c].known
    /\ bound' = [bound EXCEPT ![c] = Binding(bound[c].slot, TRUE, TRUE, bound[c].connected)]
    /\ rows' = [rows EXCEPT ![c] = [slot |-> bound[c].slot, goal |-> TRUE]]
    /\ UNCHANGED <<accepts, delivered, online, checkRows, tenure, raced>>

-----------------------------------------------------------------------------
(* The environment.                                                        *)

Unlinked(c) == Binding(bound[c].slot, bound[c].goal, bound[c].known, FALSE)

LinkLost(c) ==
    /\ Bound(c)
    /\ bound[c].connected
    /\ bound' = [bound EXCEPT ![c] = Unlinked(c)]
    /\ UNCHANGED <<accepts, delivered, online, rows, checkRows, tenure, raced>>

\* The worldserver dies and is started again.
Crash ==
    /\ online # {}
    /\ online' = {}
    /\ bound' = [c \in Characters |-> None]
    /\ UNCHANGED <<accepts, delivered, rows, checkRows, tenure, raced>>

Played(c) == checkRows[c] # {} \/ (Bound(c) /\ bound[c].known)

\* The host replaces the seed: every connection ends, and other characters
\* fit the slots that there are now.
NewSeed ==
    /\ accepts' \in SUBSET (Characters \X Slots)
    /\ RefusesPlayed \/ \A play \in accepts \ accepts' : ~Played(play[1])
    /\ bound' = [c \in Characters |-> IF Bound(c) THEN Unlinked(c) ELSE None]
    /\ UNCHANGED <<delivered, online, rows, checkRows, tenure, raced>>

Next ==
    \/ \E c \in Characters :
        \/ Login(c) \/ Logout(c) \/ Delete(c)
        \/ \E s \in Slots : ConnectFree(c, s)
        \/ \E s \in Slots, d \in Characters : TakeOver(c, s, d)
        \/ PeriodicSave(c) \/ SlotConnected(c) \/ SlotRefused(c)
        \/ CheckLocation(c) \/ CompleteGoal(c) \/ LinkLost(c)
    \/ Crash
    \/ NewSeed

Spec == Init /\ [][Next]_vars

-----------------------------------------------------------------------------
(* Properties.                                                             *)

\* A character claims a slot in memory, by a row, or both, even two of them.
Claims(c, s) ==
    \/ Bound(c) /\ bound[c].slot = s
    \/ rows[c] # None /\ rows[c].slot = s

\* Two characters come to share a slot in one way only: both sent the connect
\* command before either had a row.  No takeover, deletion, refusal, late
\* save or crash leads there.
SharedOnlyByRace ==
    \A c, d \in Characters, s \in Slots :
        c # d /\ Claims(c, s) /\ Claims(d, s) => s \in raced

\* Once a finished slot has been taken over, it gets no check that was done
\* for the seed before, nor one that was done for another slot.  Slots that
\* two characters came to share by racing for them are excepted.
OldChecksStayOut ==
    \A s \in Slots \ raced : \A check \in delivered[s] :
        check.slot = s /\ check.tenure = tenure[s]
=============================================================================
