------------------------ MODULE LocationChecksProofs ------------------------
(***************************************************************************)
(* Theorems about LocationChecks, for every set of locations and any       *)
(* number of faults.                                                       *)
(***************************************************************************)
EXTENDS LocationChecks, TLAPS

\* Memory differs from the rows by exactly what has been sent and not
\* written, and before the slot data there is nothing in it.
MemoryInv ==
    /\ parsed => checkedLocations = table \union unsaved
    /\ ~parsed => checkedLocations = {} /\ unsaved = {}

\* While there is a character, what the row says of the goal it knows.
GoalInv == online /\ goalRow => goalCompleted

\* Without a character nothing of it is left, and the catching up begins
\* with every row written.
OfflineInv ==
    /\ ~online => ~parsed
    /\ handler # "idle" => online /\ parsed
    /\ connectedDue => online
    /\ handler = "checks" => unsaved = {}

IInv == TypeOK /\ MemoryInv /\ GoalInv /\ OfflineInv

LEMMA InitInv == Init => IInv
<1> SUFFICES ASSUME Init PROVE IInv
  OBVIOUS
<1>1. done \union doneSaved \union wire \union reached \subseteq Feats
  BY DEF Init
<1>2. faults \in 0 .. MaxFaults
  BY FeatsAssumption DEF Init
<1>3. TypeOK
  BY <1>1, <1>2 DEF Init, TypeOK
<1>4. MemoryInv /\ GoalInv /\ OfflineInv
  BY DEF Init, MemoryInv, GoalInv, OfflineInv
<1> QED
  BY <1>3, <1>4 DEF IInv

\* A fault is counted up to the bound.
LEMMA FaultType == TypeOK /\ Fault => faults' \in 0 .. MaxFaults
  BY FeatsAssumption DEF TypeOK, Fault

\* Losing the connection can drop a Connected that is due, not make one.
LEMMA LostType == TypeOK /\ LinkLost => connectedDue' \in BOOLEAN
  BY DEF TypeOK, LinkLost

LEMMA LostDrops == TypeOK /\ LinkLost => (connectedDue' => connectedDue)
  BY DEF TypeOK, LinkLost

LEMMA StepInv == IInv /\ [Next]_vars => IInv'
<1> SUFFICES ASSUME IInv, [Next]_vars PROVE IInv'
  OBVIOUS
<1> USE DEF IInv, Idle, connection, server, queues, core, database
<1>1. ASSUME NEW f \in Locations, Credit(f) PROVE IInv'
  <2>1. TypeOK'
    BY <1>1, FeatsAssumption DEF Credit, Hook, LocationChecks, Sent, TypeOK, Feats, Locations, OfflineInv
  <2>2. (MemoryInv /\ GoalInv /\ OfflineInv)'
    BY <1>1 DEF Credit, Hook, LocationChecks, Sent, TypeOK, MemoryInv, GoalInv, OfflineInv
  <2> QED
    BY <2>1, <2>2
<1>2. CASE CreditGoal
  <2>1. TypeOK'
    BY <1>2, FeatsAssumption DEF CreditGoal, CompleteGoal, StatusUpdate, Sent, TypeOK, Feats, Locations, OfflineInv
  <2>2. (MemoryInv /\ GoalInv /\ OfflineInv)'
    BY <1>2 DEF CreditGoal, CompleteGoal, StatusUpdate, Sent, TypeOK, MemoryInv, GoalInv, OfflineInv
  <2> QED
    BY <2>1, <2>2
<1>3. CASE SlotConnected
  <2>1. TypeOK'
    BY <1>3, FeatsAssumption DEF SlotConnected, Recorded, Flushed, Sent, TypeOK, Feats, Locations, OfflineInv
  <2>2. (MemoryInv /\ GoalInv /\ OfflineInv)'
    BY <1>3 DEF SlotConnected, Recorded, Flushed, Sent, TypeOK, MemoryInv, GoalInv, OfflineInv
  <2> QED
    BY <2>1, <2>2
<1>4. CASE CatchUpChecks
  <2>1. TypeOK'
    BY <1>4, FeatsAssumption DEF CatchUpChecks, Missed, LocationChecks, Sent, TypeOK, Feats, Locations, OfflineInv
  <2>2. (MemoryInv /\ GoalInv /\ OfflineInv)'
    BY <1>4 DEF CatchUpChecks, Missed, LocationChecks, Sent, TypeOK, MemoryInv, GoalInv, OfflineInv
  <2> QED
    BY <2>1, <2>2
<1>5. CASE RowsWritten
  <2>1. TypeOK'
    BY <1>5, FeatsAssumption DEF RowsWritten, TypeOK, Feats, Locations, OfflineInv
  <2>2. (MemoryInv /\ GoalInv /\ OfflineInv)'
    BY <1>5 DEF RowsWritten, TypeOK, MemoryInv, GoalInv, OfflineInv
  <2> QED
    BY <2>1, <2>2
<1>6. CASE CatchUpGoal
  <2>1. TypeOK'
    BY <1>6, FeatsAssumption DEF CatchUpGoal, CompleteGoal, StatusUpdate, Sent, TypeOK, Feats, Locations, OfflineInv
  <2>2. (MemoryInv /\ GoalInv /\ OfflineInv)'
    BY <1>6 DEF CatchUpGoal, CompleteGoal, StatusUpdate, Sent, TypeOK, MemoryInv, GoalInv, OfflineInv
  <2> QED
    BY <2>1, <2>2
<1>7. CASE PollClose
  <2>1. TypeOK'
    BY <1>7, FeatsAssumption DEF PollClose, TypeOK, Feats, Locations, OfflineInv
  <2>2. (MemoryInv /\ GoalInv /\ OfflineInv)'
    BY <1>7 DEF PollClose, TypeOK, MemoryInv, GoalInv, OfflineInv
  <2> QED
    BY <2>1, <2>2
<1>8. CASE PeriodicSave
  <2>1. TypeOK'
    BY <1>8, FeatsAssumption DEF PeriodicSave, TypeOK, Feats, Locations, OfflineInv
  <2>2. (MemoryInv /\ GoalInv /\ OfflineInv)'
    BY <1>8 DEF PeriodicSave, TypeOK, MemoryInv, GoalInv, OfflineInv
  <2> QED
    BY <2>1, <2>2
<1>9. CASE Link
  <2>1. TypeOK'
    BY <1>9, FeatsAssumption DEF Link, TypeOK, Feats, Locations, OfflineInv
  <2>2. (MemoryInv /\ GoalInv /\ OfflineInv)'
    BY <1>9 DEF Link, TypeOK, MemoryInv, GoalInv, OfflineInv
  <2> QED
    BY <2>1, <2>2
<1>10. CASE CoreSaves
  <2>1. TypeOK'
    BY <1>10, FeatsAssumption DEF CoreSaves, TypeOK, Feats, Locations, OfflineInv
  <2>2. (MemoryInv /\ GoalInv /\ OfflineInv)'
    BY <1>10 DEF CoreSaves, TypeOK, MemoryInv, GoalInv, OfflineInv
  <2> QED
    BY <2>1, <2>2
<1>11. ASSUME NEW f \in Feats, ServerReceives(f) PROVE IInv'
  <2>1. TypeOK'
    BY <1>11, FeatsAssumption DEF ServerReceives, TypeOK, Feats, Locations, OfflineInv
  <2>2. (MemoryInv /\ GoalInv /\ OfflineInv)'
    BY <1>11 DEF ServerReceives, TypeOK, MemoryInv, GoalInv, OfflineInv
  <2> QED
    BY <2>1, <2>2
<1>12. CASE LinkLost
  <2>1. faults' \in 0 .. MaxFaults
    BY <1>12, FaultType DEF LinkLost
  <2>2. (done \union doneSaved \union wire \union reached)' \subseteq Feats
    BY <1>12 DEF LinkLost, TypeOK
  <2>3. (checkQueue \union checkedLocations \union unsaved \union table)' \subseteq Locations
    BY <1>12 DEF LinkLost, TypeOK
  <2>4. connectedDue' \in BOOLEAN /\ (connectedDue' => connectedDue)
    BY <1>12, LostType, LostDrops
  <2>5. TypeOK'
    BY <1>12, <2>1, <2>2, <2>3, <2>4 DEF LinkLost, TypeOK
  <2>6. (MemoryInv /\ GoalInv /\ OfflineInv)'
    BY <1>12, <2>4 DEF LinkLost, MemoryInv, GoalInv, OfflineInv
  <2> QED
    BY <2>5, <2>6
<1>13. CASE Logout
  <2>1. faults' \in 0 .. MaxFaults
    BY <1>13, FaultType DEF Logout, Freed
  <2>2. (done \union doneSaved \union wire \union reached)' \subseteq Feats
    BY <1>13 DEF Logout, Freed, TypeOK
  <2>3. (checkQueue \union checkedLocations \union unsaved \union table)' \subseteq Locations
    BY <1>13 DEF Logout, Freed, TypeOK
  <2>5. TypeOK'
    BY <1>13, <2>1, <2>2, <2>3 DEF Logout, Freed, TypeOK
  <2>6. (MemoryInv /\ GoalInv /\ OfflineInv)'
    BY <1>13 DEF Logout, Freed, MemoryInv, GoalInv, OfflineInv
  <2> QED
    BY <2>5, <2>6
<1>14. CASE Crash
  <2>1. faults' \in 0 .. MaxFaults
    BY <1>14, FaultType DEF Crash, Freed
  <2>2. (done \union doneSaved \union wire \union reached)' \subseteq Feats
    BY <1>14 DEF Crash, Freed, TypeOK
  <2>3. (checkQueue \union checkedLocations \union unsaved \union table)' \subseteq Locations
    BY <1>14 DEF Crash, Freed, TypeOK
  <2>5. TypeOK'
    BY <1>14, <2>1, <2>2, <2>3 DEF Crash, Freed, TypeOK
  <2>6. (MemoryInv /\ GoalInv /\ OfflineInv)'
    BY <1>14 DEF Crash, Freed, MemoryInv, GoalInv, OfflineInv
  <2> QED
    BY <2>5, <2>6
<1>15. CASE Login
  <2>1. TypeOK'
    BY <1>15, FeatsAssumption DEF Login, LoadedGoal, TypeOK, Feats, Locations, OfflineInv
  <2>2. (MemoryInv /\ GoalInv /\ OfflineInv)'
    BY <1>15 DEF Login, LoadedGoal, TypeOK, MemoryInv, GoalInv, OfflineInv
  <2> QED
    BY <2>1, <2>2
<1>16. CASE UNCHANGED vars
  <2>1. TypeOK'
    BY <1>16, FeatsAssumption DEF vars, TypeOK, Feats, Locations, OfflineInv
  <2>2. (MemoryInv /\ GoalInv /\ OfflineInv)'
    BY <1>16 DEF vars, TypeOK, MemoryInv, GoalInv, OfflineInv
  <2> QED
    BY <2>1, <2>2
<1> QED
  BY <1>1, <1>2, <1>3, <1>4, <1>5, <1>6, <1>7, <1>8,
     <1>9, <1>10, <1>11, <1>12, <1>13, <1>14, <1>15, <1>16 DEF Next, Handle

LEMMA Invariant == Spec => []IInv
  BY InitInv, StepInv, PTL DEF Spec

\* Every variable keeps its type: the rows, the queue and what is sent
\* without a row hold locations only, never the goal.
THEOREM TypeCorrect == Spec => []TypeOK
  BY Invariant, PTL DEF IInv

\* Between handlers, with the slot data known, what the character remembers
\* as checked is exactly what its location_check rows say.
THEOREM MemoryAlwaysTheRecord == Spec => []MemoryIsTheRecord
<1>1. IInv => MemoryIsTheRecord
  BY DEF IInv, TypeOK, MemoryInv, MemoryIsTheRecord, Idle
<1> QED
  BY <1>1, Invariant, PTL

\* No save of the character's row takes a completed goal back: SaveToDatabase
\* always writes goalCompleted, which knows of the goal whenever the row does.
THEOREM GoalAlwaysStays == Spec => GoalStaysOnRecord
<1>1. IInv /\ [Next]_vars => (goalRow => goalRow') \/ UNCHANGED vars
  <2> SUFFICES ASSUME IInv, Next, goalRow PROVE goalRow'
    BY DEF vars
  <2> USE DEF IInv, GoalInv, OfflineInv, TypeOK, Idle, database
  <2>1. ASSUME NEW f \in Locations, Credit(f) PROVE goalRow'
    BY <2>1 DEF Credit
  <2>2. CASE CreditGoal
    BY <2>2 DEF CreditGoal, CompleteGoal
  <2>3. CASE SlotConnected
    BY <2>3 DEF SlotConnected
  <2>4. CASE CatchUpGoal
    BY <2>4 DEF CatchUpGoal, CompleteGoal
  <2>5. CASE PeriodicSave
    BY <2>5 DEF PeriodicSave
  <2>6. CASE Logout
    BY <2>6 DEF Logout
  <2>7. CASE CatchUpChecks \/ RowsWritten \/ PollClose
    BY <2>7 DEF CatchUpChecks, RowsWritten, PollClose
  <2>8. CASE Link \/ CoreSaves \/ LinkLost \/ Crash \/ Login
    BY <2>8 DEF Link, CoreSaves, LinkLost, Crash, Login
  <2>9. ASSUME NEW f \in Feats, ServerReceives(f) PROVE goalRow'
    BY <2>9 DEF ServerReceives
  <2> QED
    BY <2>1, <2>2, <2>3, <2>4, <2>5, <2>6, <2>7, <2>8, <2>9 DEF Next, Handle
<1>2. IInv /\ [Next]_vars => [goalRow => goalRow']_vars
  BY <1>1
<1> QED
  BY <1>2, Invariant, PTL DEF Spec, GoalStaysOnRecord
=============================================================================
