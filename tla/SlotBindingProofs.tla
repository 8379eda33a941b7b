-------------------------- MODULE SlotBindingProofs -------------------------
(***************************************************************************)
(* Theorems about SlotBinding, for every set of characters and of slots.   *)
(***************************************************************************)
EXTENDS SlotBinding, TLAPS

LEMMA InitType == Init => TypeOK
  BY BindingAssumption DEF Init, TypeOK, Bound

LEMMA BindingType ==
    ASSUME NEW s \in Slots, NEW goal \in BOOLEAN, NEW known \in BOOLEAN, NEW connected \in BOOLEAN
    PROVE  Binding(s, goal, known, connected) \in Bindings
  BY DEF Binding, Bindings

LEMMA FreshType == ASSUME NEW s \in Slots, NEW goal \in BOOLEAN PROVE Fresh(s, goal) \in Bindings
  BY BindingType DEF Fresh

LEMMA UnlinkedType ==
    ASSUME TypeOK, NEW c \in Characters, Bound(c)
    PROVE  Unlinked(c) \in Bindings
  BY BindingType DEF Unlinked, TypeOK, Bound, Bindings

\* What is bound is a binding, and its row would be a row.
LEMMA BoundType ==
    ASSUME TypeOK, NEW c \in Characters, Bound(c)
    PROVE  /\ bound[c] \in Bindings
           /\ bound[c].slot \in Slots
           /\ bound[c].goal \in BOOLEAN
           /\ Saved(c) \in [Characters -> Rows \union {None}]
<1>1. bound[c] \in Bindings
  BY DEF TypeOK, Bound
<1>2. bound[c].slot \in Slots /\ bound[c].goal \in BOOLEAN
  BY <1>1 DEF Bindings
<1>3. [slot |-> bound[c].slot, goal |-> bound[c].goal] \in Rows
  BY <1>2 DEF Rows
<1>4. Saved(c) \in [Characters -> Rows \union {None}]
  BY <1>3 DEF TypeOK, Saved
<1> QED
  BY <1>1, <1>2, <1>4

LEMMA LoadedType ==
    ASSUME TypeOK, NEW c \in Characters
    PROVE  Loaded(c) \in Bindings \union {None}
<1>1. CASE rows[c] = None
  BY <1>1 DEF Loaded
<1>2. CASE rows[c] # None
  <2>1. rows[c] \in Rows
    BY <1>2 DEF TypeOK
  <2>2. rows[c].slot \in Slots /\ rows[c].goal \in BOOLEAN
    BY <2>1 DEF Rows
  <2> QED
    BY <1>2, <2>2, FreshType DEF Loaded
<1> QED
  BY <1>1, <1>2

LEMMA DoneType ==
    ASSUME TypeOK, NEW c \in Characters, Bound(c)
    PROVE  Done(c) \in Checks
<1>1. bound[c].slot \in Slots
  BY BoundType
<1>2. tenure[bound[c].slot] \in 0 .. MaxTakeovers
  BY <1>1 DEF TypeOK
<1> QED
  BY <1>1, <1>2 DEF Done, Checks

LEMMA StepType == TypeOK /\ [Next]_vars => TypeOK'
<1> SUFFICES ASSUME TypeOK, [Next]_vars PROVE TypeOK'
  OBVIOUS
<1>1. ASSUME NEW c \in Characters, Login(c) PROVE TypeOK'
  BY <1>1, LoadedType DEF Login, TypeOK, Bound
<1>2. ASSUME NEW c \in Characters, Logout(c) PROVE TypeOK'
  BY <1>2, BoundType DEF Logout, TypeOK, Bound, Erased
<1>3. ASSUME NEW c \in Characters, Delete(c) PROVE TypeOK'
  BY <1>3 DEF Delete, TypeOK, Bound, Erased, RowsReleased, ChecksReleased
<1>4. ASSUME NEW c \in Characters, NEW s \in Slots, ConnectFree(c, s) PROVE TypeOK'
  <2>1. Fresh(s, FALSE) \in Bindings
    BY FreshType
  <2> QED
    BY <1>4, <2>1 DEF ConnectFree, TypeOK, Bound
<1>5. ASSUME NEW c \in Characters, NEW s \in Slots, NEW d \in Characters, TakeOver(c, s, d) PROVE TypeOK'
  <2>1. Fresh(s, FALSE) \in Bindings
    BY FreshType
  <2>2. tenure' \in [Slots -> 0 .. MaxTakeovers]
    BY <1>5, BindingAssumption DEF TakeOver, TypeOK
  <2> QED
    BY <1>5, <2>1, <2>2 DEF TakeOver, TypeOK, Bound, Erased, RowsReleased, ChecksReleased
<1>6. ASSUME NEW c \in Characters, PeriodicSave(c) PROVE TypeOK'
  BY <1>6, BoundType DEF PeriodicSave, TypeOK, Bound
<1>7. ASSUME NEW c \in Characters, SlotConnected(c) PROVE TypeOK'
  <2>1. PICK missed \in {{}, {Done(c)}}, goal \in {bound[c].goal, TRUE} :
           /\ bound' = [bound EXCEPT ![c] = Binding(bound[c].slot, goal, TRUE, TRUE)]
           /\ rows' = [rows EXCEPT ![c] = [slot |-> bound[c].slot, goal |-> goal]]
           /\ checkRows' = [checkRows EXCEPT ![c] = @ \union missed]
           /\ delivered' = [delivered EXCEPT ![bound[c].slot] = @ \union checkRows[c] \union missed]
    BY <1>7 DEF SlotConnected
  <2>2. Bound(c) /\ c \in online
    BY <1>7 DEF SlotConnected, TypeOK
  <2>3. missed \subseteq Checks /\ goal \in BOOLEAN /\ bound[c].slot \in Slots
    BY <2>2, DoneType, BoundType
  <2>4. [slot |-> bound[c].slot, goal |-> goal] \in Rows
    BY <2>3 DEF Rows
  <2>5. Binding(bound[c].slot, goal, TRUE, TRUE) \in Bindings
    BY <2>3, BindingType
  <2>7. bound' \in [Characters -> Bindings \union {None}]
    BY <2>1, <2>5 DEF TypeOK
  <2>8. \A d \in Characters : Bound(d)' => d \in online
    BY <2>1, <2>2 DEF TypeOK, Bound
  <2>9. checkRows' \in [Characters -> SUBSET Checks] /\ delivered' \in [Slots -> SUBSET Checks]
    BY <2>1, <2>3 DEF TypeOK
  <2> QED
    BY <1>7, <2>1, <2>4, <2>7, <2>8, <2>9 DEF SlotConnected, TypeOK
<1>8. ASSUME NEW c \in Characters, SlotRefused(c) PROVE TypeOK'
  <2>1. bound[c].slot \in Slots
    BY <1>8, BoundType DEF SlotRefused
  <2>2. Flushed(c) \subseteq Checks
    BY DEF Flushed, TypeOK
  <2>3. delivered' \in [Slots -> SUBSET Checks]
    BY <1>8, <2>1, <2>2 DEF SlotRefused, TypeOK
  <2>4. /\ rows' \in {rows, Saved(c)} /\ Bound(c) /\ bound' = Erased(c)
        /\ UNCHANGED <<accepts, online, checkRows, tenure, raced>>
    BY <1>8 DEF SlotRefused
  <2> QED
    BY <2>3, <2>4, BoundType DEF TypeOK, Bound, Erased
<1>9. ASSUME NEW c \in Characters, CheckLocation(c) PROVE TypeOK'
  <2>1. Done(c) \in Checks /\ bound[c].slot \in Slots
    BY <1>9, DoneType, BoundType DEF CheckLocation
  <2> QED
    BY <1>9, <2>1 DEF CheckLocation, TypeOK, Bound
<1>10. ASSUME NEW c \in Characters, CompleteGoal(c) PROVE TypeOK'
  <2>1. [slot |-> bound[c].slot, goal |-> TRUE] \in Rows
    BY <1>10, BoundType DEF CompleteGoal, Rows
  <2>2. Binding(bound[c].slot, TRUE, TRUE, bound[c].connected) \in Bindings
    BY <1>10, BoundType, BindingType DEF CompleteGoal, Bindings
  <2> QED
    BY <1>10, <2>1, <2>2 DEF CompleteGoal, TypeOK, Bound
<1>11. ASSUME NEW c \in Characters, LinkLost(c) PROVE TypeOK'
  <2>1. Unlinked(c) \in Bindings
    BY <1>11, UnlinkedType DEF LinkLost
  <2> QED
    BY <1>11, <2>1 DEF LinkLost, TypeOK, Bound
<1>12. ASSUME Crash PROVE TypeOK'
  BY <1>12 DEF Crash, TypeOK, Bound
<1>13. ASSUME NewSeed PROVE TypeOK'
  <2>1. \A c \in Characters : Bound(c) => Unlinked(c) \in Bindings
    BY UnlinkedType
  <2> QED
    BY <1>13, <2>1 DEF NewSeed, TypeOK, Bound
<1>14. CASE UNCHANGED vars
  BY <1>14 DEF vars, TypeOK, Bound
<1> QED
  BY <1>1, <1>2, <1>3, <1>4, <1>5, <1>6, <1>7, <1>8, <1>9, <1>10, <1>11, <1>12, <1>13, <1>14 DEF Next

\* The variables keep their types, and only characters in the world have an
\* AP_Character, for any characters, slots and number of takeovers.
THEOREM TypeCorrect == Spec => []TypeOK
  BY InitType, StepType, PTL DEF Spec

-----------------------------------------------------------------------------
(* Who shares a slot.  SharedOnlyByRace is inductive: the connect command  *)
(* only adds a claim, to a slot that no row names or whose row it deletes. *)

LEMMA InitShared == Init => SharedOnlyByRace
  BY DEF Init, SharedOnlyByRace, Claims, Bound

\* A step that adds no claim and forgets no race keeps the invariant.
LEMMA FewerClaims ==
    ASSUME SharedOnlyByRace,
           \A c \in Characters, s \in Slots : Claims(c, s)' => Claims(c, s),
           raced \subseteq raced'
    PROVE  SharedOnlyByRace'
  BY DEF SharedOnlyByRace

\* A row saved from a binding claims what the binding does.
LEMMA SavedClaims ==
    ASSUME TypeOK, NEW c \in Characters, Bound(c), NEW d \in Characters, NEW s \in Slots,
           rows' = Saved(c), rows'[d] # None, rows'[d].slot = s
    PROVE  Claims(d, s)
<1>1. CASE d = c
  BY <1>1 DEF Saved, TypeOK, Claims
<1>2. CASE d # c
  BY <1>2 DEF Saved, TypeOK, Claims
<1> QED
  BY <1>1, <1>2

LEMMA StepShared == TypeOK /\ SharedOnlyByRace /\ [Next]_vars => SharedOnlyByRace'
<1> SUFFICES ASSUME TypeOK, SharedOnlyByRace, [Next]_vars PROVE SharedOnlyByRace'
  OBVIOUS
<1>1. ASSUME NEW c \in Characters, Login(c) PROVE SharedOnlyByRace'
  <2>1. \A d \in Characters, s \in Slots : Claims(d, s)' => Claims(d, s)
    BY <1>1 DEF Login, Loaded, Fresh, Binding, Claims, Bound, TypeOK
  <2> QED
    BY <1>1, <2>1, FewerClaims DEF Login
<1>2. ASSUME NEW c \in Characters, Logout(c) PROVE SharedOnlyByRace'
  <2>1. \A d \in Characters, s \in Slots : Claims(d, s)' => Claims(d, s)
    BY <1>2, SavedClaims DEF Logout, Erased, Claims, Bound, TypeOK
  <2> QED
    BY <1>2, <2>1, FewerClaims DEF Logout
<1>3. ASSUME NEW c \in Characters, Delete(c) PROVE SharedOnlyByRace'
  <2>1. \A d \in Characters, s \in Slots : Claims(d, s)' => Claims(d, s)
    BY <1>3 DEF Delete, Erased, RowsReleased, Claims, Bound, TypeOK
  <2> QED
    BY <1>3, <2>1, FewerClaims DEF Delete
<1>4. ASSUME NEW c \in Characters, NEW s \in Slots, ConnectFree(c, s) PROVE SharedOnlyByRace'
  <2>1. \A d \in Characters, t \in Slots : Claims(d, t)' => Claims(d, t) \/ (d = c /\ t = s)
    BY <1>4 DEF ConnectFree, Fresh, Binding, Claims, Bound, TypeOK
  <2>2. raced \subseteq raced'
    BY <1>4 DEF ConnectFree
  <2>3. ASSUME NEW d \in Characters, d # c, Claims(d, s) PROVE s \in raced'
    BY <1>4, <2>3 DEF ConnectFree, Claims, RowsOf
  <2>4. \A d \in Characters : d # c /\ Claims(d, s)' => s \in raced'
    BY <2>1, <2>3
  <2> QED
    BY <2>1, <2>2, <2>4 DEF SharedOnlyByRace
<1>5. ASSUME NEW c \in Characters, NEW s \in Slots, NEW d \in Characters, TakeOver(c, s, d) PROVE SharedOnlyByRace'
  <2>1. \A e \in Characters, t \in Slots : Claims(e, t)' => \/ Claims(e, t) /\ e # d
                                                            \/ e = c /\ t = s
    BY <1>5 DEF TakeOver, Fresh, Binding, Erased, RowsReleased, Claims, Bound, TypeOK
  <2>2. Claims(d, s) /\ raced' = raced
    BY <1>5 DEF TakeOver, RowsOf, Claims
  <2>3. \A e \in Characters : e # c /\ Claims(e, s)' => s \in raced
    BY <2>1, <2>2 DEF SharedOnlyByRace
  <2> QED
    BY <2>1, <2>2, <2>3 DEF SharedOnlyByRace
<1>6. ASSUME NEW c \in Characters, PeriodicSave(c) PROVE SharedOnlyByRace'
  <2>1. \A d \in Characters, s \in Slots : Claims(d, s)' => Claims(d, s)
    BY <1>6, SavedClaims DEF PeriodicSave, Claims, Bound
  <2> QED
    BY <1>6, <2>1, FewerClaims DEF PeriodicSave
<1>7. ASSUME NEW c \in Characters, SlotConnected(c) PROVE SharedOnlyByRace'
  <2>1. \A d \in Characters, s \in Slots : Claims(d, s)' => Claims(d, s)
    BY <1>7 DEF SlotConnected, Binding, Claims, Bound, TypeOK
  <2> QED
    BY <1>7, <2>1, FewerClaims DEF SlotConnected
<1>8. ASSUME NEW c \in Characters, SlotRefused(c) PROVE SharedOnlyByRace'
  <2>1. \A d \in Characters, s \in Slots : Claims(d, s)' => Claims(d, s)
    BY <1>8, SavedClaims DEF SlotRefused, Erased, Claims, Bound, TypeOK
  <2> QED
    BY <1>8, <2>1, FewerClaims DEF SlotRefused
<1>9. ASSUME NEW c \in Characters, CheckLocation(c) PROVE SharedOnlyByRace'
  BY <1>9 DEF CheckLocation, SharedOnlyByRace, Claims, Bound
<1>10. ASSUME NEW c \in Characters, CompleteGoal(c) PROVE SharedOnlyByRace'
  <2>1. \A d \in Characters, s \in Slots : Claims(d, s)' => Claims(d, s)
    BY <1>10 DEF CompleteGoal, Binding, Claims, Bound, TypeOK
  <2> QED
    BY <1>10, <2>1, FewerClaims DEF CompleteGoal
<1>11. ASSUME NEW c \in Characters, LinkLost(c) PROVE SharedOnlyByRace'
  <2>1. \A d \in Characters, s \in Slots : Claims(d, s)' => Claims(d, s)
    BY <1>11 DEF LinkLost, Unlinked, Binding, Claims, Bound, TypeOK
  <2> QED
    BY <1>11, <2>1, FewerClaims DEF LinkLost
<1>12. ASSUME Crash PROVE SharedOnlyByRace'
  BY <1>12 DEF Crash, SharedOnlyByRace, Claims, Bound
<1>13. ASSUME NewSeed PROVE SharedOnlyByRace'
  <2>1. \A d \in Characters, s \in Slots : Claims(d, s)' => Claims(d, s)
    BY <1>13 DEF NewSeed, Unlinked, Binding, Claims, Bound, TypeOK
  <2> QED
    BY <1>13, <2>1, FewerClaims DEF NewSeed
<1>14. CASE UNCHANGED vars
  BY <1>14 DEF vars, SharedOnlyByRace, Claims, Bound
<1> QED
  BY <1>1, <1>2, <1>3, <1>4, <1>5, <1>6, <1>7, <1>8, <1>9, <1>10, <1>11, <1>12, <1>13, <1>14 DEF Next

\* Two characters share a slot only if both asked for it before either had a
\* row, whatever is refused, taken over, deleted or lost in between.
THEOREM SharedAlwaysByRace == Spec => []SharedOnlyByRace
  BY InitType, StepType, InitShared, StepShared, PTL DEF Spec

-----------------------------------------------------------------------------
(* What a slot is sent.  As long as nobody is refused a slot he has played *)
(* in, the checks on record are all for the slot of the character's row.   *)

\* The slot is the one of the row, of the binding if there is one, and takes
\* the character.
Plays(c, s) ==
    /\ rows[c] # None
    /\ rows[c].slot = s
    /\ <<c, s>> \in accepts
    /\ Bound(c) => bound[c].slot = s

Current(check) == check.slot \in raced \/ check.tenure = tenure[check.slot]

RecordOf(c) ==
    /\ \A check \in checkRows[c] : Plays(c, check.slot) /\ Current(check)
    /\ c \in online /\ ~Bound(c) => checkRows[c] = {}
    /\ Bound(c) /\ bound[c].known => Plays(c, bound[c].slot)

RecordInv == \A c \in Characters : RecordOf(c)

BindingInv == TypeOK /\ SharedOnlyByRace /\ RecordInv /\ OldChecksStayOut

LEMMA InitRecord == Init => RecordInv /\ OldChecksStayOut
  BY DEF Init, RecordInv, RecordOf, OldChecksStayOut, Bound

\* A check done now is current.
LEMMA DoneIsCurrent ==
    ASSUME TypeOK, NEW c \in Characters, Bound(c)
    PROVE  Done(c).slot = bound[c].slot /\ Current(Done(c))
  BY DEF Done, Current

\* None is neither a binding nor a row.
LEMMA NotNone == (\A b \in Bindings : b # None) /\ (\A r \in Rows : r # None)
  BY BindingAssumption DEF Bindings, Rows

\* SaveToDatabase makes the row name the slot of the binding.
LEMMA SavedRow ==
    ASSUME TypeOK, NEW c \in Characters, Bound(c)
    PROVE  Saved(c)[c] # None /\ Saved(c)[c].slot = bound[c].slot
<1>1. bound[c].slot \in Slots /\ bound[c].goal \in BOOLEAN
  BY BoundType
<1>2. Saved(c)[c] = [slot |-> bound[c].slot, goal |-> bound[c].goal]
  BY DEF Saved, TypeOK
<1> QED
  BY <1>1, <1>2, BindingAssumption

\* A step that is about other characters keeps what is on record of this one.
LEMMA Untouched ==
    ASSUME NEW e \in Characters, RecordOf(e), accepts' = accepts, tenure' = tenure,
           raced \subseteq raced', rows'[e] = rows[e], bound'[e] = bound[e],
           checkRows'[e] = checkRows[e], e \in online' <=> e \in online
    PROVE  RecordOf(e)'
  BY DEF RecordOf, Plays, Current, Bound

\* So does a step that leaves the binding its slot, and has the row name it.
LEMMA StillBound ==
    ASSUME NEW c \in Characters, RecordOf(c), accepts' = accepts, tenure' = tenure,
           raced \subseteq raced', Bound(c), Bound(c)', bound'[c].slot = bound[c].slot,
           rows'[c] # None, rows'[c].slot = bound[c].slot,
           bound'[c].known => bound[c].known \/ <<c, bound[c].slot>> \in accepts,
           \A check \in checkRows'[c] :
                \/ check \in checkRows[c]
                \/ /\ check.slot = bound[c].slot /\ Current(check)
                   /\ <<c, bound[c].slot>> \in accepts
    PROVE  RecordOf(c)'
<1>1. \A check \in checkRows'[c] : Plays(c, check.slot)' /\ Current(check)'
  BY DEF RecordOf, Plays, Current
<1>2. bound'[c].known => Plays(c, bound[c].slot)'
  BY DEF RecordOf, Plays
<1> QED
  BY <1>1, <1>2 DEF RecordOf

\* And a step that ends the binding after it, or nothing, was saved.
LEMMA NoLongerBound ==
    ASSUME NEW c \in Characters, RecordOf(c), accepts' = accepts, tenure' = tenure,
           raced \subseteq raced', ~Bound(c)', checkRows'[c] = checkRows[c],
           \/ rows'[c] = rows[c]
           \/ Bound(c) /\ rows'[c] # None /\ rows'[c].slot = bound[c].slot,
           c \in online' => checkRows[c] = {}
    PROVE  RecordOf(c)'
  BY DEF RecordOf, Plays, Current, Bound

LEMMA StepRecord ==
    ASSUME ~RefusesPlayed, TypeOK, SharedOnlyByRace, RecordInv, [Next]_vars
    PROVE  RecordInv'
<1>0. ASSUME NEW c \in Characters, NEW check \in checkRows[c] PROVE check.slot \in Slots
  BY <1>0 DEF TypeOK, Checks
<1>1. ASSUME NEW c \in Characters, Login(c) PROVE RecordInv'
  <2>1. SUFFICES ASSUME NEW e \in Characters PROVE RecordOf(e)'
    BY DEF RecordInv
  <2>2. CASE e # c
    BY <1>1, <2>2, Untouched DEF Login, RecordInv, TypeOK
  <2>3. CASE e = c /\ rows[c] = None
    <3>1. bound'[c] = None /\ checkRows[c] = {}
      BY <1>1, <2>3 DEF Login, Loaded, TypeOK, RecordInv, RecordOf, Plays
    <3> QED
      BY <1>1, <2>3, <3>1 DEF Login, RecordOf, Bound
  <2>4. CASE e = c /\ rows[c] # None
    <3>1. bound'[c] = Fresh(rows[c].slot, rows[c].goal)
      BY <1>1, <2>4 DEF Login, Loaded, TypeOK
    <3>2. rows[c].slot \in Slots /\ rows[c].goal \in BOOLEAN
      BY <2>4 DEF TypeOK, Rows
    <3>3. bound'[c] # None /\ bound'[c].slot = rows[c].slot /\ ~bound'[c].known
      <4>1. bound'[c] \in Bindings
        BY <3>1, <3>2, FreshType
      <4> QED
        <5>1. bound'[c] # None
          BY <4>1, NotNone
        <5>2. bound'[c].slot = rows[c].slot /\ ~bound'[c].known
          BY <3>1 DEF Fresh, Binding
        <5> QED
          BY <5>1, <5>2
    <3>4. \A check \in checkRows[c] : Plays(c, check.slot)'
      BY <1>1, <3>3 DEF Login, RecordInv, RecordOf, Plays
    <3> QED
      BY <1>1, <2>4, <3>3, <3>4 DEF Login, RecordInv, RecordOf, Current, Bound
  <2> QED
    BY <2>2, <2>3, <2>4
<1>2. ASSUME NEW c \in Characters, Logout(c) PROVE RecordInv'
  <2>1. SUFFICES ASSUME NEW e \in Characters PROVE RecordOf(e)'
    BY DEF RecordInv
  <2>2. CASE e # c
    BY <1>2, <2>2, Untouched DEF Logout, Saved, Erased, RecordInv, TypeOK
  <2>3. CASE e = c
    <3>1. ~Bound(c)' /\ c \notin online'
      BY <1>2 DEF Logout, Erased, TypeOK, Bound
    <3>2. \/ rows'[c] = rows[c]
          \/ Bound(c) /\ rows'[c] # None /\ rows'[c].slot = bound[c].slot
      BY <1>2, SavedRow DEF Logout
    <3> QED
      BY <1>2, <2>3, <3>1, <3>2, NoLongerBound DEF Logout, RecordInv
  <2> QED
    BY <2>2, <2>3
<1>3. ASSUME NEW c \in Characters, Delete(c) PROVE RecordInv'
  <2>1. SUFFICES ASSUME NEW e \in Characters PROVE RecordOf(e)'
    BY DEF RecordInv
  <2>2. CASE e # c
    BY <1>3, <2>2, Untouched DEF Delete, Erased, RowsReleased, ChecksReleased, RecordInv, TypeOK
  <2>3. CASE e = c
    BY <1>3, <2>3 DEF Delete, Erased, ChecksReleased, RecordOf, Bound, TypeOK
  <2> QED
    BY <2>2, <2>3
<1>4. ASSUME NEW c \in Characters, NEW s \in Slots, ConnectFree(c, s) PROVE RecordInv'
  <2>1. SUFFICES ASSUME NEW e \in Characters PROVE RecordOf(e)'
    BY DEF RecordInv
  <2>2. CASE e # c
    BY <1>4, <2>2, Untouched DEF ConnectFree, RecordInv, TypeOK
  <2>3. CASE e = c
    <3>1. checkRows'[c] = {} /\ ~bound'[c].known /\ Bound(c)'
      BY <1>4, FreshType, BindingAssumption DEF ConnectFree, Fresh, Binding, Bindings, TypeOK, RecordInv, RecordOf, Bound
    <3> QED
      BY <2>3, <3>1 DEF RecordOf
  <2> QED
    BY <2>2, <2>3
<1>5. ASSUME NEW c \in Characters, NEW s \in Slots, NEW d \in Characters, TakeOver(c, s, d) PROVE RecordInv'
  <2>1. SUFFICES ASSUME NEW e \in Characters PROVE RecordOf(e)'
    BY DEF RecordInv
  <2>2. CASE e = c
    <3>1. checkRows'[c] = {}
      BY <1>5 DEF TakeOver, ChecksReleased, TypeOK, RecordInv, RecordOf
    <3>2. bound'[c] = Fresh(s, FALSE)
      BY <1>5 DEF TakeOver, Erased, TypeOK
    <3>3. ~bound'[c].known /\ Bound(c)'
      BY <3>2, FreshType, BindingAssumption DEF Fresh, Binding, Bindings, Bound
    <3> QED
      BY <2>2, <3>1, <3>3 DEF RecordOf
  <2>3. CASE e # c /\ e = d
    BY <1>5, <2>3 DEF TakeOver, Erased, ChecksReleased, TypeOK, RecordOf, Bound
  <2>4. CASE e # c /\ e # d
    <3>1. /\ rows'[e] = rows[e] /\ bound'[e] = bound[e] /\ checkRows'[e] = checkRows[e]
          /\ accepts' = accepts /\ online' = online /\ raced' = raced
      BY <1>5, <2>4 DEF TakeOver, Erased, RowsReleased, ChecksReleased, TypeOK
    <3>2. \A check \in checkRows[e] : check.slot = s => s \in raced
      <4>1. Claims(d, s)
        BY <1>5 DEF TakeOver, RowsOf, Claims
      <4>2. \A check \in checkRows[e] : Claims(e, check.slot)
        BY DEF RecordInv, RecordOf, Plays, Claims
      <4> QED
        BY <2>4, <4>1, <4>2 DEF SharedOnlyByRace
    <3>3. \A check \in checkRows[e] : check.slot # s => tenure'[check.slot] = tenure[check.slot]
      BY <1>0, <1>5 DEF TakeOver, TypeOK
    <3> QED
      BY <3>1, <3>2, <3>3 DEF RecordInv, RecordOf, Plays, Current, Bound
  <2> QED
    BY <2>2, <2>3, <2>4
<1>6. ASSUME NEW c \in Characters, PeriodicSave(c) PROVE RecordInv'
  <2>1. SUFFICES ASSUME NEW e \in Characters PROVE RecordOf(e)'
    BY DEF RecordInv
  <2>2. CASE e # c
    BY <1>6, <2>2, Untouched DEF PeriodicSave, Saved, RecordInv, TypeOK
  <2>3. CASE e = c
    <3>1. rows'[c] # None /\ rows'[c].slot = bound[c].slot
      BY <1>6, SavedRow DEF PeriodicSave
    <3> QED
      BY <1>6, <2>3, <3>1, StillBound DEF PeriodicSave, RecordInv, Bound
  <2> QED
    BY <2>2, <2>3
<1>7. ASSUME NEW c \in Characters, SlotConnected(c) PROVE RecordInv'
  <2>1. SUFFICES ASSUME NEW e \in Characters PROVE RecordOf(e)'
    BY DEF RecordInv
  <2>2. PICK missed \in {{}, {Done(c)}}, goal \in {bound[c].goal, TRUE} :
           /\ bound' = [bound EXCEPT ![c] = Binding(bound[c].slot, goal, TRUE, TRUE)]
           /\ rows' = [rows EXCEPT ![c] = [slot |-> bound[c].slot, goal |-> goal]]
           /\ checkRows' = [checkRows EXCEPT ![c] = @ \union missed]
    BY <1>7 DEF SlotConnected
  <2>3. CASE e # c
    BY <1>7, <2>2, <2>3, Untouched DEF SlotConnected, RecordInv, TypeOK
  <2>4. CASE e = c
    <3>1. Bound(c) /\ bound[c].slot \in Slots /\ goal \in BOOLEAN
      BY <1>7, BoundType DEF SlotConnected
    <3>2. bound'[c] = Binding(bound[c].slot, goal, TRUE, TRUE)
      BY <2>2 DEF TypeOK
    <3>3. Bound(c)' /\ bound'[c].slot = bound[c].slot
      <4>1. bound'[c] \in Bindings
        BY <3>1, <3>2, BindingType
      <4> QED
        <5>1. bound'[c] # None
          BY <4>1, NotNone
        <5>2. bound'[c].slot = bound[c].slot
          BY <3>2 DEF Binding
        <5> QED
          BY <5>1, <5>2 DEF Bound
    <3>4. rows'[c] # None /\ rows'[c].slot = bound[c].slot
      BY <2>2, <3>1, BindingAssumption DEF TypeOK
    <3>5. \A check \in checkRows'[c] : check \in checkRows[c] \/ check = Done(c)
      BY <2>2 DEF TypeOK
    <3>6. Done(c).slot = bound[c].slot /\ Current(Done(c))
      BY <3>1, DoneIsCurrent
    <3>7. RecordOf(c) /\ accepts' = accepts /\ tenure' = tenure /\ raced \subseteq raced'
      BY <1>7 DEF SlotConnected, RecordInv
    <3>8. <<c, bound[c].slot>> \in accepts
      BY <1>7 DEF SlotConnected
    <3> QED
      BY <2>4, <3>1, <3>3, <3>4, <3>5, <3>6, <3>7, <3>8, StillBound
  <2> QED
    BY <2>3, <2>4
<1>8. ASSUME NEW c \in Characters, SlotRefused(c) PROVE RecordInv'
  <2>1. SUFFICES ASSUME NEW e \in Characters PROVE RecordOf(e)'
    BY DEF RecordInv
  <2>2. CASE e # c
    BY <1>8, <2>2, Untouched DEF SlotRefused, Saved, Erased, RecordInv, TypeOK
  <2>3. CASE e = c
    <3>1. ~Bound(c)'
      BY <1>8 DEF SlotRefused, Erased, TypeOK, Bound
    <3>2. \/ rows'[c] = rows[c]
          \/ Bound(c) /\ rows'[c] # None /\ rows'[c].slot = bound[c].slot
      BY <1>8, SavedRow DEF SlotRefused
    <3>3. checkRows[c] = {}
      BY <1>8 DEF SlotRefused, RecordInv, RecordOf, Plays, Bound
    <3> QED
      BY <1>8, <2>3, <3>1, <3>2, <3>3, NoLongerBound DEF SlotRefused, RecordInv
  <2> QED
    BY <2>2, <2>3
<1>9. ASSUME NEW c \in Characters, CheckLocation(c) PROVE RecordInv'
  <2>1. SUFFICES ASSUME NEW e \in Characters PROVE RecordOf(e)'
    BY DEF RecordInv
  <2>2. CASE e # c
    BY <1>9, <2>2, Untouched DEF CheckLocation, RecordInv, TypeOK
  <2>3. CASE e = c
    <3>1. \A check \in checkRows'[c] : check \in checkRows[c] \/ check = Done(c)
      BY <1>9 DEF CheckLocation, TypeOK
    <3>2. Done(c).slot = bound[c].slot /\ Current(Done(c)) /\ Plays(c, bound[c].slot)
      BY <1>9, DoneIsCurrent DEF CheckLocation, RecordInv, RecordOf
    <3> QED
      BY <1>9, <2>3, <3>1, <3>2, StillBound DEF CheckLocation, RecordInv, Plays, Bound
  <2> QED
    BY <2>2, <2>3
<1>10. ASSUME NEW c \in Characters, CompleteGoal(c) PROVE RecordInv'
  <2>1. SUFFICES ASSUME NEW e \in Characters PROVE RecordOf(e)'
    BY DEF RecordInv
  <2>2. CASE e # c
    BY <1>10, <2>2, Untouched DEF CompleteGoal, RecordInv, TypeOK
  <2>3. CASE e = c
    <3>1. bound[c].slot \in Slots /\ bound[c].connected \in BOOLEAN
      BY <1>10, BoundType DEF CompleteGoal, Bindings
    <3>2. bound'[c] = Binding(bound[c].slot, TRUE, TRUE, bound[c].connected)
      BY <1>10 DEF CompleteGoal, TypeOK
    <3>3. Bound(c)' /\ bound'[c].slot = bound[c].slot
      <4>1. bound'[c] \in Bindings
        BY <3>1, <3>2, BindingType
      <4> QED
        <5>1. bound'[c] # None
          BY <4>1, NotNone
        <5>2. bound'[c].slot = bound[c].slot
          BY <3>2 DEF Binding
        <5> QED
          BY <5>1, <5>2 DEF Bound
    <3>4. rows'[c] # None /\ rows'[c].slot = bound[c].slot
      <4>1. rows'[c] = [slot |-> bound[c].slot, goal |-> TRUE]
        BY <1>10 DEF CompleteGoal, TypeOK
      <4>2. rows'[c] \in Rows
        BY <3>1, <4>1 DEF Rows
      <4> QED
        <5>1. rows'[c] # None
          BY <4>2, NotNone
        <5>2. rows'[c].slot = bound[c].slot
          BY <4>1
        <5> QED
          BY <5>1, <5>2
    <3> QED
      BY <1>10, <2>3, <3>3, <3>4, StillBound DEF CompleteGoal, RecordInv
  <2> QED
    BY <2>2, <2>3
<1>11. ASSUME NEW c \in Characters, LinkLost(c) PROVE RecordInv'
  <2>1. SUFFICES ASSUME NEW e \in Characters PROVE RecordOf(e)'
    BY DEF RecordInv
  <2>2. CASE e # c
    BY <1>11, <2>2, Untouched DEF LinkLost, RecordInv, TypeOK
  <2>3. CASE e = c
    <3>1. bound'[c] = Unlinked(c) /\ Unlinked(c) # None
      BY <1>11, UnlinkedType, BindingAssumption DEF LinkLost, TypeOK, Bindings
    <3>2. bound'[c].slot = bound[c].slot /\ bound'[c].known = bound[c].known
      BY <3>1 DEF Unlinked, Binding
    <3> QED
      BY <1>11, <2>3, <3>1, <3>2 DEF LinkLost, RecordInv, RecordOf, Plays, Current, Bound
  <2> QED
    BY <2>2, <2>3
<1>12. ASSUME Crash PROVE RecordInv'
  BY <1>12 DEF Crash, RecordInv, RecordOf, Plays, Current, Bound
<1>13. ASSUME NewSeed PROVE RecordInv'
  <2>1. SUFFICES ASSUME NEW e \in Characters PROVE RecordOf(e)'
    BY DEF RecordInv
  <2>2. Bound(e)' <=> Bound(e)
    BY <1>13, UnlinkedType, BindingAssumption DEF NewSeed, Bound, Bindings
  <2>3. Bound(e) => bound'[e].slot = bound[e].slot /\ bound'[e].known = bound[e].known
    BY <1>13 DEF NewSeed, Unlinked, Binding
  <2>4. ASSUME NEW s \in Slots, Played(e), <<e, s>> \in accepts PROVE <<e, s>> \in accepts'
    <3>1. \A play \in accepts \ accepts' : ~Played(play[1])
      BY <1>13 DEF NewSeed
    <3> QED
      BY <2>4, <3>1
  <2>5. \A check \in checkRows[e] : Plays(e, check.slot)'
    BY <1>0, <1>13, <2>2, <2>3, <2>4 DEF NewSeed, RecordInv, RecordOf, Plays, Played
  <2>6. Bound(e) /\ bound[e].known => Plays(e, bound[e].slot)'
    BY <1>13, <2>2, <2>3, <2>4, BoundType DEF NewSeed, RecordInv, RecordOf, Plays, Played
  <2> QED
    BY <1>13, <2>2, <2>3, <2>5, <2>6 DEF NewSeed, RecordInv, RecordOf, Current
<1>14. CASE UNCHANGED vars
  BY <1>14, Untouched DEF vars, RecordInv
<1> QED
  BY <1>1, <1>2, <1>3, <1>4, <1>5, <1>6, <1>7, <1>8, <1>9, <1>10, <1>11, <1>12, <1>13, <1>14 DEF Next

LEMMA StepOld ==
    ASSUME ~RefusesPlayed, TypeOK, RecordInv, OldChecksStayOut, [Next]_vars
    PROVE  OldChecksStayOut'
<1>1. ASSUME NEW c \in Characters, SlotConnected(c) PROVE OldChecksStayOut'
  <2>1. PICK missed \in {{}, {Done(c)}} :
           delivered' = [delivered EXCEPT ![bound[c].slot] = @ \union checkRows[c] \union missed]
    BY <1>1 DEF SlotConnected
  <2>2. Bound(c) /\ tenure' = tenure /\ raced' = raced
    BY <1>1 DEF SlotConnected
  <2>3. \A check \in checkRows[c] \union missed : check.slot = bound[c].slot /\ Current(check)
    <3>1. \A check \in checkRows[c] : check.slot = bound[c].slot /\ Current(check)
      BY <2>2 DEF RecordInv, RecordOf, Plays
    <3>2. Done(c).slot = bound[c].slot /\ Current(Done(c))
      BY <2>2, DoneIsCurrent
    <3> QED
      BY <3>1, <3>2
  <2> QED
    BY <2>1, <2>2, <2>3 DEF OldChecksStayOut, Current, TypeOK
<1>2. ASSUME NEW c \in Characters, CheckLocation(c) PROVE OldChecksStayOut'
  <2>1. Bound(c) /\ tenure' = tenure /\ raced' = raced
    BY <1>2 DEF CheckLocation
  <2>2. Done(c).slot = bound[c].slot /\ Current(Done(c))
    BY <2>1, DoneIsCurrent
  <2> QED
    BY <1>2, <2>1, <2>2 DEF CheckLocation, OldChecksStayOut, Current, TypeOK
<1>3. ASSUME NEW c \in Characters, NEW s \in Slots, NEW d \in Characters, TakeOver(c, s, d) PROVE OldChecksStayOut'
  BY <1>3 DEF TakeOver, OldChecksStayOut, TypeOK
<1>4. ASSUME UNCHANGED <<delivered, tenure>>, raced \subseteq raced' PROVE OldChecksStayOut'
  BY <1>4 DEF OldChecksStayOut
<1>5. ASSUME NEW c \in Characters, SlotRefused(c) PROVE OldChecksStayOut'
  <2>1. Bound(c) /\ UNCHANGED <<tenure, raced>>
    BY <1>5 DEF SlotRefused
  <2>2. \A check \in Flushed(c) : check.slot = bound[c].slot /\ Current(check)
    BY <2>1, DoneIsCurrent DEF Flushed
  <2>3. \/ delivered' = delivered
        \/ delivered' = [delivered EXCEPT ![bound[c].slot] = @ \union Flushed(c)]
    BY <1>5 DEF SlotRefused
  <2> QED
    BY <2>1, <2>2, <2>3 DEF OldChecksStayOut, Current, TypeOK
<1> QED
  BY <1>1, <1>2, <1>3, <1>4, <1>5 DEF Next, vars, Login, Logout, Delete, ConnectFree, PeriodicSave,
     CompleteGoal, LinkLost, Crash, NewSeed

\* Where no seed refuses a character the slot it has played, a slot that was
\* taken over gets only checks of its new character, whatever else happens.
THEOREM OldChecksAlwaysOut ==
    ASSUME ~RefusesPlayed
    PROVE  Spec => []OldChecksStayOut
<1>1. Init => BindingInv
  BY InitType, InitShared, InitRecord DEF BindingInv
<1>2. BindingInv /\ [Next]_vars => BindingInv'
  BY StepType, StepShared, StepRecord, StepOld DEF BindingInv
<1>3. BindingInv => OldChecksStayOut
  BY DEF BindingInv
<1> QED
  BY <1>1, <1>2, <1>3, PTL DEF Spec
=============================================================================
