-------------------------------- MODULE Traps -------------------------------
(***************************************************************************)
(* Traps and world buffs, the items that may have to wait for the          *)
(* character: ReceiveTrap, SpringPendingTraps and SpringTrap of            *)
(* AP_Character, CanSpring and UpdateBombRun of AP_Traps, the world buffs  *)
(* that wait for a resurrection, and the preferences row that keeps both.  *)
(*                                                                         *)
(* AP_Character::Update is split into the steps between which a crash      *)
(* shows: the traps it springs one by one, the bombs, and Poll with the    *)
(* items it hands over.  GameTime only moves between updates.  That a      *)
(* replayed item is passed over is the business of ItemDelivery: here the  *)
(* items behind the recorded position arrive.                              *)
(***************************************************************************)
EXTENDS Integers, Sequences, FiniteSets, SequencesExt

CONSTANTS
    Kinds,         \* the kinds of items in play
    MaxItems,      \* bound on the items received
    Hold,          \* TRAP_DELAY_AFTER_TELEPORT, in moments of GameTime
    BombsPerTrap,  \* BOMBS_PER_TRAP
    MaxCrashes     \* bound on the crashes of the worldserver

\* "aura" stands for the traps that only need CanSpring's common conditions,
\* "ambush" for the Sheep and Ambush Traps.
TrapKinds == {"aura", "ambush", "bombs", "teleport"}

ASSUME TrapsAssumption ==
    /\ Kinds \subseteq TrapKinds \union {"buff"}
    /\ {MaxItems, BombsPerTrap, MaxCrashes} \subseteq Nat
    /\ Hold \in Nat \ {0}    \* three seconds

VARIABLES
    \* external: the items of the slot, and what the core knows of the player
    items,         \* the kinds of the items the multiworld will have sent in the end
    player,        \* where the player is, see Places
    crashes,       \* how many crashes there have been
    \* AP_Character
    online,
    known,         \* the slot data has arrived in this login (maxLevel # 0)
    pendingTraps,  \* the positions of the traps that wait, in order
    hold,          \* what is left of trapsHeldUntil
    bombRun,       \* the bombs of the run yet to drop or to explode; 0 without one
    pendingWorldBuffs,
    \* the update in progress
    step,          \* what it does next
    next,          \* the next trap of pendingTraps, or the next item
    last,          \* the last item of the command being handled
    waiting,       \* `waiting` of SpringPendingTraps
    \* the module's database, written synchronously
    savedTraps,    \* pendingTraps of the preferences row
    savedBuffs,    \* pendingWorldBuffs of the preferences row
    recorded,      \* itemIndex of the character's row
    \* history
    sprung,        \* how often each trap has sprung
    applied,       \* how many world buffs have been applied
    dropped,       \* how many world buffs could not be applied, and are gone
    able,          \* the traps that could spring when they were received
    aboard,        \* the traps that an update found waiting on the last journey
    stood,         \* time has passed since the last landing
    interrupted    \* a crash fell into a handler

handled == <<next, last, waiting>>
row == <<savedTraps, savedBuffs>>
buffs == <<pendingWorldBuffs, savedBuffs, applied, dropped>>

vars == <<items, player, crashes, online, known, pendingTraps, hold, bombRun, pendingWorldBuffs,
          step, next, last, waiting, savedTraps, savedBuffs, recorded, sprung, applied, dropped,
          able, aboard, stood, interrupted>>

\* "travelling": between two places of a teleport; "away": in flight on a taxi,
\* in a vehicle or in a battleground; "mounted": on a mount on the ground;
\* "flying": on one in the air; "falling": in a jump or a fall.  "dead" is dead
\* wherever the ghost goes.
Places == {"free", "mounted", "flying", "falling", "instance", "away", "dead", "travelling"}
Positions == 1 .. MaxItems

\* The variables keep their types, and without a character nothing waits in
\* memory.
TypeOK ==
    /\ items \in [Positions -> Kinds]
    /\ player \in Places
    /\ crashes \in 0 .. MaxCrashes
    /\ {online, known, stood, interrupted} \subseteq BOOLEAN
    /\ {pendingTraps, waiting, savedTraps} \subseteq Seq(Positions)
    /\ hold \in 0 .. Hold
    /\ bombRun \in 0 .. BombsPerTrap
    /\ {pendingWorldBuffs, savedBuffs} \subseteq 0 .. 255    \* uint8
    /\ step \in {"idle", "springing", "bombs", "poll", "items"}
    /\ next \in Nat /\ last \in 0 .. MaxItems
    /\ recorded \in 0 .. MaxItems
    /\ sprung \in [Positions -> Nat] /\ {applied, dropped} \subseteq Nat
    /\ able \union aboard \subseteq Positions
    /\ ~online => pendingTraps = <<>> /\ bombRun = 0 /\ hold = 0 /\ ~known /\ step = "idle"

Init ==
    /\ items \in [Positions -> Kinds] /\ player = "free" /\ crashes = 0
    /\ online = FALSE /\ known = FALSE
    /\ pendingTraps = <<>> /\ hold = 0 /\ bombRun = 0 /\ pendingWorldBuffs = 0
    /\ step = "idle" /\ next = 0 /\ last = 0 /\ waiting = <<>>
    /\ savedTraps = <<>> /\ savedBuffs = 0 /\ recorded = 0
    /\ sprung = [n \in Positions |-> 0] /\ applied = 0 /\ dropped = 0
    /\ able = {} /\ aboard = {} /\ stood = TRUE /\ interrupted = FALSE

-----------------------------------------------------------------------------
(* Traps                                                                   *)

CanSpring(kind) ==
    /\ player \notin {"dead", "travelling", "away"}
    /\ kind = "ambush" => player # "flying"
    /\ kind = "bombs" => player \notin {"flying", "mounted"}
    /\ kind = "teleport" => player \notin {"instance", "falling"}

Springs(n) == CanSpring(items[n]) /\ ~(items[n] = "bombs" /\ bombRun > 0)

SavePreferences(traps, count) == savedTraps' = traps /\ savedBuffs' = count

\* std::ranges::find on pendingTraps
FirstTeleport == SelectInSeq(pendingTraps, LAMBDA n : items[n] = "teleport")

TeleportDue == FirstTeleport # 0 /\ CanSpring("teleport")

\* trapsHeldUntil while the player is being teleported
HeldOnTheWayNot == hold
HeldOnTheWayAdded == hold + Hold
HeldOnTheWay == Hold

\* The update begins, and some time may have passed since the last one.  The
\* hold is renewed on the way; a Teleport Trap goes first and alone.
SpringPendingTraps ==
    /\ online /\ step = "idle"
    /\ \E elapsed \in {0, 1} :
        LET left == IF hold > elapsed THEN hold - elapsed ELSE 0
            due == pendingTraps # <<>> /\ known
        IN  /\ stood' = (stood \/ (elapsed = 1 /\ player # "travelling"))
            /\ \/ /\ ~due
                  /\ step' = "bombs" /\ hold' = left
                  /\ UNCHANGED <<player, pendingTraps, row, sprung, aboard, handled>>
               \/ /\ due /\ player = "travelling"
                  /\ step' = "bombs" /\ hold' = HeldOnTheWay
                  /\ aboard' = aboard \union ToSet(pendingTraps)
                  /\ UNCHANGED <<player, pendingTraps, row, sprung, handled>>
               \/ /\ due /\ player # "travelling" /\ left > 0
                  /\ step' = "bombs" /\ hold' = left
                  /\ UNCHANGED <<player, pendingTraps, row, sprung, aboard, handled>>
               \/ /\ due /\ player # "travelling" /\ left = 0 /\ TeleportDue
                  /\ pendingTraps' = RemoveAt(pendingTraps, FirstTeleport)
                  /\ SavePreferences(pendingTraps', pendingWorldBuffs)
                  /\ sprung' = [sprung EXCEPT ![pendingTraps[FirstTeleport]] = @ + 1]
                  /\ player' \in {"travelling", player}
                  /\ aboard' = {}
                  /\ step' = "bombs" /\ hold' = Hold
                  /\ UNCHANGED handled
               \/ /\ due /\ player # "travelling" /\ left = 0 /\ ~TeleportDue
                  /\ step' = "springing" /\ next' = 1 /\ waiting' = <<>> /\ hold' = 0
                  /\ UNCHANGED <<player, pendingTraps, row, sprung, aboard, last>>
    /\ UNCHANGED <<items, crashes, online, known, bombRun, pendingWorldBuffs, recorded, applied,
                   dropped, able, interrupted>>

\* The loop over pendingTraps
SpringTrap ==
    /\ step = "springing" /\ next <= Len(pendingTraps)
    /\ LET n == pendingTraps[next]
       IN  IF Springs(n)
           THEN /\ sprung' = [sprung EXCEPT ![n] = @ + 1]
                /\ bombRun' = IF items[n] = "bombs" THEN BombsPerTrap ELSE bombRun
                /\ UNCHANGED waiting
           ELSE waiting' = Append(waiting, n) /\ UNCHANGED <<sprung, bombRun>>
    /\ next' = next + 1
    /\ UNCHANGED <<items, player, crashes, online, known, pendingTraps, hold, pendingWorldBuffs,
                   step, last, row, recorded, applied, dropped, able, aboard, stood, interrupted>>

\* What is saved when traps have sprung
StillWaitingForgotten == savedTraps
StillWaiting == waiting

SpringingEnds ==
    /\ step = "springing" /\ next > Len(pendingTraps)
    /\ IF Len(waiting) # Len(pendingTraps)
       THEN pendingTraps' = waiting /\ SavePreferences(StillWaiting, pendingWorldBuffs)
       ELSE UNCHANGED <<pendingTraps, row>>
    /\ step' = "bombs" /\ next' = 0 /\ waiting' = <<>>
    /\ UNCHANGED <<items, player, crashes, online, known, hold, bombRun, pendingWorldBuffs, last,
                   recorded, sprung, applied, dropped, able, aboard, stood, interrupted>>

\* UpdateBombRun: cut short by death and teleports, some time drops or sets
\* off a bomb, which may kill; without a run nothing happens.
UpdateBombRun ==
    /\ step = "bombs"
    /\ \/ /\ bombRun > 0 /\ player \in {"dead", "travelling"}
          /\ bombRun' = 0 /\ UNCHANGED player
       \/ /\ bombRun > 0 /\ player \notin {"dead", "travelling"}
          /\ \/ bombRun' = bombRun - 1 /\ UNCHANGED player
             \/ bombRun' = 0 /\ player' = "dead"
       \/ UNCHANGED <<bombRun, player>>
    /\ step' = "poll"
    /\ UNCHANGED <<items, crashes, online, known, pendingTraps, hold, pendingWorldBuffs, handled, row,
                   recorded, sprung, applied, dropped, able, aboard, stood, interrupted>>

-----------------------------------------------------------------------------
(* Poll                                                                    *)

\* APSlotConnectedHandler, or nothing of interest
Poll ==
    /\ step = "poll" /\ step' = "idle"
    /\ known' \in {known, TRUE}
    /\ UNCHANGED <<items, player, crashes, online, pendingTraps, hold, bombRun, pendingWorldBuffs,
                   handled, row, recorded, sprung, applied, dropped, able, aboard, stood, interrupted>>

\* APReceivedItemsHandler begins: as many of the items behind the recorded
\* position as have been sent by now
ItemsReceived ==
    /\ step = "poll" /\ known /\ recorded < MaxItems
    /\ step' = "items" /\ next' = recorded + 1
    /\ last' \in recorded + 1 .. MaxItems
    /\ UNCHANGED <<items, player, crashes, online, known, pendingTraps, hold, bombRun,
                   pendingWorldBuffs, waiting, row, recorded, sprung, applied, dropped, able, aboard,
                   stood, interrupted>>

\* Whether ReceiveTrap saves the queue at once
SavedAtOnceNot(n) == FALSE
SavedAtOnce(n) == ~CanSpring(items[n])

ReceiveTrap ==
    /\ step = "items" /\ next <= last /\ items[next] \in TrapKinds
    /\ pendingTraps' = Append(pendingTraps, next)
    /\ able' = IF CanSpring(items[next]) THEN able \union {next} ELSE able
    /\ IF SavedAtOnce(next)
       THEN SavePreferences(pendingTraps', pendingWorldBuffs)
       ELSE UNCHANGED row
    /\ next' = next + 1
    /\ UNCHANGED <<items, player, crashes, online, known, hold, bombRun, pendingWorldBuffs, step,
                   last, waiting, recorded, sprung, applied, dropped, aboard, stood, interrupted>>

\* Buffs drawn for a living player, on the way or not.  One is gone for good
\* when there is none to draw, its spell is unknown or AddAura fails.
Tried(count) ==
    \E failed \in 0 .. count :
        applied' = applied + count - failed /\ dropped' = dropped + failed

ApplyWorldBuff ==
    /\ step = "items" /\ next <= last /\ items[next] = "buff"
    /\ IF player = "dead"
       THEN /\ pendingWorldBuffs' = (pendingWorldBuffs + 1) % 256
            /\ SavePreferences(pendingTraps, pendingWorldBuffs')
            /\ UNCHANGED <<applied, dropped>>
       ELSE Tried(1) /\ UNCHANGED <<pendingWorldBuffs, row>>
    /\ next' = next + 1
    /\ UNCHANGED <<items, player, crashes, online, known, pendingTraps, hold, bombRun, step, last,
                   waiting, recorded, sprung, able, aboard, stood, interrupted>>

\* SavePreferences behind the buffs that have been tried
BuffsSavedForgotten == savedBuffs
BuffsSaved == 0

\* `place` is where the player is by then.
ApplyPendingWorldBuffs(place) ==
    IF pendingWorldBuffs > 0 /\ place # "dead" /\ known
    THEN /\ Tried(pendingWorldBuffs)
         /\ pendingWorldBuffs' = 0
         /\ SavePreferences(pendingTraps, BuffsSaved)
    ELSE UNCHANGED <<buffs, savedTraps>>

\* The end of APReceivedItemsHandler, SaveToDatabase included
ItemsEnd ==
    /\ step = "items" /\ next > last
    /\ ApplyPendingWorldBuffs(player)
    /\ recorded' = last
    /\ step' = "idle" /\ next' = 0 /\ last' = 0
    /\ UNCHANGED <<items, player, crashes, online, known, pendingTraps, hold, bombRun, waiting,
                   sprung, able, aboard, stood, interrupted>>

-----------------------------------------------------------------------------
(* The player and the server                                               *)

\* Between two updates the player goes elsewhere, dies, is resurrected
\* (OnPlayerResurrect), sets out or lands.
Move ==
    /\ online /\ step = "idle"
    /\ player' \in Places \ {player}
    /\ {player, player'} # {"dead", "travelling"}
    /\ stood' = (stood /\ player # "travelling")
    /\ aboard' = IF player' = "travelling" THEN {} ELSE aboard
    /\ IF player = "dead"
       THEN ApplyPendingWorldBuffs(player')
       ELSE UNCHANGED <<buffs, savedTraps>>
    /\ UNCHANGED <<items, crashes, online, known, pendingTraps, hold, bombRun, step, handled, recorded,
                   sprung, able, interrupted>>

\* The AP_Character is gone, with all that was only in memory.
Gone ==
    /\ online' = FALSE /\ known' = FALSE /\ step' = "idle"
    /\ pendingTraps' = <<>> /\ hold' = 0 /\ bombRun' = 0 /\ pendingWorldBuffs' = 0
    /\ next' = 0 /\ last' = 0 /\ waiting' = <<>>
    /\ aboard' = {} /\ stood' = TRUE
    /\ UNCHANGED <<items, row, recorded, sprung, applied, dropped, able>>

\* OnPlayerBeforeLogout saves the row of the character, not its preferences.
Logout ==
    /\ online /\ step = "idle"
    /\ Gone
    /\ player' = IF player = "dead" THEN "dead" ELSE "free"
    /\ UNCHANGED <<crashes, interrupted>>

Crash ==
    /\ online /\ crashes < MaxCrashes
    /\ Gone
    /\ crashes' = crashes + 1
    /\ player' = IF player = "dead" THEN "dead" ELSE "free"
    /\ interrupted' = (interrupted \/ step # "idle")

\* LoadFromDatabase, with LoadPreferences
Login ==
    /\ ~online
    /\ online' = TRUE
    /\ pendingTraps' = savedTraps
    /\ pendingWorldBuffs' = savedBuffs
    /\ UNCHANGED <<items, player, crashes, known, hold, bombRun, step, handled, row, recorded, sprung,
                   applied, dropped, able, aboard, stood, interrupted>>

Next ==
    \/ SpringPendingTraps \/ SpringTrap \/ SpringingEnds \/ UpdateBombRun
    \/ Poll \/ ItemsReceived \/ ReceiveTrap \/ ApplyWorldBuff \/ ItemsEnd
    \/ Move \/ Logout \/ Crash \/ Login

Spec == Init /\ [][Next]_vars

-----------------------------------------------------------------------------
(* Properties                                                              *)

\* A trap that could not spring when it arrived is never lost: from the
\* moment its position is recorded it waits in the preferences or has sprung,
\* across crashes in any place.  (One that could spring is only in memory
\* until the next save.)
WaitingTrapsAreKept ==
    \A n \in 1 .. recorded :
        items[n] \in TrapKinds /\ n \notin able => n \in ToSet(savedTraps) \/ sprung[n] > 0

Occurrences(n, seq) == Cardinality({k \in DOMAIN seq : seq[k] = n})

\* Unless a crash fell into a handler, no trap springs twice, and what has
\* sprung is neither queued nor on record to spring again in another login.
TrapsSpringOnce ==
    step = "idle" /\ ~interrupted =>
        \A n \in DOMAIN sprung :
            /\ sprung[n] + Occurrences(n, pendingTraps) <= 1
            /\ sprung[n] + Occurrences(n, savedTraps) <= 1

BuffsUpTo(n) == Cardinality({k \in 1 .. n : items[k] = "buff"})

\* Unless a crash fell into a handler, every world buff recorded either waits
\* for the resurrection or has been tried, once, also across the logins in
\* between: one that fails is lost, but neither takes another that waits with
\* it nor is tried again.
BuffsAreAccounted ==
    step = "idle" /\ ~interrupted =>
        applied + dropped + savedBuffs = BuffsUpTo(recorded)

\* A trap that waited on a journey springs only after the character has stood
\* at the destination for a moment, and never ahead of a Teleport Trap that
\* could spring.
TrapsAwaitLanding ==
    [][\A n \in DOMAIN sprung : sprung'[n] > sprung[n] /\ items[n] # "teleport" =>
            /\ n \in aboard => stood
            /\ ~TeleportDue]_vars
=============================================================================
