---------------------------- MODULE ItemDelivery ----------------------------
(***************************************************************************)
(* How the items of an Archipelago slot reach its character: the           *)
(* ReceivedItems handler of AP_Character with RewardItem, the position in  *)
(* the item list it keeps in the database, and what a reconnection, a      *)
(* logout or a crash of the worldserver makes of it.                       *)
(*                                                                         *)
(* The server replays the whole item list on every connection.  Rewards    *)
(* given once are told apart by itemIndex, which is saved; bonuses that    *)
(* are a sum over all copies are counted again in every login, with        *)
(* countedItemIndex, which is not.                                         *)
(*                                                                         *)
(* Positions in the item list start at 1: position 0 is the code's -1.     *)
(***************************************************************************)
EXTENDS Integers, Sequences, FiniteSets

CONSTANTS
    Kinds,        \* the kinds of items the slot can hold
    FoodTiers,    \* the number of steps of the progressive food track
    WeaponSlots,  \* heirlooms.weaponSlots
    MaxItems,     \* bound on the items the multiworld sends
    MaxFaults,    \* bound on lost connections, logouts and crashes together
    BadSlotData   \* whether the slot data can be one the module rejects

ASSUME DeliveryAssumption ==
    /\ Kinds \subseteq {"reward", "progressive", "food", "weapon"}
    /\ {FoodTiers, WeaponSlots, MaxItems, MaxFaults} \subseteq Nat
    /\ BadSlotData \in BOOLEAN

VARIABLES
    \* external: the multiworld and the connection to it
    items,             \* the slot's item list on the server
    slotDataGood,      \* whether this module accepts the slot's data
    linked,            \* the server has a connection to the character
    inbox,             \* the commands on their way or in the event queue
    faults,            \* how many faults there have been
    interrupted,       \* how many of them were crashes in the middle of a handler
    \* AP_Character
    online,            \* the AP_Character exists
    run,
    parsed,            \* its items container has been filled from slot data
    itemIndex,
    countedItemIndex,
    batch,             \* the rest of the ReceivedItems command being handled
    progressiveCount,  \* progressiveCounts of one percentage track
    foodCount,         \* progressiveCounts of the food track
    weaponsArrived,    \* heirloomWeaponSenders.size()
    weaponsSent,       \* heirloomWeaponsSent
    weapons,           \* the slots whose heirloom weapon has been chosen
    sending,           \* SendPendingHeirloomWeapons is running
    \* the module's database, written synchronously
    row,               \* item_index of the character's row, or None
    preferences,       \* the character's heirloom weapon preferences
    \* the core's mails, written by its asynchronous database worker
    outbox,            \* mails committed but not written yet
    mailed,            \* mails that are in the database
    lost               \* mails that were in the outbox when the server crashed

server == <<items, slotDataGood, linked, faults, interrupted>>
counters == <<progressiveCount, foodCount, weaponsArrived>>
memory == <<online, run, parsed, itemIndex, countedItemIndex, progressiveCount, foodCount,
            weaponsArrived, weaponsSent, weapons>>
database == <<row, preferences>>
mails == <<outbox, mailed, lost>>

vars == <<items, slotDataGood, linked, inbox, faults, interrupted, online, run, parsed, itemIndex,
          countedItemIndex, batch, progressiveCount, foodCount, weaponsArrived, weaponsSent,
          weapons, sending, row, preferences, outbox, mailed, lost>>

None == -1
Positions == 1 .. MaxItems

\* A mail is told apart by what it is for: the item at a position, the tier
\* that the food item at a position paid out, or a slot's heirloom weapon.
Mails == [kind : {"reward"}, at : Positions, tier : {0}]
         \union [kind : {"food"}, at : Positions, tier : 0 .. MaxItems]
         \union [kind : {"weapon"}, at : {0}, tier : 1 .. WeaponSlots]

NoBatch == [next |-> 1, last |-> 0]
Commands == [cmd : {"Connected"}, first : {0}, last : {0}, good : BOOLEAN]
            \union [cmd : {"ReceivedItems"}, first : Positions, last : 0 .. MaxItems, good : {TRUE}]

\* Positions and counts never run ahead of the item list, no more weapons
\* go out than there are slots, and the rest stays in its type.
TypeOK ==
    /\ items \in Seq(Kinds) /\ Len(items) <= MaxItems
    /\ {slotDataGood, linked, online, run, parsed, sending} \subseteq BOOLEAN
    /\ inbox \in Seq(Commands)
    /\ faults \in 0 .. MaxFaults
    /\ interrupted \in 0 .. faults
    /\ {itemIndex, countedItemIndex} \subseteq 0 .. Len(items)
    /\ batch \in [next : 1 .. MaxItems + 1, last : 0 .. MaxItems]
    /\ {progressiveCount, foodCount, weaponsArrived} \subseteq 0 .. Len(items)
    /\ weaponsSent \in 0 .. WeaponSlots
    /\ weapons \subseteq 1 .. WeaponSlots
    /\ row \in {None} \union (0 .. Len(items))
    /\ preferences \in [sent : 0 .. WeaponSlots, chosen : SUBSET (1 .. WeaponSlots)]
    /\ outbox \in Seq(Mails)
    /\ mailed \in [Mails -> Nat]
    /\ lost \subseteq Mails

\* A character bound to the slot but never connected yet.
Init ==
    /\ items = << >>
    /\ slotDataGood \in {TRUE, ~BadSlotData}
    /\ linked = FALSE
    /\ inbox = << >>
    /\ faults = 0
    /\ interrupted = 0
    /\ online = TRUE
    /\ run = TRUE
    /\ parsed = FALSE
    /\ itemIndex = 0
    /\ countedItemIndex = 0
    /\ batch = NoBatch
    /\ progressiveCount = 0
    /\ foodCount = 0
    /\ weaponsArrived = 0
    /\ weaponsSent = 0
    /\ weapons = {}
    /\ sending = FALSE
    /\ row = None
    /\ preferences = [sent |-> 0, chosen |-> {}]
    /\ outbox = << >>
    /\ mailed = [m \in Mails |-> 0]
    /\ lost = {}

-----------------------------------------------------------------------------
(* The multiworld (external). *)

ReceivedItems(first, last) == [cmd |-> "ReceivedItems", first |-> first, last |-> last, good |-> TRUE]
Connected == [cmd |-> "Connected", first |-> 0, last |-> 0, good |-> slotDataGood]

\* Somebody finds an item of this slot; a connected client is told.
ItemFound(kind) ==
    /\ Len(items) < MaxItems
    /\ items' = Append(items, kind)
    /\ inbox' = IF linked THEN Append(inbox, ReceivedItems(Len(items) + 1, Len(items) + 1)) ELSE inbox
    /\ UNCHANGED <<slotDataGood, linked, faults, interrupted, memory, batch, sending, database, mails>>

\* The slot is entered: the server answers with the slot data and, in the
\* same packet, every item so far.
Link ==
    /\ online /\ run /\ ~linked
    /\ inbox = << >>
    /\ linked' = TRUE
    /\ inbox' = << Connected >> \o (IF items = << >> THEN << >> ELSE << ReceivedItems(1, Len(items)) >>)
    /\ UNCHANGED <<items, slotDataGood, faults, interrupted, memory, batch, sending, database, mails>>

\* The connection is lost with what has not reached the event queue yet.
LinkLost ==
    /\ linked
    /\ faults < MaxFaults
    /\ faults' = faults + 1
    /\ linked' = FALSE
    /\ \E n \in 0 .. Len(inbox) : inbox' = SubSeq(inbox, 1, n)
    /\ UNCHANGED <<items, slotDataGood, interrupted, memory, batch, sending, database, mails>>

\* The apworld or the module is brought to a version that fits the other,
\* while nobody is logged in.
VersionsFixed ==
    /\ ~online /\ ~slotDataGood
    /\ slotDataGood' = TRUE
    /\ UNCHANGED <<items, linked, inbox, faults, interrupted, memory, batch, sending, database, mails>>

-----------------------------------------------------------------------------
(* The handlers, on the game thread. *)

Idle == online /\ ~sending /\ batch = NoBatch

\* A mail is committed to the core's database worker.
Mail(kind, at, tier) == outbox' = Append(outbox, [kind |-> kind, at |-> at, tier |-> tier])

\* APSlotConnectedHandler: slot data that cannot be parsed, or that is for
\* another class or race, ends the character's run; the commands behind it
\* are still handled.
SlotConnected ==
    /\ Idle
    /\ inbox # << >> /\ Head(inbox).cmd = "Connected"
    /\ inbox' = Tail(inbox)
    /\ IF Head(inbox).good
         THEN /\ parsed' = TRUE
              /\ row' = itemIndex
              /\ UNCHANGED run
         ELSE /\ run' = FALSE
              /\ UNCHANGED <<parsed, row>>
    /\ UNCHANGED <<server, online, itemIndex, countedItemIndex, counters, weaponsSent, weapons,
                   batch, sending, preferences, mails>>

ItemsReceived ==
    /\ Idle
    /\ inbox # << >> /\ Head(inbox).cmd = "ReceivedItems"
    /\ inbox' = Tail(inbox)
    /\ batch' = [next |-> Head(inbox).first, last |-> Head(inbox).last]
    /\ UNCHANGED <<server, memory, sending, database, mails>>

\* Whether the item at this position was rewarded, or counted, before.
\* Definitions named for a slip are mistaken variants of the one they
\* precede; nothing uses them but the runs that show a property can fail.
AlreadyRewardedForgotten(i) == FALSE
AlreadyRewardedOffByOne(i) == itemIndex + 1 >= i
AlreadyRewarded(i) == itemIndex >= i

AlreadyCountedForgotten(i) == FALSE
AlreadyCountedAsRewarded(i) == itemIndex >= i
AlreadyCounted(i) == countedItemIndex >= i

\* RewardItem, by the kind of the item.  An item that the slot data, absent
\* or rejected, does not name is ignored.
RewardUnknown ==
    /\ ~parsed
    /\ UNCHANGED <<counters, sending, outbox>>

RewardMailed(i) ==
    /\ parsed
    /\ items[i] = "reward"
    /\ IF AlreadyRewarded(i) THEN UNCHANGED outbox ELSE Mail("reward", i, 0)
    /\ UNCHANGED <<counters, sending>>

RewardProgressive(i) ==
    /\ parsed
    /\ items[i] = "progressive"
    /\ progressiveCount' = progressiveCount + IF AlreadyCounted(i) THEN 0 ELSE 1
    /\ UNCHANGED <<foodCount, weaponsArrived, sending, outbox>>

\* The food tracks are counted, and pay out the tier the count has reached.
RewardFood(i) ==
    /\ parsed
    /\ items[i] = "food"
    /\ foodCount' = foodCount + IF AlreadyCounted(i) THEN 0 ELSE 1
    /\ IF ~AlreadyRewarded(i) /\ foodCount' \in 1 .. FoodTiers
         THEN Mail("food", i, foodCount')
         ELSE UNCHANGED outbox
    /\ UNCHANGED <<progressiveCount, weaponsArrived, sending>>

RewardWeapon(i) ==
    /\ parsed
    /\ items[i] = "weapon"
    /\ weaponsArrived' = weaponsArrived + IF AlreadyCounted(i) THEN 0 ELSE 1
    /\ sending' = TRUE
    /\ UNCHANGED <<progressiveCount, foodCount, outbox>>

\* One turn of the loop in APReceivedItemsHandler.
RewardNext ==
    /\ online /\ ~sending
    /\ batch.next <= batch.last
    /\ LET i == batch.next IN
         RewardUnknown \/ RewardMailed(i) \/ RewardProgressive(i) \/ RewardFood(i) \/ RewardWeapon(i)
    /\ batch' = [batch EXCEPT !.next = @ + 1]
    /\ UNCHANGED <<server, inbox, online, run, parsed, itemIndex, countedItemIndex, weaponsSent,
                   weapons, database, mailed, lost>>

Larger(a, b) == IF a > b THEN a ELSE b

\* The end of APReceivedItemsHandler: both positions move to the newest item
\* of the command, and a new itemIndex is saved.
SavedIndexForgotten(i) == row
SavedIndex(i) == i

BatchEnds ==
    /\ online /\ ~sending
    /\ batch # NoBatch
    /\ batch.next > batch.last
    /\ batch' = NoBatch
    /\ countedItemIndex' = Larger(countedItemIndex, batch.last)
    /\ itemIndex' = Larger(itemIndex, batch.last)
    /\ row' = IF itemIndex' # itemIndex THEN SavedIndex(itemIndex') ELSE row
    /\ UNCHANGED <<server, inbox, online, run, parsed, counters, weaponsSent, weapons, sending,
                   preferences, mails>>

\* GetPendingHeirloomWeapons, and the choice the next one waits for.
ArrivedWeapons == IF weaponsArrived < WeaponSlots THEN weaponsArrived ELSE WeaponSlots
WeaponCanGo == weaponsSent < ArrivedWeapons /\ weaponsSent + 1 \in weapons

\* SendPendingHeirloomWeapons: one mail after the other, then the save.
SendWeapon ==
    /\ sending /\ WeaponCanGo
    /\ Mail("weapon", 0, weaponsSent + 1)
    /\ weaponsSent' = weaponsSent + 1
    /\ UNCHANGED <<server, inbox, online, run, parsed, itemIndex, countedItemIndex, counters,
                   weapons, batch, sending, database, mailed, lost>>

SentUnsaved == preferences
SentSaved == [preferences EXCEPT !.sent = weaponsSent]

SendingEnds ==
    /\ sending /\ ~WeaponCanGo
    /\ sending' = FALSE
    /\ preferences' = SentSaved
    /\ UNCHANGED <<server, inbox, memory, batch, row, mails>>

\* The player fills a slot in the stone's preferences.
SetHeirloomWeapon(slot) ==
    /\ Idle /\ run /\ parsed
    /\ slot > weaponsSent
    /\ slot \notin weapons
    /\ weapons' = weapons \union {slot}
    /\ preferences' = [preferences EXCEPT !.chosen = weapons']
    /\ sending' = TRUE
    /\ UNCHANGED <<server, inbox, online, run, parsed, itemIndex, countedItemIndex, counters,
                   weaponsSent, batch, row, mails>>

-----------------------------------------------------------------------------
(* The character's life. *)

\* What is gone with the AP_Character.
Freed ==
    /\ online' = FALSE
    /\ linked' = FALSE
    /\ inbox' = << >>
    /\ batch' = NoBatch
    /\ sending' = FALSE
    /\ UNCHANGED <<run, parsed, itemIndex, countedItemIndex, counters, weaponsSent, weapons>>

\* Update saves every 15 seconds.
PeriodicSave ==
    /\ Idle /\ run
    /\ row' = itemIndex
    /\ UNCHANGED <<server, inbox, memory, batch, sending, preferences, mails>>

\* OnWorldUpdate frees the character whose run has ended, without a save.
RunEnded ==
    /\ Idle /\ ~run
    /\ Freed
    /\ UNCHANGED <<items, slotDataGood, faults, interrupted, database, mails>>

Logout ==
    /\ Idle /\ run
    /\ faults < MaxFaults
    /\ faults' = faults + 1
    /\ row' = itemIndex
    /\ Freed
    /\ UNCHANGED <<items, slotDataGood, interrupted, preferences, mails>>

\* LoadFromDatabase and LoadPreferences; without a row the player connects
\* the slot anew.
Login ==
    /\ ~online
    /\ online' = TRUE
    /\ run' = TRUE
    /\ parsed' = FALSE
    /\ itemIndex' = Larger(row, 0)
    /\ countedItemIndex' = 0
    /\ progressiveCount' = 0
    /\ foodCount' = 0
    /\ weaponsArrived' = 0
    /\ weaponsSent' = preferences.sent
    /\ weapons' = preferences.chosen
    /\ UNCHANGED <<server, inbox, batch, sending, database, mails>>

\* The core's database worker writes the next mail.
MailWritten ==
    /\ outbox # << >>
    /\ mailed' = [mailed EXCEPT ![Head(outbox)] = @ + 1]
    /\ outbox' = Tail(outbox)
    /\ UNCHANGED <<server, inbox, memory, batch, sending, database, lost>>

\* The worldserver dies between any two steps.
Crash ==
    /\ online \/ outbox # << >>
    /\ faults < MaxFaults
    /\ faults' = faults + 1
    /\ interrupted' = interrupted + IF batch # NoBatch \/ sending THEN 1 ELSE 0
    /\ Freed
    /\ lost' = lost \union {outbox[k] : k \in DOMAIN outbox}
    /\ outbox' = << >>
    /\ UNCHANGED <<items, slotDataGood, database, mailed>>

-----------------------------------------------------------------------------

Handle == SlotConnected \/ ItemsReceived \/ RewardNext \/ BatchEnds \/ SendWeapon \/ SendingEnds

Next ==
    \/ \E kind \in Kinds : ItemFound(kind)
    \/ Link \/ LinkLost \/ VersionsFixed
    \/ Handle
    \/ \E slot \in 1 .. WeaponSlots : SetHeirloomWeapon(slot)
    \/ PeriodicSave \/ RunEnded \/ Logout \/ Login \/ MailWritten \/ Crash

Spec == Init /\ [][Next]_vars

\* The world update polls and handles what is drained, the client keeps
\* reconnecting, the database worker writes, and the player comes back;
\* finding items, choosing weapons and faults are up to their actors.
Fairness ==
    /\ WF_vars(Handle)
    /\ WF_vars(RunEnded)
    /\ WF_vars(Link)
    /\ WF_vars(MailWritten)
    /\ WF_vars(Login)

FairSpec == Spec /\ Fairness

-----------------------------------------------------------------------------
(* Properties *)

Occurrences(m, queue) == Cardinality({k \in DOMAIN queue : queue[k] = m})
Copies(m) == mailed[m] + Occurrences(m, outbox)

\* The items of a kind up to a position.
Places(list, kind, i) == {j \in 1 .. i : j <= Len(list) /\ list[j] = kind}
OfKind(kind, i) == Places(items, kind, i)

\* The mail an item at this position is due, if any.
Due(i) ==
    {[kind |-> "reward", at |-> j, tier |-> 0] : j \in OfKind("reward", i) \ (1 .. i - 1)}
    \union {m \in [kind : {"food"}, at : OfKind("food", i) \ (1 .. i - 1),
                    tier : {Cardinality(OfKind("food", i))}] : m.tier <= FoodTiers}

\* No reward is given twice, whatever reconnections, logouts and refused
\* slot data do to the replay: only a crash between a reward and the save
\* behind it, in the middle of APReceivedItemsHandler or
\* SendPendingHeirloomWeapons, can repeat one, and each such crash at most
\* once; a crash at any other time repeats nothing.
NoRepeatedReward == \A m \in Mails : Copies(m) <= 1 + interrupted

\* A position that is recorded as rewarded really was: each of the items up
\* to it has its mail written, on its way, or lost by a crash of the core.
RecordedIsRewarded ==
    \A i \in 1 .. row : \A m \in Due(i) : Copies(m) > 0 \/ m \in lost

\* A food item pays out the tier that its place among the food items says,
\* and nothing else is ever mailed for it.
RightTier ==
    \A m \in Mails : m.kind = "food" /\ Copies(m) > 0 => m \in Due(m.at)

\* Between batches the bonuses are worth exactly the items seen this login:
\* replays count no copy twice and relogs lose none.
CountsAreSums ==
    online /\ parsed /\ batch = NoBatch =>
        /\ progressiveCount = Cardinality(OfKind("progressive", countedItemIndex))
        /\ foodCount = Cardinality(OfKind("food", countedItemIndex))
        /\ weaponsArrived = Cardinality(OfKind("weapon", countedItemIndex))

\* Every item that is found is rewarded in the end, whenever it is found
\* and whatever is lost: the replay on the next connection makes up for it.
EverythingArrives ==
    \A i \in Positions :
        (i <= Len(items)) ~> (\A m \in Due(i) : mailed[m] > 0 \/ m \in lost)

\* An heirloom weapon that has arrived goes out once it and the ones before
\* it are chosen, even when the slot data was refused while it arrived: its
\* count is taken anew in every login.
WeaponMail(slot) == [kind |-> "weapon", at |-> 0, tier |-> slot]
ChosenWeaponsArrive ==
    \A slot \in 1 .. WeaponSlots :
        /\ slotDataGood
        /\ 1 .. slot \subseteq preferences.chosen
        /\ Cardinality(OfKind("weapon", MaxItems)) >= slot
        ~> (mailed[WeaponMail(slot)] > 0 \/ WeaponMail(slot) \in lost)
=============================================================================
