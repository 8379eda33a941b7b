----------------------------- MODULE StoneShop -----------------------------
(***************************************************************************)
(* The shop of the Archipelago stone and the hints of a slot: AP_StoneShop *)
(* with the purchases it makes of location checks, the hints it asks for,  *)
(* the Scroll of Divination, which hints what is not hinted yet, and the   *)
(* list of hints that the server keeps and AP_Character holds a copy of.   *)
(*                                                                         *)
(* Gold is in the memory of the core, which saves it in its own time; a    *)
(* check is written to the module's database at once.                      *)
(***************************************************************************)
EXTENDS Naturals, Sequences, FiniteSets

CONSTANTS
    Items,        \* locations.shop: what the shop sells, at most MAX_VENDOR_ITEMS
    Later,        \* those of a later tier: on sale at a later level, at twice the price
    Others,       \* the other locations of the slot
    Coins,        \* the character's gold, in prices of the first tier
    ScrollHints,  \* SCROLL_OF_DIVINATION_HINTS
    MaxFaults,    \* bound on lost connections, logouts and crashes together
    MaxMessages   \* bound on the messages of either direction when one is added

ASSUME ShopAssumption ==
    /\ IsFiniteSet(Items) /\ IsFiniteSet(Others)
    /\ Items \intersect Others = {} /\ Later \subseteq Items
    /\ {Coins, ScrollHints, MaxFaults, MaxMessages} \subseteq Nat

Locations == Items \union Others

VARIABLES
    \* external: the core
    grown,            \* the character has reached the later level
    paid,             \* how often each item has been paid for
    paidSaved,        \* as of the core's last save of the character
    \* external: the connection and the server
    linkUp,
    toServer,         \* the requests on their way to the server
    inbox,            \* the commands on their way to the client
    reached,          \* the locations that are checked on the server
    hints,            \* the hints of the slot's locations
    notifying,        \* the server sends this connection the list when it changes
    missedHints,      \* the hints given between the answer to Get and SetNotify
    faults,           \* how many faults there have been
    \* Client
    slotConnected,    \* state = SlotConnected
    missing,          \* missingLocations
    \* AP_Character
    online,           \* the AP_Character exists
    checkedLocations,
    hintedLocations,
    \* the module's database, written synchronously
    table             \* the character's location_check rows

core == <<grown, paid, paidSaved>>
server == <<reached, hints, notifying, missedHints>>
connection == <<linkUp, toServer, inbox>>
memory == <<checkedLocations, hintedLocations>>

vars == <<grown, paid, paidSaved, linkUp, toServer, inbox, reached, hints, notifying, missedHints,
          faults, slotConnected, missing, online, checkedLocations, hintedLocations, table>>

Messages == [cmd : {"LocationChecks", "LocationScouts", "Get", "SetNotify",
                    "Connected", "RoomUpdate", "Hints"},
             locations : SUBSET Locations]
Message(cmd, locations) == [cmd |-> cmd, locations |-> locations]

\* GetPrice
Price(i) == IF i \in Later THEN 2 ELSE 1
\* The coins for each item, counted together
Spent(bought) == Cardinality(UNION {{i} \X (1 .. bought[i] * Price(i)) : i \in Items})

\* No more gold is spent than there is, and the rest stays in its type.
TypeOK ==
    /\ {paid, paidSaved} \subseteq [Items -> Nat] /\ Spent(paid) <= Coins
    /\ toServer \in Seq(Messages) /\ inbox \in Seq(Messages)
    /\ reached \union hints \union missedHints \union missing \union hintedLocations \subseteq Locations
    /\ checkedLocations \union table \subseteq Locations
    /\ {grown, linkUp, notifying, slotConnected, online} \subseteq BOOLEAN
    /\ faults \in 0 .. MaxFaults

Init ==
    /\ grown = FALSE
    /\ paid = [i \in Items |-> 0] /\ paidSaved = paid
    /\ linkUp = FALSE /\ toServer = << >> /\ inbox = << >>
    /\ reached = {} /\ hints = {} /\ notifying = FALSE /\ missedHints = {}
    /\ faults = 0
    /\ slotConnected = FALSE /\ missing = {}
    /\ online = TRUE /\ checkedLocations = {} /\ hintedLocations = {}
    /\ table = {}

-----------------------------------------------------------------------------
(* Client *)

\* Send drops what it is given once the socket is gone.
Sent(requests) == IF linkUp THEN toServer \o requests ELSE toServer

-----------------------------------------------------------------------------
(* The game thread: the shop and the scroll                                *)

\* IsLocationChecked, with what it reads as parameters
IsLocationChecked(i, checked, left) == i \in checked \/ (slotConnected /\ i \notin left)

OnSale(checked, left) == {i \in Items : ~IsLocationChecked(i, checked, left)}

\* HintLocations: ahead of the server's answer
NewHints(locations) == IF slotConnected THEN locations \ hintedLocations ELSE {}
HintRequest(locations) ==
    IF NewHints(locations) = {} THEN << >> ELSE << Message("LocationScouts", NewHints(locations)) >>

HintLocations(locations) ==
    /\ hintedLocations' = hintedLocations \union NewHints(locations)
    /\ toServer' = Sent(HintRequest(locations))

Room == Len(toServer) < MaxMessages /\ Len(inbox) < MaxMessages

\* What is shown is hinted; a shop that has sold out shows nothing.
Open ==
    /\ online /\ Room
    /\ HintLocations(OnSale(checkedLocations, missing))
    /\ UNCHANGED <<core, server, linkUp, inbox, faults, slotConnected, missing, online,
                   checkedLocations, table>>

\* The price leaves the purse, the check its row, in one handler; an item sold
\* meanwhile only shows the shop anew.  The game client can ask for any item,
\* from a window of before.
RowWrittenNot(i) == table
RowWritten(i) == table \union {i}

AffordAny(i) == Spent(paid) < Coins
Afford(i) == Spent(paid) + Price(i) <= Coins

SoldUnasked(i) == FALSE
Sold(i) == IsLocationChecked(i, checkedLocations, missing)

Buy(i) ==
    /\ online /\ Room
    /\ slotConnected
    /\ ~Sold(i)
    /\ i \in Later => grown
    /\ Afford(i)
    /\ paid' = [paid EXCEPT ![i] = @ + 1]
    /\ checkedLocations' = checkedLocations \union {i}
    /\ missing' = missing \ {i}
    /\ table' = RowWritten(i)
    /\ LET shown == OnSale(checkedLocations', missing') IN
         /\ hintedLocations' = hintedLocations \union NewHints(shown)
         /\ toServer' = Sent(<< Message("LocationChecks", {i}) >> \o HintRequest(shown))
    /\ UNCHANGED <<grown, paidSaved, server, linkUp, inbox, faults, slotConnected, online>>

\* The scroll hints some of what is missing and not hinted, if anything is.
ReadScroll ==
    /\ online /\ Room
    /\ slotConnected
    /\ LET unhinted == missing \ hintedLocations IN
         \E drawn \in SUBSET unhinted :
            /\ drawn # {}
            /\ Cardinality(drawn) <= ScrollHints
            /\ Cardinality(drawn) < ScrollHints => drawn = unhinted
            /\ HintLocations(drawn)
    /\ UNCHANGED <<core, server, linkUp, inbox, faults, slotConnected, missing, online,
                   checkedLocations, table>>

-----------------------------------------------------------------------------
(* The game thread: Poll                                                   *)

Polls(cmd) == online /\ inbox # << >> /\ Head(inbox).cmd = cmd /\ inbox' = Tail(inbox)

\* Connected, and the handler it calls: SyncLocationChecks, then Get and
\* SetNotify for the hints.
Synced == checkedLocations \union table

SlotConnected ==
    /\ Polls("Connected")
    /\ slotConnected' = TRUE
    /\ missing' = Head(inbox).locations \ table
    /\ checkedLocations' = Synced
    /\ toServer' = Sent((IF table = {} THEN << >> ELSE << Message("LocationChecks", table) >>)
                        \o << Message("Get", {}), Message("SetNotify", {}) >>)
    /\ UNCHANGED <<core, server, linkUp, faults, online, hintedLocations, table>>

\* RoomUpdate: the checks made elsewhere, and the client's own
RoomUpdated ==
    /\ Polls("RoomUpdate")
    /\ missing' = missing \ Head(inbox).locations
    /\ UNCHANGED <<core, server, linkUp, toServer, faults, slotConnected, online, memory, table>>

\* APDataStorageHandler: the server's list takes the place of the copy.
HintsReplacedNot(listed) == hintedLocations \union listed
HintsReplaced(listed) == listed

HintsListed ==
    /\ Polls("Hints")
    /\ hintedLocations' = HintsReplaced(Head(inbox).locations)
    /\ UNCHANGED <<core, server, linkUp, toServer, faults, slotConnected, missing, online,
                   checkedLocations, table>>

PollClose ==
    /\ online /\ slotConnected /\ ~linkUp /\ inbox = << >>
    /\ slotConnected' = FALSE
    /\ UNCHANGED <<core, server, connection, faults, missing, online, memory, table>>

-----------------------------------------------------------------------------
(* The server (external)                                                   *)

\* A list that has changed goes to a connection that asked to be notified.
Hint(locations) ==
    /\ hints' = hints \union locations
    /\ IF notifying /\ hints' # hints
         THEN inbox' = Append(inbox, Message("Hints", hints')) /\ missedHints' = {}
         ELSE /\ UNCHANGED inbox
              /\ missedHints' = missedHints \union (hints' \ hints)

ServerReceives ==
    /\ toServer # << >>
    /\ LET request == Head(toServer) IN
         \/ /\ request.cmd = "LocationChecks"
            /\ reached' = reached \union request.locations
            /\ inbox' = IF reached' = reached THEN inbox
                        ELSE Append(inbox, Message("RoomUpdate", request.locations))
            /\ UNCHANGED <<hints, notifying, missedHints>>
         \/ /\ request.cmd = "LocationScouts"
            /\ Hint(request.locations)
            /\ UNCHANGED <<reached, notifying>>
         \/ /\ request.cmd = "Get"
            /\ inbox' = Append(inbox, Message("Hints", hints))
            /\ missedHints' = {}
            /\ UNCHANGED <<reached, hints, notifying>>
         \/ /\ request.cmd = "SetNotify"
            /\ notifying' = TRUE
            /\ UNCHANGED <<inbox, reached, hints, missedHints>>
    /\ toServer' = Tail(toServer)
    /\ UNCHANGED <<core, linkUp, faults, slotConnected, missing, online, memory, table>>

\* Another player asks for a hint of one of the slot's locations.
HintedElsewhere(l) ==
    /\ Room
    /\ l \notin hints
    /\ Hint({l})
    /\ UNCHANGED <<core, linkUp, toServer, reached, notifying, faults, slotConnected, missing,
                   online, memory, table>>

\* A !collect, or another client of the slot
CheckedElsewhere(l) ==
    /\ Room
    /\ l \notin reached
    /\ reached' = reached \union {l}
    /\ inbox' = IF linkUp THEN Append(inbox, Message("RoomUpdate", {l})) ELSE inbox
    /\ UNCHANGED <<core, linkUp, toServer, hints, notifying, missedHints, faults, slotConnected,
                   missing, online, memory, table>>

Link ==
    /\ online /\ ~linkUp /\ ~slotConnected /\ inbox = << >>
    /\ linkUp' = TRUE
    /\ inbox' = << Message("Connected", Locations \ reached) >>
    /\ UNCHANGED <<core, toServer, server, faults, slotConnected, missing, online, memory, table>>

\* What has not arrived is lost, in both directions.
Cut == linkUp' = FALSE /\ toServer' = << >> /\ notifying' = FALSE

LinkLost ==
    /\ linkUp
    /\ faults < MaxFaults /\ faults' = faults + 1
    /\ Cut
    /\ \E n \in 0 .. Len(inbox) : inbox' = SubSeq(inbox, 1, n)
    /\ UNCHANGED <<core, reached, hints, missedHints, slotConnected, missing, online, memory, table>>

-----------------------------------------------------------------------------
(* The core and the character's life                                       *)

Grow ==
    /\ online /\ ~grown
    /\ grown' = TRUE
    /\ UNCHANGED <<paid, paidSaved, connection, server, faults, slotConnected, missing, online,
                   memory, table>>

CoreSaves ==
    /\ online
    /\ paidSaved' = paid
    /\ UNCHANGED <<grown, paid, connection, server, faults, slotConnected, missing, online,
                   memory, table>>

Freed ==
    /\ online' = FALSE
    /\ Cut /\ inbox' = << >>
    /\ slotConnected' = FALSE /\ missing' = {}
    /\ checkedLocations' = {} /\ hintedLocations' = {}

Logout ==
    /\ online
    /\ faults < MaxFaults /\ faults' = faults + 1
    /\ paidSaved' = paid
    /\ Freed
    /\ UNCHANGED <<grown, paid, reached, hints, missedHints, table>>

\* The gold is back at what it was at the last save, the checks stay.
Crash ==
    /\ online
    /\ faults < MaxFaults /\ faults' = faults + 1
    /\ paid' = paidSaved
    /\ Freed
    /\ UNCHANGED <<grown, paidSaved, reached, hints, missedHints, table>>

Login ==
    /\ ~online
    /\ online' = TRUE
    /\ UNCHANGED <<core, connection, server, faults, slotConnected, missing, memory, table>>

-----------------------------------------------------------------------------

Next ==
    \/ Open \/ ReadScroll
    \/ \E i \in Items : Buy(i)
    \/ SlotConnected \/ RoomUpdated \/ HintsListed \/ PollClose
    \/ ServerReceives
    \/ \E l \in Locations : HintedElsewhere(l) \/ CheckedElsewhere(l)
    \/ Link \/ LinkLost
    \/ Grow \/ CoreSaves \/ Logout \/ Crash \/ Login

Spec == Init /\ [][Next]_vars

-----------------------------------------------------------------------------
(* Properties *)

\* Nobody pays twice for an item, whatever the server has been told of the
\* first purchase when a window of before, a reconnection or a new login
\* offers it again.
PaidOnce == \A i \in Items : paid[i] <= 1 /\ paidSaved[i] <= 1

\* Gold is not spent on nothing: what has been paid for, as far as the core
\* has saved it or still holds it, has its check on record.
PaidIsSold == \A i \in Items : paid[i] + paidSaved[i] > 0 => i \in table

\* With nothing on its way, the copy of the hints holds no location the
\* server has not hinted, and lacks only those hinted elsewhere between the
\* answer to Get and SetNotify, for which nobody is told.
HintsSettle ==
    slotConnected /\ linkUp /\ toServer = << >> /\ inbox = << >> =>
        /\ hintedLocations \subseteq hints
        /\ hints \ hintedLocations \subseteq missedHints
=============================================================================
