# Verification of ArchipelaWoW

ArchipelaWoW (`mod-i-found-your-sword`) is an AzerothCore module that makes a World of Warcraft
character a slot of an Archipelago multiworld: what the character does is sent as location checks,
and the items other players find for it arrive by mail. This directory holds TLA+ models of the
parts of it that are hard to test, TLC configurations that check them on small instances, and
proofs, checked by TLAPS, of what holds for every instance.

## The system

Two kinds of threads run the module: the worldserver's **game thread** (world update, hooks,
commands, packets) and the **io threads** of the core's io_context, which run the WebSocket clients,
one strand each. Only `Client::EventQueue`, under a mutex, connects them. Three processes outside
keep state of their own: the Archipelago server, the module's database (written **synchronously**)
and the core's character database (mails and character saves, written **asynchronously** by a worker).

| Component | State | Operations | Hard about it | What makes it correct |
|---|---|---|---|---|
| `WebSocketClient` (`network/AP_WebSocketClient.cpp`) | `state`, `stopped`, `writing`, `closeRequested`, `writeQueue` | Connect, Send, Close, Stop; OnResolve ... OnClose | completions of several outstanding operations in any order, failure of one while others are in flight | one end reported once, no overlap of close and write, messages in order, silence after Stop |
| `Client`, connecting (`network/AP_Client.cpp`) | `state`, `preferTls`, `currentAttemptTls`, `reconnectInterval`, `ws`, `eventQueue` | Poll, ConnectSocket, Reset | late events of old sockets, TLS or plain, back-off against slow servers | no stale event, working scheme kept, connected in the end |
| `Client`, outgoing | `checkQueue`, `clientStatus`, `missingLocations` | LocationChecks, StatusUpdate, Say, hints, data storage | sends between a socket's death and its Close are dropped | nothing that matters depends on one send |
| `Client`, data package | `dataPackage`, `serverChecksums`, cache on disk, `pendingDataPackageRequests` | GetDataPackage, DataPackage | requests in flight over a reconnection | names are announced once complete |
| `AP_Character`, items | `itemIndex` (saved), `countedItemIndex` (not), `progressiveCounts`, `heirloomWeapons*`, `items` | APReceivedItemsHandler, RewardItem, SendPendingHeirloomWeapons, SetHeirloomWeapon | replay on every connection, relogs, crashes between a mail and a save, slot data that is refused | each reward once, nothing recorded that was not given, sums right |
| `AP_Character`, checks | `checkedLocations`, `goalCompleted`, `missedProgressCaughtUp`, `location_check` rows | the hooks, CheckLocation(s), CompleteGoal, SyncLocationChecks, CatchUpMissedProgress | done without slot data, lost sends, core and module databases saved at different times | everything done reaches the server, offered once |
| `ArchipelaWoW`, binding | `apCharacters`, `characters` rows | connect, login, logout, delete, ReleaseBinding, takeover of a finished slot | the row is written long after the binding is decided | one character per unfinished slot; no state of one slot used for another |
| `AP_Character` traps, `AP_Traps` | `pendingTraps` (saved in part), `trapsHeldUntil`, `bombRun` | ReceiveTrap, SpringPendingTraps, SpringTrap, UpdateBombRun | teleports in progress, logout between receiving and springing | each trap springs once, teleport first |
| `AP_Character`, buffs | `pendingWorldBuffs` | ApplyWorldBuff, ApplyPendingWorldBuffs | death, relog before slot data, an aura that fails | each buff tried once, and a failure costs no other |
| `AP_Character`, spells, zones | `grantedSpells`, `grantingSpell`, `unlockedZones`, `lastUnlockedPosition` | GrantSpell, RemoveUngrantedSpells, CheckIsInLockedZone, SavePosition | sweep against grant, teleport back | only granted spells stay; a locked zone is left |
| `AP_Character`, experience | `apLevel`, `apExp`, `xpForLevel`, `maxLevel` | GiveArchipelagoExperience, OnPlayerGiveXP | several levels at once, cap, overflow | one check per level, no level past the cap |
| `AP_Character`, hints, chat, death link | `hintedLocations`, `pendingChatEchoes`, `lastDeathTime` | HintLocations, APDataStorageHandler, APPrintJsonHandler, APBouncedHandler | answers that cross, echoes that never come, echo of a death | no second hint, no swallowed message, no death loop |
| `AP_StoneShop`, `AP_Stone` | shown window, scouted items, menu positions, summon limit | Open, OnLocationInfo, Buy; menus | window older than the state, purchase against a check made elsewhere | a location is bought once |
| `GearPool`, item and location tables | candidates by slot, quality and level | Build, Roll, lookups | boundaries of the level window, empty pools | what is rolled is wearable and in the window |
| Configuration, database set-up, `scripts/` | none that changes | read options, forward hooks | -- | -- |

How they interact: hooks of the core go through `scripts/` to `ArchipelaWoW`, which forwards them to
the `AP_Character` of the player; `OnWorldUpdate` calls `AP_Character::Update`, which saves, springs
traps and calls `Client::Poll`; Poll drains the event queue and invokes the handlers of
`AP_Character` for each command, in order, isolating a command that throws; sockets push events from
their strands. An `AP_Character` whose `run` has been set to FALSE is freed after its Update.

## The modules

`Transport` states what a `WebSocketClient` promises, in terms of the callbacks its owner sees: one
attempt, at most one onOpen, messages only while open, one onClose with at most one onError ahead of
it, nothing after Stop.

`WebSocketClient` models one client. A variable of the model is a member of the class, except
`ops` (the asynchronous operations outstanding in boost::beast), `buffer` (the message the
outstanding write reads from), `broken` (the stream failed or its socket was closed) and the
histories `attempted`, `accepted`, `written`, `seen`. Each lambda and each completion handler is one
action, as the strand makes it atomic. boost::beast is external: an outstanding operation completes
with success or with an error at any time, and only with an error once `broken`. OnResolve,
OnConnect and OnSslHandshake have the same shape and are one action, `OnStage`. The owner calls what
`Client` calls (one Connect, Stop last); `Close`, which the module exports and never uses, is
modelled too. `KeepsContract` states that it implements `Transport`, with `Phase` mapping the state.

`ArchipelagoClient` models `Client::Poll`, `ConnectSocket`, `Reset` and the event queue; its sockets
are those of `Transport`, split into the two pushes that `Fail` makes. Poll is a sequence of steps
(drain, one per event, end), since the strands push and the clock moves while it runs. At most two
sockets exist in the model, the current one and the last one given up. Time passes in ticks of
1500 ms, so that the reconnect interval takes the values 1, 2, 4, 8, 10 and kHandshakeTimeout is 20.
A server reacts to each scheme by answering, refusing, failing the TLS handshake, or not at all.

`ItemDelivery` models an item list that grows, the ReceivedItems command, `RewardItem` by the ways
in which the kinds of items differ (mailed once; counted by sum; counted and mailed by tier; heirloom
weapon that waits for a choice), `itemIndex` and `countedItemIndex`, and the two databases. The
handler runs item by item and mail by mail, so that a crash falls between any two; a commit of the
core's database goes through `outbox` and is lost with the process. Position 0 stands for the
code's -1. Equipment, gold and heirloom pieces are mailed like "reward". A seed with a single weapon
choice counts as one whose slots are chosen at once. The packet that enters the slot carries
Connected and the item list, and the rest of a packet is handled after the handler of Connected has
ended the run.

`LocationChecks` models the hooks, the send that comes before the row, the queues of `Client`, the
catching up that a connection starts with, and the rows, against a core that keeps and saves what
the character has done in its own time. Locations are of two kinds: those the catching up looks for
again, and those only a hook checks. As the server takes a check or the status any number of times
and in any order, what is on the wire is a set.

`SlotBinding` models which character plays which slot: `apCharacters`, the rows of `characters` and
`location_check`, the connect command with its takeover of finished slots, logins, logouts,
deletions, refusals, saves on the timer, crashes, and a host that replaces the seed. A row exists
only after the slot has connected, on the timer or at logout, which is what makes the binding a race.
A check carries the slot and the tenure it was done for, so that one of an earlier owner can be told
apart. The shape of the slot data is reduced to `accepts`, the pairs of character and slot that the
server and `APSlotConnectedHandler` take. The client sends its `checkQueue` before that handler can
refuse (`Flushed`); the queue itself needs no variable, since what it holds is on record and was
done since the slot data was known.

`Traps` models the queue of traps and the world buffs that wait for a resurrection, with
`AP_Character::Update` split where a crash shows: the traps of a pass one by one, the bombs, Poll
with the items it hands over. The player moves between updates: alive on foot, mounted, flying,
falling, in an instance, in a place where nothing can spring, dead, or between the two ends of a
teleport. Traps are told apart by what `CanSpring` asks of them. A world buff that is not kept for
the resurrection is tried, also on the way, and may fail: there is none to draw, its spell is
unknown, or `AddAura` refuses. A failed one is neither applied nor kept, while its position is
recorded (`dropped`); each of the waiting ones fails or not on its own. Whether a sprung trap takes
effect is the core's business, and `sprung` counts the calls of `SpringTrap`. A Teleport Trap that is taken off the list, saved
and sprung is one step, since nothing of it is left to repeat afterwards. That a replayed item is
passed over is the business of `ItemDelivery`; here the items behind the recorded position arrive.

`GearPool` models `GearPool::Roll` for one category and quality as a program over its loops:
`AllowedArmorMask` type by type from the heaviest, the level window until it holds enough, the levels
above the cap. All arguments and tables are chosen in the initial state. `Untrained` is a class that
is never taught a type; 0 is one with the skill and no training level in the table.

`StoneShop` models the purchases, the hints and the Scroll of Divination of one slot: `Open`, `Buy`,
`ReadScroll`, `HintLocations`, the copy of the server's list of hints, and the server with a queue of
messages in either direction. The game client can ask for any item at any time, since a window of
before stays open. Gold is in the core's memory, checks are rows at once. A price is one or two
coins, and the level of the later tier is a switch. What the core does on a failed database call and
the shop's items beyond MAX_VENDOR_ITEMS are left out.

In every module a definition whose name tells of a slip (`QueueClearedAnyway`,
`AlreadyRewardedOffByOne`) is a mistaken variant of the definition it precedes. Nothing uses it but
the runs that show that the property can fail.

## The runs

| Run | Checks | Bounds | Distinct states |
|---|---|---|---|
| `websocket` | `TypeOK`, `OperationsSound`, `WrittenInOrder`, `NothingStranded`, `EndWillBeReported`, `KeepsContract`, `NothingLeftHanging` | TLS, 3 messages out, 2 in | 793 |
| `reconnection` | `TypeOK`, `NoStaleEvents`, `OthersStopped`, `KeepsWorkingScheme`, `GetsConnected` | 3 events in the queue, a server that reacts within 6 ticks | 455,670 |
| `silent_port` | `AlternatesUntilOneSucceeds`, violated | as above, a scheme without reaction | -- |
| `items` | `TypeOK`, `NoRepeatedReward`, `RecordedIsRewarded`, `RightTier`, `CountsAreSums`, `EverythingArrives` | 3 items, 2 food tiers, 2 faults | 143,436 |
| `weapons` | `NoRepeatedReward`, `ChosenWeaponsArrive` | 2 items, 2 weapon slots, 2 faults, slot data that may be refused until a version is fixed | 66,056 |
| `refused_slot_data` | `RecordedIsRewarded`, violated | 2 items, 1 fault | -- |
| `checks` | `TypeOK`, `MemoryIsTheRecord`, `GoalStaysOnRecord`, `RecordReachesServer`, `DoneReachesServer` | one location of each kind and the goal, 2 faults | 123,034 |
| `bindings` | `TypeOK`, `SharedOnlyByRace`, `OldChecksStayOut` | 2 characters, 2 slots, 1 takeover of each slot, new seeds that keep who has played | 1,685,728 |
| `other_slots_checks` | `OldChecksStayOut`, violated | as above, a new seed may refuse who has played | -- |
| `traps` | `TypeOK`, `WaitingTrapsAreKept`, `TrapsSpringOnce`, `BuffsAreAccounted`, `TrapsAwaitLanding` | 2 items of 5 kinds, a hold of one moment, 2 bombs, 1 crash | 1,315,279 |
| `gear` | `TypeOK`, `AlwaysSomethingToWear`, `DrawIsRight` | 4 levels, 2 armor types and cloaks, 3 pieces, a window of 0 or 1, a minimum of 2 | 1,812,338 |
| `shop` | `TypeOK`, `PaidOnce`, `PaidIsSold`, `HintsSettle` | 2 items of different tiers and another location, 2 coins, 2 faults, 2 messages each way when one is added | 1,724,910 |

Why the bounds are enough. *websocket*: three messages put one in flight, one behind it and one
behind that, which is all `OnWrite` distinguishes; the proofs hold for any number. *reconnection*:
an attempt pushes at most two events and a connection that comes up and fails three before the next
Poll; a fuller queue only postpones a push. Answering within six ticks (9 s) lies above the first
three intervals and below the last two, so that the back-off has to grow to it. *items*, *weapons*:
two faults give a crash or logout on top of a lost connection, or a second crash on the replay after
the first; three items let a live command follow a replay, and a third food item exceed two tiers.
*checks*: two faults give a connection lost during the resend after a crash. *bindings*: a second
character is what a race, a takeover and a theft of checks need, a second slot what a wrong delivery
needs, and one takeover per slot separates an old tenure from the new; the proofs hold for any
number. *traps*: two items give every ordered pair of kinds, which is all a pass distinguishes,
and two buffs of which one fails; the proofs hold for any number; a moment of hold is enough to tell before from after it. *gear*: the cap and the level vary over all levels, three
pieces put too few, enough and more than enough in a window, and two types give every order of
trainings. *shop*: two items are one bought and one left to hint, two coins the second just out of
reach; two faults give a purchase lost with the connection and a crash after it. Deadlock is not checked
in any run: a stopped client, a client destroyed by Reset, and a character who has nothing left to
do and no fault left to suffer really stop.

Fairness. The strand runs what is posted to it, and the stages of an attempt and the close are under
a deadline (30 s), so their completions are weakly fair; a read waits for the peer and a write has no
deadline, so they are fair only once the socket is closed. The world update polls without end, the
clock ticks, the client tries to reconnect whenever it is not connected, the core's database worker
empties its queue, and the server reads what it is sent. In the two models of a character the player
comes back after a logout or crash: without it nothing more is delivered to anyone. What players,
servers and faults do is never fair. Faults are bounded, so that a connection in the end stays up;
that is what "arrives" means in the liveness properties.

What the passing runs show, beyond types. A client never has a close beside a write, never lets go of
a message a write reads from, and every end of a connection is reported exactly once. The queue that
`ConnectSocket` replaces keeps old sockets' events out. A scheme that worked is the one tried again,
also after a TLS error on an established connection. Only a crash in the middle of a handler can
repeat a reward. Everything found is mailed, or was lost with the core's own queue. What the core
knows was done gets to the server. Two characters share a slot only if both asked for it before
either had a row. A trap that had to wait is never lost, springs once, and not on the way; a world
buff is tried once however deaths and logins fall, and one that fails takes no other with it. Narrowing gear by armor type always leaves
something wearable, and the draw comes from the nearest levels that hold enough. No item is paid for
twice or for nothing.

### What the violated runs show

* `silent_port`: a port that accepts no TLS and sends no answer either (a firewall that drops) is
  tried with TLS for ever. The comment in `Client::Poll` says that attempts alternate between TLS and
  plain until one succeeds; they alternate when a failure is reported, which takes 30 s, and a new
  attempt supersedes the old one after 15 s at most.
* `refused_slot_data`: slot data that does not parse ends the run of the character, but the items
  behind it in the same packet still go through `APReceivedItemsHandler`, which knows none of them,
  gives none, and saves their position. With the versions fixed they are taken for rewarded.
* `other_slots_checks`: a takeover unbinds the old character so that it cannot send its checks to
  the new seed, as the comment there says. When the host replaces the seed and the new one refuses
  the character (another class, race or name), the character is freed with its rows in place; it may
  connect another slot that no row names, and `SyncLocationChecks` sends that slot everything it
  has done for the first. Nothing short of a deletion or a takeover clears the rows.

Seen while modelling, without a run of their own:

* Reset drains the event queue before it has the socket stopped, so that a callback in between
  leaves an event behind; its comment promises otherwise. The one caller destroys the client next.
* The comment in `SpringPendingTraps` says that any teleport holds the traps until the character has
  stood at its destination. The hold is renewed only by an update that finds a trap pending during
  the journey: a trap that arrives with the first update after landing springs at once.
  `TrapsAwaitLanding` is therefore about the traps that an update found waiting on the way.
* A trap that could spring when it came is in memory only until the next save: a logout or a crash
  before the next update drops it. `WaitingTrapsAreKept` excepts it.
* `Get` goes out before `SetNotify`: a hint given between the two is in neither the answer nor an
  update until the next change. `HintsSettle` names those hints, and shows there are no others.
* A list of hints that was on its way when the shop or a scroll asked for new ones takes them back
  until the server's own answer to the request, and a scroll read in between may draw them again.
* A world buff that arrives while the character is teleported is not held back as the traps are,
  though the comment in `SpringPendingTraps` says an aura could fail on the way. One that fails, there
  or at a resurrection, is gone with its position recorded; the player is told of a failing
  `AddAura`, and of nothing when there is no buff to draw or its spell is unknown.
* `MailItemReward` gives up when the item has no template or cannot be created, and the position is
  recorded all the same: that reward is lost. `ItemDelivery` assumes that creation succeeds, so
  `RecordedIsRewarded` and `EverythingArrives` speak of items the core knows.
* A crash after a purchase and before the core's next save keeps the item and refunds the gold.

## What is proved

Every invariant and every action property that a passing run checks is also a theorem, for every
value of the constants that the module's assumption allows, and so is the refinement of `Transport`.
The runs found the strengthened invariants below to hold before they were proved. The assumptions say
no more than the code's own constants do: intervals and bounds are numbers, a back-off starts below
its cap and the cap is no longer than the handshake timeout (1.5 s, 15 s and 30 s,
`ClientAssumption`), a hold behind a teleport is not zero (3 s, `TrapsAssumption`), the locations of
a slot are finitely many. Three theorems have a hypothesis of their own, named where they are
described; for two of them a violated run shows what happens without it.

| Module | Theorems |
|---|---|
| `WebSocketClientProofs` | `TypeCorrect`, `SafetyHolds`, `OperationsAlwaysSound`, `AlwaysWrittenInOrder`, `NothingEverStranded`, `EndWillAlwaysBeReported`, `ImplementsTransport` |
| `ArchipelagoClientProofs` | `TypeCorrect`, `NeverStale`, `OthersAlwaysStopped`, `WorkingSchemeKept` |
| `ItemDeliveryProofs` | `TypeCorrect`, `RewardsNeverRepeat`, `TiersAlwaysRight`, `CountsAlwaysSums`, `RecordedAlwaysRewarded` |
| `LocationChecksProofs` | `TypeCorrect`, `MemoryAlwaysTheRecord`, `GoalAlwaysStays` |
| `SlotBindingProofs` | `TypeCorrect`, `SharedAlwaysByRace`, `OldChecksAlwaysOut` |
| `TrapsProofs` | `TypeCorrect`, `WaitingTrapsAlwaysKept`, `TrapsAlwaysSpringOnce`, `BuffsAlwaysAccounted`, `LandingAlwaysAwaited` |
| `GearPoolProofs` | `TypeCorrect`, `SomethingToWear`, `DrawAlwaysRight` |
| `StoneShopProofs` | `TypeCorrect`, `AlwaysPaidOnce`, `PaidAlwaysSold`, `HintsAlwaysSettle` |

`WebSocketClientProofs` covers either kind of stream and any bounds. Its inductive invariant
`IInv` adds two things to the types and the safety properties. `OpsInv` says which operations can be
outstanding in which state: without it nothing excludes a write in flight while the stages of an
attempt still run. `QueueInv` says that the queue continues what was written, number by
number, and while connected the two together are all that was accepted: without it the front of the queue could be any message, and appending it to `written` any
order. Refinement then shows each action to be a step of `Transport` or a stutter under `Phase`.

`ArchipelagoClientProofs` covers any length of the queue, any intervals and any behaviour of the
servers, with the two sockets of the model. `SocketInv` says that each socket pushes into a queue of
its own and that the client drains that of the socket it holds, which nobody has told to stop. This
is what keeps stale events out, and it needs nothing of what the events say. The scheme does:
`OrderInv` says that in what waits, drained or not, an Open comes before everything and a Close after
everything, and `SchemeInv` that the client has not moved while nothing has come of an attempt, and
holds on to the scheme from the moment its connection has come up until all it had to say has been
processed. Without the order a Close in front of an Open could switch the scheme of a connection
that works.

`ItemDeliveryProofs` covers any item list, any number of faults, tiers and weapon slots. The invariant
has three layers, each proved with the ones before it. `FlowInv` is about positions: what a connection
still has to deliver continues what the character has seen, a batch stays within the list, and the
position in memory is that of the row. `CountInv` says that each of the three counts is, also in the
middle of a batch and behind a crash, the number of items of its kind up to `Seen`, the place this
login has come to. `MailInv` counts the copies of a mail, sent or in the core's queue, against the crashes that fell
into a handler, and says which mails cannot have gone out yet (`UnsentInv`): that is where the
repeats are excluded. `RecordedAlwaysRewarded` assumes that no slot data is refused
(`BadSlotData = FALSE`); the run `refused_slot_data` shows that it fails otherwise.

`LocationChecksProofs` covers every set of locations and any number of faults. The invariant is that memory and rows
differ by exactly what has been sent and not yet written (`MemoryInv`), that a goal on record is
known to a character that exists (`GoalInv`), and that nothing of a character is left without it and
the catching up starts with every row written (`OfflineInv`). The last part is what the proof cannot
do without: catching up replaces the unwritten set, which would lose what was still in it.

`SlotBindingProofs` covers any characters, slots and number of takeovers. `OldChecksAlwaysOut` assumes
that no new seed refuses a character the slot it has played (`~RefusesPlayed`, which the run
`other_slots_checks` drops). Sharing is inductive as it stands. For the checks the invariant adds `RecordInv`: every check on record is for
the slot of the character's row and for its present tenure, the slot still takes the character, and a
character in the world without a binding has no rows. Without the last part a connect command could
start a slot with another one's checks.

`TrapsProofs` covers any number of items, crashes and bombs. Four invariants stand beside the types and
`ControlInv`, which says how far the loops over the queue and over the items can have come. `KeptInv`:
what had to wait is in the row or has sprung, what is in the row is in memory or has sprung, and what
the loop has passed is in its `waiting` list or has sprung. `OnceInv`: while no crash has fallen into
a handler, no queue repeats a position or holds one that has sprung, and the items still to come are
on none; inside the loop, where memory and row lag behind, `LoopInv` says that what is ahead of it
has not sprung, and that if it has put everything back so far then nothing has to be rewritten.
`BuffsInv`: memory and row agree on the buffs that wait, and these together with the ones tried,
applied or failed, are the buffs up to the item being handled. `BuffsAlwaysAccounted` assumes
`MaxItems < 256`: `pendingWorldBuffs` is a `uint8`, and the 256th buff to wait for one resurrection
would make it zero. `LandingInv`: on a journey with traps aboard the hold is
whole, and behind it the hold stays whole until time has passed; the loop runs only when it has.

`StoneShopProofs` covers any shop, purse and number of faults. Of the purchases, the invariant says that the checks in memory have their rows and, once a connection is up,
the other way round (`MemoryInv`), and that both the gold in memory and the gold saved have paid for
an item at most once, and only with its row (`PurseInv`). The server's list of missing locations is
not needed for it. Of the hints, `CopyInv` says, once Get has been answered on a connection: with no
list under way, the copy lacks only hints for which nobody was told, and what it has ahead of the
server is being asked for; with lists under way, the last of them lacks only such hints. `ListsInv`
says that a list under way holds nothing that is not hinted. That the gold lasts (`TypeCorrect`)
needs the purchases: the sum of the prices is the number of coins given, and a price is added
only for an item that has cost none so far.

`GearPoolProofs` covers any number of armor types taught in any order, any level cap, window and goal.
For the narrowing the invariant (`WearInv`) says, of the types looked at so
far, that whatever can be worn has been allowed for, by itself or by a heavier type that can be worn;
the step that needs care is a type passed over because it is taught no earlier than the last one kept.
For the draw, `DrawInv` says that the window is at one of its distances and no smaller one had enough,
and that above the cap nothing has been found below the level looked at.

Only model-checked: the liveness properties `NothingLeftHanging`, `GetsConnected`,
`EverythingArrives`, `ChosenWeaponsArrive`, `RecordReachesServer` and `DoneReachesServer`, since TLAPS
does not prove fairness and ENABLED here. The three violated runs are TLC's by nature.

So that they can be reasoned about, `Occurrences` in `ItemDelivery` and `Traps`, `BuffsUpTo` and
`Spent` count by the cardinality of a set: what a recursive sum or a selection from a sequence
returns would take an induction that these provers do not do.

## Plan

Done: the components above and the proofs of all that is safety about them. What is left, in this
order:

1. The two abstract specifications below, with the refinements proved from the invariants there are.
2. `Experience`: the hidden bar, several levels at once, the cap, and the arithmetic of the bonus.
3. `ChatRelay` and the death link: the echoes that are cut or never come, the guard on a death.
4. `DataPackage`: requests in flight over a reconnection, and when names are announced.
5. Spells: the sweep of ungranted spells against grants.

Abstract specifications worth stating: exactly-once delivery of an item list, implemented by
`ItemDelivery` while no crash falls into a handler; at-least-once reporting, implemented by
`LocationChecks`.

## Not modelled

Formatting of messages and menus, ANSI conversion, gossip menus and packets of the game client
(`AP_Stone`), transmogrification, configuration, database set-up, the scripts that forward hooks,
the vendored JSON library (two thirds of the lines under `src/`), the tables of items, spells, skills
and locations, how spells and creatures of a trap behave in the core, and so far the experience, the
chat relay, the death link, the data package, zones and spells: each is a few guards around a call of
the core, and the plan gives their order. Malformed packets are dropped command by command by `ProcessMessage` and do not occur
in the models. Certificates and root stores are part of the external TLS handshake.
