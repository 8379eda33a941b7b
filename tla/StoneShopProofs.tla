--------------------------- MODULE StoneShopProofs ---------------------------
(***************************************************************************)
(* Proofs about StoneShop, for any set of items and of other locations,    *)
(* any purse and any number of faults: about the purchases, to which it    *)
(* does not matter what the messages carry, and about the list of hints,   *)
(* which depends on what is under way in both directions.                  *)
(***************************************************************************)
EXTENDS StoneShop, FiniteSetTheorems, SequenceTheorems, TLAPS

-----------------------------------------------------------------------------
(* The purchases *)

\* The memory and the rows of the checks agree whenever a purchase can be
\* made: the memory never runs ahead, and a connection has read every row.
MemoryInv ==
    /\ checkedLocations \subseteq table
    /\ slotConnected => table \subseteq checkedLocations

\* Each item is paid for at most once, with its row written.
PurseInv ==
    /\ {paid, paidSaved} \subseteq [Items -> {0, 1}]
    /\ \A i \in Items : paid[i] = 1 \/ paidSaved[i] = 1 => i \in table

ShopInv == MemoryInv /\ PurseInv

\* What ShopInv reads
purchases == <<paid, paidSaved, slotConnected, checkedLocations, table>>

-----------------------------------------------------------------------------

\* Nothing is bought at first.
LEMMA InitInv == Init => ShopInv
<1> SUFFICES ASSUME Init PROVE ShopInv
  OBVIOUS
<1>1. MemoryInv
  BY DEF Init, MemoryInv
<1>2. PurseInv
  BY DEF Init, PurseInv
<1> QED
  BY <1>1, <1>2 DEF ShopInv

\* A purchase is made on a connection, which has read every row: an item that
\* is not sold has no row, so that it has not been paid for.
LEMMA BuyInv == ASSUME ShopInv, NEW i \in Items, Buy(i) PROVE ShopInv'
<1> USE DEF ShopInv
<1>1. i \notin table
  BY DEF Buy, Sold, IsLocationChecked, MemoryInv
<1>2. paid[i] = 0 /\ paid' = [paid EXCEPT ![i] = 1]
  <2>1. paid \in [Items -> {0, 1}] /\ paid[i] # 1
    BY <1>1 DEF PurseInv
  <2>2. paid' = [paid EXCEPT ![i] = paid[i] + 1]
    BY DEF Buy
  <2>3. paid[i] = 0
    BY <2>1
  <2> QED
    BY <2>2, <2>3
<1>3. checkedLocations' = checkedLocations \union {i} /\ table' = table \union {i}
  BY DEF Buy, RowWritten
<1>4. UNCHANGED <<paidSaved, slotConnected>>
  BY DEF Buy
<1>5. MemoryInv'
  BY <1>3, <1>4 DEF MemoryInv
<1>6. PurseInv'
  BY <1>2, <1>3, <1>4 DEF PurseInv
<1> QED
  BY <1>5, <1>6

\* A new connection reads every row.
LEMMA SlotConnectedInv == ASSUME ShopInv, SlotConnected PROVE ShopInv'
<1> USE DEF ShopInv
<1>1. checkedLocations' = checkedLocations \union table /\ UNCHANGED <<paid, paidSaved, table>>
  BY DEF SlotConnected, Synced, core
<1>2. MemoryInv'
  BY <1>1 DEF MemoryInv
<1>3. PurseInv'
  BY <1>1 DEF PurseInv
<1> QED
  BY <1>2, <1>3

\* A character that is freed takes its memory and its connection with it; its
\* gold is what was saved, or saved what it had.
LEMMA FreedInv == ASSUME ShopInv, Logout \/ Crash PROVE ShopInv'
<1> USE DEF ShopInv
<1>1. checkedLocations' = {} /\ ~slotConnected' /\ table' = table
  BY DEF Logout, Crash, Freed
<1>2. paid' \in {paid, paidSaved} /\ paidSaved' \in {paid, paidSaved}
  BY DEF Logout, Crash
<1>3. MemoryInv'
  BY <1>1 DEF MemoryInv
<1>4. PurseInv'
  BY <1>1, <1>2 DEF PurseInv
<1> QED
  BY <1>3, <1>4

\* The other steps that touch what a purchase reads
LEMMA SaveInv == ASSUME ShopInv, CoreSaves PROVE ShopInv'
<1> USE DEF ShopInv
<1>1. paidSaved' = paid /\ UNCHANGED <<paid, slotConnected, checkedLocations, table>>
  BY DEF CoreSaves, memory
<1>2. MemoryInv'
  BY <1>1 DEF MemoryInv
<1>3. PurseInv'
  BY <1>1 DEF PurseInv
<1> QED
  BY <1>2, <1>3

LEMMA CloseInv == ASSUME ShopInv, PollClose PROVE ShopInv'
<1> USE DEF ShopInv
<1>1. ~slotConnected' /\ UNCHANGED <<paid, paidSaved, checkedLocations, table>>
  BY DEF PollClose, core, memory
<1>2. MemoryInv'
  BY <1>1 DEF MemoryInv
<1>3. PurseInv'
  BY <1>1 DEF PurseInv
<1> QED
  BY <1>2, <1>3

LEMMA FrameInv == ASSUME ShopInv, UNCHANGED purchases PROVE ShopInv'
<1> USE DEF ShopInv, purchases
<1>1. MemoryInv'
  BY DEF MemoryInv
<1>2. PurseInv'
  BY DEF PurseInv
<1> QED
  BY <1>1, <1>2

\* Every step keeps the purchases in order.
LEMMA StepInv == ShopInv /\ [Next]_vars => ShopInv'
<1> SUFFICES ASSUME ShopInv, [Next]_vars PROVE ShopInv'
  OBVIOUS
<1> USE DEF purchases, core, memory
<1>1. CASE Open
  BY <1>1, FrameInv DEF Open
<1>2. CASE ReadScroll
  BY <1>2, FrameInv DEF ReadScroll
<1>3. ASSUME NEW i \in Items, Buy(i) PROVE ShopInv'
  BY <1>3, BuyInv
<1>4. CASE SlotConnected
  BY <1>4, SlotConnectedInv
<1>5. CASE RoomUpdated
  BY <1>5, FrameInv DEF RoomUpdated
<1>6. CASE HintsListed
  BY <1>6, FrameInv DEF HintsListed
<1>7. CASE PollClose
  BY <1>7, CloseInv
<1>8. CASE ServerReceives
  BY <1>8, FrameInv DEF ServerReceives
<1>9. ASSUME NEW l \in Locations, HintedElsewhere(l) \/ CheckedElsewhere(l) PROVE ShopInv'
  BY <1>9, FrameInv DEF HintedElsewhere, CheckedElsewhere
<1>10. CASE Link
  BY <1>10, FrameInv DEF Link
<1>11. CASE LinkLost
  BY <1>11, FrameInv DEF LinkLost
<1>12. CASE Grow
  BY <1>12, FrameInv DEF Grow
<1>13. CASE CoreSaves
  BY <1>13, SaveInv
<1>14. CASE Logout \/ Crash
  BY <1>14, FreedInv
<1>15. CASE Login
  BY <1>15, FrameInv DEF Login
<1>16. CASE UNCHANGED vars
  BY <1>16, FrameInv DEF vars
<1> QED
  BY <1>1, <1>2, <1>3, <1>4, <1>5, <1>6, <1>7, <1>8, <1>9, <1>10, <1>11, <1>12, <1>13, <1>14,
     <1>15, <1>16 DEF Next

\* The purchases are in order in every behaviour.
LEMMA AlwaysInv == Spec => []ShopInv
  BY InitInv, StepInv, PTL DEF Spec

\* No item is ever paid for twice, before or after a crash.
THEOREM AlwaysPaidOnce == Spec => []PaidOnce
<1>1. ShopInv => PaidOnce
  BY DEF ShopInv, PurseInv, PaidOnce
<1> QED
  BY <1>1, AlwaysInv, PTL

\* What has been paid for has its check on record.
THEOREM PaidAlwaysSold == Spec => []PaidIsSold
<1>1. ShopInv => PaidIsSold
  BY DEF ShopInv, PurseInv, PaidIsSold
<1> QED
  BY <1>1, AlwaysInv, PTL

-----------------------------------------------------------------------------
(* The hints *)

QueueType ==
    /\ toServer \in Seq(Messages) /\ inbox \in Seq(Messages)
    /\ hints \subseteq Locations /\ hintedLocations \subseteq Locations
    /\ missing \subseteq Locations /\ table \subseteq Locations

GetSent == \E k \in 1 .. Len(toServer) : toServer[k].cmd = "Get"
Asked(l) == \E k \in 1 .. Len(toServer) : toServer[k].cmd = "LocationScouts" /\ l \in toServer[k].locations
Listed(k) == inbox[k].cmd = "Hints"
NoneListed == \A k \in 1 .. Len(inbox) : ~Listed(k)
LastListed(k) == Listed(k) /\ \A j \in 1 .. Len(inbox) : j > k => ~Listed(j)

\* A list under way holds nothing that is not hinted.
ListsInv == \A k \in 1 .. Len(inbox) : Listed(k) => inbox[k].locations \subseteq hints

\* Once Get has been answered, the copy, or the last list under way, which
\* takes its place, lacks only hints for which nobody was told; and what the
\* copy has ahead of the server is being asked for, unless a list is still to
\* take its place.
CopyInv ==
    linkUp /\ slotConnected /\ ~GetSent =>
        /\ NoneListed => hints \subseteq hintedLocations \union missedHints
        /\ NoneListed => \A l \in hintedLocations : l \in hints \/ Asked(l)
        /\ \A k \in 1 .. Len(inbox) : LastListed(k) => hints \subseteq inbox[k].locations \union missedHints

HintsInv == QueueType /\ ListsInv /\ CopyInv

\* What HintsInv reads
hinting == <<toServer, inbox, hints, hintedLocations, missing, table, linkUp, slotConnected, missedHints>>

LEMMA HintsInit == Init => HintsInv
<1> SUFFICES ASSUME Init PROVE HintsInv
  OBVIOUS
<1>1. toServer \in Seq(Messages) /\ inbox \in Seq(Messages) /\ Len(inbox) = 0
  BY EmptySeq DEF Init
<1> QED
  BY <1>1 DEF Init, HintsInv, QueueType, ListsInv, CopyInv

LEMMA HintsKept == HintsInv /\ UNCHANGED hinting => HintsInv'
  BY DEF hinting, HintsInv, QueueType, ListsInv, CopyInv, GetSent, Asked, Listed, NoneListed, LastListed

LEMMA QueueTypes ==
    ASSUME QueueType
    PROVE  /\ Len(toServer) \in Nat /\ Len(inbox) \in Nat
           /\ \A k \in 1 .. Len(toServer) : toServer[k] \in Messages /\ toServer[k].locations \subseteq Locations
           /\ \A k \in 1 .. Len(inbox) : inbox[k] \in Messages /\ inbox[k].locations \subseteq Locations
<1>1. toServer \in Seq(Messages) /\ inbox \in Seq(Messages)
  BY DEF QueueType
<1>2. Len(toServer) \in Nat /\ Len(inbox) \in Nat
  BY <1>1, LenProperties
<1>3. ASSUME NEW k \in 1 .. Len(toServer) PROVE toServer[k] \in Messages
  BY <1>1, ElementOfSeq
<1>4. ASSUME NEW k \in 1 .. Len(inbox) PROVE inbox[k] \in Messages
  BY <1>1, ElementOfSeq
<1>5. \A m \in Messages : m.locations \subseteq Locations
  BY DEF Messages
<1> QED
  BY <1>2, <1>3, <1>4, <1>5

LEMMA MessageType ==
    ASSUME NEW locations \in SUBSET Locations,
           NEW cmd \in {"LocationChecks", "LocationScouts", "Get", "SetNotify", "Connected", "RoomUpdate", "Hints"}
    PROVE  /\ Message(cmd, locations) \in Messages
           /\ Message(cmd, locations).cmd = cmd /\ Message(cmd, locations).locations = locations
  BY DEF Message, Messages

\* Requests that are sent go behind what is there.
LEMMA Queued ==
    ASSUME NEW queue \in Seq(Messages), NEW requests \in Seq(Messages)
    PROVE  /\ queue \o requests \in Seq(Messages)
           /\ Len(queue) \in Nat /\ Len(requests) \in Nat
           /\ Len(queue \o requests) = Len(queue) + Len(requests)
           /\ \A k \in 1 .. Len(queue) : (queue \o requests)[k] = queue[k]
           /\ \A k \in 1 .. Len(requests) : (queue \o requests)[Len(queue) + k] = requests[k]
<1>1. Len(queue) \in Nat /\ Len(requests) \in Nat
  BY LenProperties
<1> QED
  BY <1>1, ConcatProperties

\* Asking for hints: what the copy gets ahead of the server is in the request.
LEMMA HintsAsked ==
    ASSUME HintsInv, NEW new \in SUBSET Locations, NEW requests \in Seq(Messages),
           hintedLocations' = hintedLocations \union new,
           toServer' = Sent(requests),
           \A l \in new : \E k \in 1 .. Len(requests) :
               requests[k].cmd = "LocationScouts" /\ l \in requests[k].locations,
           UNCHANGED <<inbox, hints, missedHints, linkUp, slotConnected>>,
           missing' \subseteq Locations, table' \subseteq Locations
    PROVE  HintsInv'
<1> USE DEF HintsInv
<1>1. toServer \in Seq(Messages) /\ Len(toServer) \in Nat /\ Len(requests) \in Nat
  BY LenProperties DEF QueueType
<1>2. toServer' \in Seq(Messages)
  BY <1>1, ConcatProperties DEF Sent
<1>3. QueueType'
  BY <1>2 DEF QueueType
<1>4. ListsInv'
  BY DEF ListsInv, Listed
<1>5. CASE linkUp
  <2>1. /\ Len(toServer') = Len(toServer) + Len(requests)
        /\ \A k \in 1 .. Len(toServer) : toServer'[k] = toServer[k]
        /\ \A k \in 1 .. Len(requests) : toServer'[Len(toServer) + k] = requests[k]
    BY <1>1, <1>5, ConcatProperties DEF Sent
  <2>2. GetSent => GetSent'
    BY <1>1, <2>1 DEF GetSent
  <2>3. \A l : Asked(l) => Asked(l)'
    BY <1>1, <2>1 DEF Asked
  <2>4. \A l \in new : Asked(l)'
    <3>1. SUFFICES ASSUME NEW l \in new PROVE Asked(l)'
      OBVIOUS
    <3>2. PICK k \in 1 .. Len(requests) : requests[k].cmd = "LocationScouts" /\ l \in requests[k].locations
      OBVIOUS
    <3>3. toServer'[Len(toServer) + k] = requests[k] /\ Len(toServer) + k \in 1 .. Len(toServer')
      BY <1>1, <2>1
    <3> QED
      BY <3>2, <3>3 DEF Asked
  <2>5. /\ NoneListed' <=> NoneListed
        /\ \A k : LastListed(k)' <=> LastListed(k)
    BY DEF NoneListed, LastListed, Listed
  <2> QED
    BY <1>3, <1>4, <2>2, <2>3, <2>4, <2>5 DEF CopyInv
<1>6. CASE ~linkUp
  BY <1>3, <1>4, <1>6 DEF CopyInv
<1> QED
  BY <1>5, <1>6

\* A message that has been read: what was behind it moves up.
LEMMA Unqueued ==
    ASSUME NEW queue \in Seq(Messages), queue # << >>
    PROVE  /\ Len(queue) \in Nat \ {0} /\ Head(queue) = queue[1] /\ queue[1] \in Messages
           /\ Tail(queue) \in Seq(Messages) /\ Len(Tail(queue)) = Len(queue) - 1
           /\ \A k \in 1 .. Len(Tail(queue)) : Tail(queue)[k] = queue[k + 1]
<1>1. Len(queue) \in Nat \ {0}
  BY EmptySeq
<1>2. queue[1] \in Messages
  BY <1>1, ElementOfSeq
<1>3. /\ Tail(queue) \in Seq(Messages) /\ Len(Tail(queue)) = Len(queue) - 1
      /\ \A k \in 1 .. Len(Tail(queue)) : Tail(queue)[k] = queue[k + 1]
  BY HeadTailProperties
<1>4. Head(queue) = queue[1]
  OBVIOUS
<1> QED
  BY <1>1, <1>2, <1>3, <1>4

\* The client has read a command: the last list under way is still the last.
LEMMA InboxRead ==
    ASSUME QueueType, ListsInv, inbox # << >>, inbox' = Tail(inbox), hints' = hints
    PROVE  /\ inbox' \in Seq(Messages) /\ ListsInv'
           /\ Len(inbox) \in Nat \ {0} /\ Head(inbox) = inbox[1] /\ inbox[1].locations \subseteq Locations
           /\ ~Listed(1) => (NoneListed' => NoneListed)
           /\ Listed(1) => (NoneListed' => LastListed(1))
           /\ \A k \in 1 .. Len(inbox') : LastListed(k)' => LastListed(k + 1)
           /\ Len(inbox') = Len(inbox) - 1
           /\ \A k \in 1 .. Len(inbox') : inbox'[k] = inbox[k + 1]
<1>1. /\ Len(inbox) \in Nat \ {0} /\ Head(inbox) = inbox[1]
      /\ inbox' \in Seq(Messages) /\ Len(inbox') = Len(inbox) - 1
      /\ \A k \in 1 .. Len(inbox') : inbox'[k] = inbox[k + 1]
  BY Unqueued DEF QueueType
<1>2. \A k \in 1 .. Len(inbox') : k + 1 \in 1 .. Len(inbox) /\ (Listed(k)' <=> Listed(k + 1))
  BY <1>1 DEF Listed
<1>3. \A k \in 1 .. Len(inbox) : k = 1 \/ (k - 1 \in 1 .. Len(inbox') /\ (k - 1) + 1 = k)
  BY <1>1
<1>4. \A k \in 1 .. Len(inbox) : k = 1 \/ (Listed(k) => Listed(k - 1)')
  BY <1>2, <1>3
<1>5. ListsInv'
  BY <1>1, <1>2 DEF ListsInv
<1>6. NoneListed' => \A k \in 1 .. Len(inbox) : k = 1 \/ ~Listed(k)
  BY <1>3, <1>4 DEF NoneListed
<1>7. ASSUME NEW k \in 1 .. Len(inbox'), LastListed(k)' PROVE LastListed(k + 1)
  <2>1. ASSUME NEW j \in 1 .. Len(inbox), j > k + 1, Listed(j) PROVE FALSE
    <3>1. j - 1 \in 1 .. Len(inbox') /\ j - 1 > k /\ Listed(j - 1)'
      BY <1>1, <1>4, <2>1
    <3> QED
      BY <1>7, <3>1 DEF LastListed
  <2> QED
    BY <1>2, <1>7, <2>1 DEF LastListed
<1>8. inbox[1].locations \subseteq Locations
  BY <1>1, QueueTypes
<1> QED
  BY <1>1, <1>5, <1>6, <1>7, <1>8 DEF NoneListed, LastListed

\* The server has read a request: the rest is still asked for.
LEMMA ServerRead ==
    ASSUME QueueType, toServer # << >>, toServer' = Tail(toServer)
    PROVE  /\ toServer' \in Seq(Messages) /\ Head(toServer) = toServer[1]
           /\ toServer[1] \in Messages /\ toServer[1].locations \subseteq Locations
           /\ toServer[1].cmd # "Get" => (GetSent => GetSent')
           /\ \A l : Asked(l) => \/ toServer[1].cmd = "LocationScouts" /\ l \in toServer[1].locations
                                 \/ Asked(l)'
<1>1. /\ Len(toServer) \in Nat \ {0} /\ Head(toServer) = toServer[1] /\ toServer[1] \in Messages
      /\ toServer' \in Seq(Messages) /\ Len(toServer') = Len(toServer) - 1
      /\ \A k \in 1 .. Len(toServer') : toServer'[k] = toServer[k + 1]
  BY Unqueued DEF QueueType
<1>2. \A k \in 1 .. Len(toServer) :
        k = 1 \/ (k - 1 \in 1 .. Len(toServer') /\ toServer'[k - 1] = toServer[k])
  BY <1>1
<1>3. toServer[1].locations \subseteq Locations
  BY <1>1 DEF Messages
<1>4. toServer[1].cmd # "Get" => (GetSent => GetSent')
  BY <1>2 DEF GetSent
<1>5. ASSUME NEW l, Asked(l)
      PROVE  \/ toServer[1].cmd = "LocationScouts" /\ l \in toServer[1].locations
             \/ Asked(l)'
  BY <1>2, <1>5 DEF Asked
<1> QED
  BY <1>1, <1>3, <1>4, <1>5

\* One more command for the client: it is the last list, if it is a list.
LEMMA InboxGrows ==
    ASSUME QueueType, NEW message \in Messages, inbox' = Append(inbox, message)
    PROVE  /\ inbox' \in Seq(Messages) /\ Len(inbox) \in Nat /\ Len(inbox') = Len(inbox) + 1
           /\ \A k \in 1 .. Len(inbox) : inbox'[k] = inbox[k]
           /\ inbox'[Len(inbox) + 1] = message
           /\ message.cmd # "Hints" => /\ NoneListed' => NoneListed
                                       /\ \A k \in 1 .. Len(inbox') :
                                            LastListed(k)' => k \in 1 .. Len(inbox) /\ LastListed(k)
           /\ message.cmd = "Hints" => /\ ~NoneListed'
                                       /\ \A k \in 1 .. Len(inbox') : LastListed(k)' => k = Len(inbox) + 1
<1>1. /\ inbox' \in Seq(Messages) /\ Len(inbox) \in Nat /\ Len(inbox') = Len(inbox) + 1
      /\ \A k \in 1 .. Len(inbox) : inbox'[k] = inbox[k]
      /\ inbox'[Len(inbox) + 1] = message
  BY AppendProperties, LenProperties DEF QueueType
<1>2. \A k \in 1 .. Len(inbox) : k \in 1 .. Len(inbox') /\ (Listed(k)' <=> Listed(k))
  BY <1>1 DEF Listed
<1>3. PICK n \in Nat : n = Len(inbox) + 1
  BY <1>1
<1>4. /\ n \in 1 .. Len(inbox') /\ (Listed(n)' <=> message.cmd = "Hints")
      /\ \A k \in 1 .. Len(inbox') : k \in 1 .. Len(inbox) \/ k = n
  BY <1>1, <1>3 DEF Listed
<1>5. ASSUME message.cmd # "Hints"
      PROVE  /\ NoneListed' => NoneListed
             /\ \A k \in 1 .. Len(inbox') : LastListed(k)' => k \in 1 .. Len(inbox) /\ LastListed(k)
  <2>1. NoneListed' => NoneListed
    BY <1>2 DEF NoneListed
  <2>2. ASSUME NEW k \in 1 .. Len(inbox'), LastListed(k)'
        PROVE  k \in 1 .. Len(inbox) /\ LastListed(k)
    <3>1. Listed(k)' /\ \A j \in 1 .. Len(inbox') : j > k => ~Listed(j)'
      BY <2>2 DEF LastListed
    <3>2. k \in 1 .. Len(inbox) /\ Listed(k)
      BY <1>2, <1>4, <1>5, <3>1
    <3> QED
      BY <1>2, <3>1, <3>2 DEF LastListed
  <2> QED
    BY <2>1, <2>2
<1>6. ASSUME message.cmd = "Hints"
      PROVE  /\ ~NoneListed'
             /\ \A k \in 1 .. Len(inbox') : LastListed(k)' => k = n
  <2>1. ~NoneListed'
    BY <1>4, <1>6 DEF NoneListed
  <2>2. ASSUME NEW k \in 1 .. Len(inbox'), LastListed(k)' PROVE k = n
    <3>1. \A j \in 1 .. Len(inbox') : j > k => ~Listed(j)'
      BY <2>2 DEF LastListed
    <3>2. ~(n > k)
      BY <1>4, <1>6, <3>1
    <3> QED
      BY <1>1, <1>3, <3>2
  <2> QED
    BY <2>1, <2>2
<1> QED
  BY <1>1, <1>3, <1>5, <1>6

-----------------------------------------------------------------------------
(* The hints: the steps *)

LEMMA OpenHints == HintsInv /\ (Open \/ ReadScroll) => HintsInv'
<1> SUFFICES ASSUME HintsInv, Open \/ ReadScroll PROVE HintsInv'
  OBVIOUS
<1>1. PICK locations : HintLocations(locations) /\ locations \subseteq Locations
  BY DEF Open, ReadScroll, OnSale, Locations, HintsInv, QueueType
<1>2. NewHints(locations) \in SUBSET Locations
  BY <1>1 DEF NewHints
<1>3. HintRequest(locations) \in Seq(Messages)
  BY <1>2, MessageType DEF HintRequest
<1>4. \A l \in NewHints(locations) : \E k \in 1 .. Len(HintRequest(locations)) :
        /\ HintRequest(locations)[k].cmd = "LocationScouts"
        /\ l \in HintRequest(locations)[k].locations
  BY <1>2, MessageType DEF HintRequest
<1>5. /\ hintedLocations' = hintedLocations \union NewHints(locations)
      /\ toServer' = Sent(HintRequest(locations))
  BY <1>1 DEF HintLocations
<1>6. UNCHANGED <<inbox, hints, missedHints, linkUp, slotConnected, missing, table>>
  BY DEF Open, ReadScroll, server
<1>7. missing' \subseteq Locations /\ table' \subseteq Locations
  BY <1>6 DEF HintsInv, QueueType
<1> QED
  BY <1>2, <1>3, <1>4, <1>5, <1>6, <1>7, HintsAsked

LEMMA BuyHints == ASSUME HintsInv, NEW i \in Items, Buy(i) PROVE HintsInv'
<1> DEFINE shown == OnSale(checkedLocations', missing')
           new == NewHints(shown)
           sold == Message("LocationChecks", {i})
           requests == << sold >> \o HintRequest(shown)
<1>1. new \in SUBSET Locations
  BY DEF NewHints, OnSale, Locations
<1>2. sold \in Messages
  BY MessageType DEF Locations
<1>3. CASE new = {}
  <2>1. requests = << sold >> \o << >>
    BY <1>3 DEF HintRequest
  <2>2. requests \in Seq(Messages)
    <3> HIDE DEF requests, sold
    <3>1. << sold >> \in Seq(Messages) /\ << >> \in Seq(Messages)
      BY <1>2
    <3> QED
      BY <2>1, <3>1, ConcatProperties
  <2>3. /\ hintedLocations' = hintedLocations \union new
        /\ toServer' = Sent(requests)
        /\ UNCHANGED <<inbox, hints, missedHints, linkUp, slotConnected>>
        /\ missing' \subseteq Locations /\ table' \subseteq Locations
    BY DEF Buy, server, RowWritten, HintsInv, QueueType, Locations
  <2>4. \A l \in new : \E k \in 1 .. Len(requests) :
          requests[k].cmd = "LocationScouts" /\ l \in requests[k].locations
    BY <1>3
  <2> HIDE DEF requests, new
  <2> QED
    BY <1>1, <2>2, <2>3, <2>4, HintsAsked
<1>4. CASE new # {}
  <2>1. requests = << sold >> \o << Message("LocationScouts", new) >>
    BY <1>4 DEF HintRequest
  <2>2. /\ Message("LocationScouts", new) \in Messages
        /\ Message("LocationScouts", new).cmd = "LocationScouts"
        /\ Message("LocationScouts", new).locations = new
    BY <1>1, MessageType
  <2>3. /\ requests \in Seq(Messages) /\ Len(requests) = 2
        /\ requests[2] = Message("LocationScouts", new)
    <3> DEFINE scouts == Message("LocationScouts", new)
    <3>1. sold \in Messages /\ scouts \in Messages /\ requests = << sold >> \o << scouts >>
      BY <1>2, <2>1, <2>2
    <3> HIDE DEF sold, scouts, requests
    <3>2. /\ << sold >> \in Seq(Messages) /\ << scouts >> \in Seq(Messages)
          /\ Len(<< sold >>) = 1 /\ Len(<< scouts >>) = 1 /\ << scouts >>[1] = scouts
      BY <3>1
    <3>3. requests \in Seq(Messages) /\ Len(requests) = 2 /\ requests[2] = scouts
      BY <3>1, <3>2, ConcatProperties
    <3> QED
      BY <3>3 DEF scouts
  <2>4. /\ hintedLocations' = hintedLocations \union new
        /\ toServer' = Sent(requests)
        /\ UNCHANGED <<inbox, hints, missedHints, linkUp, slotConnected>>
        /\ missing' \subseteq Locations /\ table' \subseteq Locations
    BY DEF Buy, server, RowWritten, HintsInv, QueueType, Locations
  <2> HIDE DEF requests, new
  <2>5. \A l \in new : \E k \in 1 .. Len(requests) :
          requests[k].cmd = "LocationScouts" /\ l \in requests[k].locations
    BY <2>2, <2>3
  <2> QED
    BY <1>1, <2>3, <2>4, <2>5, HintsAsked
<1> QED
  BY <1>3, <1>4

\* The list that is read takes the place of the copy: it holds hints only,
\* and if it was the last under way, all of them.
LEMMA ListHints == HintsInv /\ HintsListed => HintsInv'
<1> SUFFICES ASSUME HintsInv, HintsListed PROVE HintsInv'
  OBVIOUS
<1> USE DEF HintsInv
<1>1. /\ inbox # << >> /\ inbox' = Tail(inbox) /\ Head(inbox).cmd = "Hints"
      /\ hintedLocations' = Head(inbox).locations
      /\ UNCHANGED <<toServer, hints, missing, table, linkUp, slotConnected, missedHints>>
  BY DEF HintsListed, Polls, HintsReplaced, server
<1>2. /\ inbox' \in Seq(Messages) /\ ListsInv'
      /\ Len(inbox) \in Nat \ {0} /\ Head(inbox) = inbox[1] /\ inbox[1].locations \subseteq Locations
      /\ Listed(1) => (NoneListed' => LastListed(1))
      /\ \A k \in 1 .. Len(inbox') : LastListed(k)' => LastListed(k + 1)
      /\ Len(inbox') = Len(inbox) - 1
      /\ \A k \in 1 .. Len(inbox') : inbox'[k] = inbox[k + 1]
  BY <1>1, InboxRead
<1>3. Listed(1) /\ 1 \in 1 .. Len(inbox)
  BY <1>1, <1>2 DEF Listed
<1>4. QueueType'
  BY <1>1, <1>2 DEF QueueType
<1>5. hintedLocations' \subseteq hints
  BY <1>1, <1>2, <1>3 DEF ListsInv
<1>6. GetSent' <=> GetSent
  BY <1>1 DEF GetSent
<1>7. CASE ~(linkUp /\ slotConnected /\ ~GetSent)
  BY <1>1, <1>2, <1>4, <1>6, <1>7 DEF CopyInv
<1>8. CASE linkUp /\ slotConnected /\ ~GetSent
  <2>1. \A k \in 1 .. Len(inbox) : LastListed(k) => hints \subseteq inbox[k].locations \union missedHints
    BY <1>8 DEF CopyInv
  <2>2. NoneListed' => hints' \subseteq hintedLocations' \union missedHints'
    BY <1>1, <1>2, <1>3, <2>1
  <2>3. \A l \in hintedLocations' : l \in hints'
    BY <1>1, <1>5
  <2>4. ASSUME NEW k \in 1 .. Len(inbox'), LastListed(k)'
        PROVE  hints' \subseteq inbox'[k].locations \union missedHints'
    <3>1. k + 1 \in 1 .. Len(inbox) /\ LastListed(k + 1)
      BY <1>2, <2>4
    <3> QED
      BY <1>1, <1>2, <2>1, <2>4, <3>1
  <2>5. CopyInv'
    BY <2>2, <2>3, <2>4 DEF CopyInv
  <2> QED
    BY <1>2, <1>4, <2>5
<1> QED
  BY <1>7, <1>8

\* Another command that is read leaves the copy and the lists alone.
LEMMA RoomHints == HintsInv /\ RoomUpdated => HintsInv'
<1> SUFFICES ASSUME HintsInv, RoomUpdated PROVE HintsInv'
  OBVIOUS
<1> USE DEF HintsInv
<1>1. /\ inbox # << >> /\ inbox' = Tail(inbox) /\ Head(inbox).cmd = "RoomUpdate"
      /\ missing' \subseteq missing
      /\ UNCHANGED <<toServer, hints, hintedLocations, table, linkUp, slotConnected, missedHints>>
  BY DEF RoomUpdated, Polls, server, memory
<1>2. /\ inbox' \in Seq(Messages) /\ ListsInv'
      /\ Len(inbox) \in Nat \ {0} /\ Head(inbox) = inbox[1]
      /\ ~Listed(1) => (NoneListed' => NoneListed)
      /\ \A k \in 1 .. Len(inbox') : LastListed(k)' => LastListed(k + 1)
      /\ Len(inbox') = Len(inbox) - 1
      /\ \A k \in 1 .. Len(inbox') : inbox'[k] = inbox[k + 1]
  BY <1>1, InboxRead
<1>3. NoneListed' => NoneListed
  BY <1>1, <1>2 DEF Listed
<1>4. QueueType'
  BY <1>1, <1>2 DEF QueueType
<1>5. (GetSent' <=> GetSent) /\ \A l : Asked(l)' <=> Asked(l)
  BY <1>1 DEF GetSent, Asked
<1>6. CASE ~(linkUp /\ slotConnected /\ ~GetSent)
  BY <1>1, <1>2, <1>4, <1>5, <1>6 DEF CopyInv
<1>7. CASE linkUp /\ slotConnected /\ ~GetSent
  <2>1. /\ NoneListed => hints \subseteq hintedLocations \union missedHints
        /\ NoneListed => \A l \in hintedLocations : l \in hints \/ Asked(l)
        /\ \A k \in 1 .. Len(inbox) : LastListed(k) => hints \subseteq inbox[k].locations \union missedHints
    BY <1>7 DEF CopyInv
  <2>2. ASSUME NEW k \in 1 .. Len(inbox'), LastListed(k)'
        PROVE  hints' \subseteq inbox'[k].locations \union missedHints'
    <3>1. k + 1 \in 1 .. Len(inbox) /\ LastListed(k + 1)
      BY <1>2, <2>2
    <3> QED
      BY <1>1, <1>2, <2>1, <2>2, <3>1
  <2>3. NoneListed' => \A l \in hintedLocations' : l \in hints' \/ Asked(l)'
    BY <1>1, <1>3, <1>5, <2>1
  <2>4. NoneListed' => hints' \subseteq hintedLocations' \union missedHints'
    BY <1>1, <1>3, <2>1
  <2>5. CopyInv'
    BY <2>2, <2>3, <2>4 DEF CopyInv
  <2> QED
    BY <1>2, <1>4, <2>5
<1> QED
  BY <1>6, <1>7

\* Connected asks for the list anew: until Get has been answered, nothing is
\* said of the copy.
LEMMA ConnectHints == HintsInv /\ SlotConnected => HintsInv'
<1> SUFFICES ASSUME HintsInv, SlotConnected PROVE HintsInv'
  OBVIOUS
<1> USE DEF HintsInv
<1> DEFINE checks == IF table = {} THEN << >> ELSE << Message("LocationChecks", table) >>
           get == << Message("Get", {}), Message("SetNotify", {}) >>
<1>1. /\ inbox # << >> /\ inbox' = Tail(inbox)
      /\ missing' \subseteq Head(inbox).locations
      /\ toServer' = Sent(checks \o get)
      /\ UNCHANGED <<hints, hintedLocations, table, linkUp, missedHints>>
  BY DEF SlotConnected, Polls, server
<1>2. /\ inbox' \in Seq(Messages) /\ ListsInv'
      /\ Head(inbox) = inbox[1] /\ inbox[1].locations \subseteq Locations
  BY <1>1, InboxRead
<1>3. /\ checks \in Seq(Messages) /\ get \in Seq(Messages)
      /\ Len(get) = 2 /\ get[1].cmd = "Get"
  <2>1. /\ Message("LocationChecks", table) \in Messages
        /\ Message("Get", {}) \in Messages /\ Message("SetNotify", {}) \in Messages
        /\ Message("Get", {}).cmd = "Get"
    BY MessageType DEF QueueType
  <2>2. checks \in Seq(Messages)
    BY <2>1
  <2> QED
    BY <2>1, <2>2
<1> HIDE DEF checks, get
<1>4. /\ checks \o get \in Seq(Messages) /\ Len(checks) \in Nat
      /\ Len(checks \o get) = Len(checks) + 2
      /\ (checks \o get)[Len(checks) + 1] = get[1]
  <2>1. /\ checks \o get \in Seq(Messages) /\ Len(checks) \in Nat
        /\ Len(checks \o get) = Len(checks) + Len(get)
        /\ \A k \in 1 .. Len(get) : (checks \o get)[Len(checks) + k] = get[k]
    BY <1>3, Queued
  <2>2. 1 \in 1 .. Len(get)
    BY <1>3
  <2>3. (checks \o get)[Len(checks) + 1] = get[1]
    BY <2>1, <2>2
  <2> QED
    BY <1>3, <2>1, <2>3
<1>5. toServer \in Seq(Messages) /\ Len(toServer) \in Nat
  BY LenProperties DEF QueueType
<1>6. toServer' \in Seq(Messages)
  BY <1>1, <1>4, <1>5, ConcatProperties DEF Sent
<1>7. QueueType'
  BY <1>1, <1>2, <1>6 DEF QueueType
<1>8. linkUp => GetSent'
  <2>1. ASSUME linkUp PROVE GetSent'
    <3> DEFINE k == Len(toServer) + (Len(checks) + 1)
    <3>1. toServer' = toServer \o (checks \o get)
      BY <1>1, <2>1 DEF Sent
    <3>2. /\ Len(toServer') = Len(toServer) + (Len(checks) + 2)
          /\ toServer'[k] = (checks \o get)[Len(checks) + 1]
      <4>1. /\ Len(toServer') = Len(toServer) + Len(checks \o get)
            /\ \A n \in 1 .. Len(checks \o get) : toServer'[Len(toServer) + n] = (checks \o get)[n]
        BY <1>4, <1>5, <3>1, Queued
      <4>2. Len(checks) + 1 \in 1 .. Len(checks \o get)
        BY <1>4
      <4> QED
        BY <1>4, <4>1, <4>2
    <3>3. k \in 1 .. Len(toServer')
      BY <1>4, <1>5, <3>2
    <3>4. toServer'[k].cmd = "Get"
      BY <1>3, <1>4, <3>2
    <3> HIDE DEF k
    <3> QED
      BY <3>3, <3>4 DEF GetSent
  <2> QED
    BY <2>1
<1>9. CopyInv'
  BY <1>1, <1>8 DEF CopyInv
<1> QED
  BY <1>2, <1>7, <1>9

\* Locations that the server hints, whether it tells the client or not: asked
\* for by the client, who has them in its copy, or by somebody else.
LEMMA HintGiven ==
    ASSUME HintsInv, NEW locations \in SUBSET Locations, Hint(locations),
           toServer' \in Seq(Messages), GetSent => GetSent',
           \A l : Asked(l) => Asked(l)' \/ l \in locations,
           UNCHANGED <<hintedLocations, missing, table, linkUp, slotConnected>>
    PROVE  HintsInv'
<1> USE DEF HintsInv
<1>1. hints' = hints \union locations /\ hints' \in SUBSET Locations
  BY DEF Hint, QueueType
<1>2. CASE notifying /\ hints' # hints
  <2> DEFINE message == Message("Hints", hints')
  <2>1. inbox' = Append(inbox, message) /\ missedHints' = {}
    BY <1>2 DEF Hint
  <2>2. message \in Messages /\ message.cmd = "Hints" /\ message.locations = hints'
    BY <1>1, MessageType
  <2> HIDE DEF message
  <2>3. /\ inbox' \in Seq(Messages) /\ Len(inbox) \in Nat /\ Len(inbox') = Len(inbox) + 1
        /\ \A k \in 1 .. Len(inbox) : inbox'[k] = inbox[k]
        /\ inbox'[Len(inbox) + 1] = message
        /\ ~NoneListed'
        /\ \A k \in 1 .. Len(inbox') : LastListed(k)' => k = Len(inbox) + 1
    BY <2>1, <2>2, InboxGrows
  <2>4. QueueType'
    BY <1>1, <2>3 DEF QueueType
  <2>5. ListsInv'
    <3>1. ASSUME NEW k \in 1 .. Len(inbox'), Listed(k)' PROVE inbox'[k].locations \subseteq hints'
      <4>1. CASE k \in 1 .. Len(inbox)
        BY <1>1, <2>3, <3>1, <4>1 DEF ListsInv, Listed
      <4>2. CASE k = Len(inbox) + 1
        BY <2>2, <2>3, <4>2
      <4> QED
        BY <2>3, <4>1, <4>2
    <3> QED
      BY <3>1 DEF ListsInv
  <2>6. CopyInv'
    BY <2>2, <2>3 DEF CopyInv
  <2> QED
    BY <2>4, <2>5, <2>6
<1>3. CASE ~(notifying /\ hints' # hints)
  <2>1. inbox' = inbox /\ missedHints' = missedHints \union (hints' \ hints)
    BY <1>3 DEF Hint
  <2>2. QueueType'
    BY <1>1, <2>1 DEF QueueType
  <2>3. /\ \A k \in 1 .. Len(inbox) : Listed(k)' <=> Listed(k)
        /\ NoneListed' <=> NoneListed
        /\ \A k \in 1 .. Len(inbox) : LastListed(k)' <=> LastListed(k)
    BY <2>1 DEF NoneListed, LastListed, Listed
  <2>4. ListsInv'
    BY <1>1, <2>1, <2>3 DEF ListsInv
  <2>5. CopyInv'
    <3> SUFFICES ASSUME linkUp /\ slotConnected /\ ~GetSent
                 PROVE  /\ NoneListed => hints' \subseteq hintedLocations \union missedHints'
                        /\ NoneListed => \A l \in hintedLocations : l \in hints' \/ Asked(l)'
                        /\ \A k \in 1 .. Len(inbox) :
                             LastListed(k) => hints' \subseteq inbox[k].locations \union missedHints'
      BY <2>1, <2>3 DEF CopyInv
    <3>1. /\ NoneListed => hints \subseteq hintedLocations \union missedHints
          /\ NoneListed => \A l \in hintedLocations : l \in hints \/ Asked(l)
          /\ \A k \in 1 .. Len(inbox) :
               LastListed(k) => hints \subseteq inbox[k].locations \union missedHints
      BY DEF CopyInv
    <3>2. NoneListed => \A l \in hintedLocations : l \in hints' \/ Asked(l)'
      BY <1>1, <3>1
    <3>3. /\ NoneListed => hints' \subseteq hintedLocations \union missedHints'
          /\ \A k \in 1 .. Len(inbox) :
               LastListed(k) => hints' \subseteq inbox[k].locations \union missedHints'
      BY <2>1, <3>1
    <3> QED
      BY <3>2, <3>3
  <2> QED
    BY <2>2, <2>4, <2>5
<1> QED
  BY <1>2, <1>3

\* A command that is no list of hints changes nothing for the lists.
LEMMA UpdateSent ==
    ASSUME HintsInv,
           \/ UNCHANGED inbox
           \/ \E message \in Messages : message.cmd = "RoomUpdate" /\ inbox' = Append(inbox, message),
           toServer' \in Seq(Messages), GetSent => GetSent', \A l : Asked(l) => Asked(l)',
           UNCHANGED <<hints, missedHints, hintedLocations, missing, table, linkUp, slotConnected>>
    PROVE  HintsInv'
<1> USE DEF HintsInv
<1>1. /\ inbox' \in Seq(Messages) /\ (NoneListed' => NoneListed)
      /\ \A k \in 1 .. Len(inbox') : Listed(k)' => k \in 1 .. Len(inbox) /\ Listed(k) /\ inbox'[k] = inbox[k]
      /\ \A k \in 1 .. Len(inbox') : LastListed(k)' => k \in 1 .. Len(inbox) /\ LastListed(k)
  <2>1. CASE UNCHANGED inbox
    BY <2>1 DEF QueueType, NoneListed, LastListed, Listed
  <2>2. CASE \E message \in Messages : message.cmd = "RoomUpdate" /\ inbox' = Append(inbox, message)
    <3>1. PICK message \in Messages : message.cmd = "RoomUpdate" /\ inbox' = Append(inbox, message)
      BY <2>2
    <3>2. /\ inbox' \in Seq(Messages) /\ Len(inbox) \in Nat /\ Len(inbox') = Len(inbox) + 1
          /\ \A k \in 1 .. Len(inbox) : inbox'[k] = inbox[k]
          /\ inbox'[Len(inbox) + 1] = message
          /\ NoneListed' => NoneListed
          /\ \A k \in 1 .. Len(inbox') : LastListed(k)' => k \in 1 .. Len(inbox) /\ LastListed(k)
      BY <3>1, InboxGrows
    <3>3. ASSUME NEW k \in 1 .. Len(inbox'), Listed(k)'
          PROVE  k \in 1 .. Len(inbox) /\ Listed(k) /\ inbox'[k] = inbox[k]
      <4>1. k # Len(inbox) + 1
        BY <3>1, <3>2, <3>3 DEF Listed
      <4>2. k \in 1 .. Len(inbox)
        BY <3>2, <4>1
      <4> QED
        BY <3>2, <3>3, <4>2 DEF Listed
    <3> QED
      BY <3>2, <3>3
  <2> QED
    BY <2>1, <2>2
<1>2. QueueType'
  BY <1>1 DEF QueueType
<1>3. ListsInv'
  BY <1>1 DEF ListsInv
<1>4. CopyInv'
  <2>1. CASE ~(linkUp /\ slotConnected /\ ~GetSent)
    BY <2>1 DEF CopyInv
  <2>2. CASE linkUp /\ slotConnected /\ ~GetSent
    <3>1. /\ NoneListed => hints \subseteq hintedLocations \union missedHints
          /\ NoneListed => \A l \in hintedLocations : l \in hints \/ Asked(l)
          /\ \A k \in 1 .. Len(inbox) :
               LastListed(k) => hints \subseteq inbox[k].locations \union missedHints
      BY <2>2 DEF CopyInv
    <3>2. \A k \in 1 .. Len(inbox') : LastListed(k)' => inbox'[k] = inbox[k]
      BY <1>1 DEF LastListed
    <3>3. \A k \in 1 .. Len(inbox') :
            LastListed(k)' => hints' \subseteq inbox'[k].locations \union missedHints'
      BY <1>1, <3>1, <3>2
    <3>4. NoneListed' => \A l \in hintedLocations' : l \in hints' \/ Asked(l)'
      BY <1>1, <3>1
    <3>5. NoneListed' => hints' \subseteq hintedLocations' \union missedHints'
      BY <1>1, <3>1
    <3> QED
      BY <3>3, <3>4, <3>5 DEF CopyInv
  <2> QED
    BY <2>1, <2>2
<1> QED
  BY <1>2, <1>3, <1>4

\* What the server does with the request it reads.
LEMMA ServerHints == HintsInv /\ ServerReceives => HintsInv'
<1> SUFFICES ASSUME HintsInv, ServerReceives PROVE HintsInv'
  OBVIOUS
<1>1. /\ toServer # << >> /\ toServer' = Tail(toServer)
      /\ UNCHANGED <<hintedLocations, missing, table, linkUp, slotConnected>>
  BY DEF ServerReceives, memory
<1>2. QueueType /\ ListsInv /\ CopyInv
  BY DEF HintsInv
<1> DEFINE request == toServer[1]
<1>3. /\ toServer' \in Seq(Messages) /\ Head(toServer) = request
      /\ request \in Messages /\ request.locations \in SUBSET Locations
      /\ request.cmd # "Get" => (GetSent => GetSent')
      /\ \A l : Asked(l) => (request.cmd = "LocationScouts" /\ l \in request.locations) \/ Asked(l)'
  BY <1>1, <1>2, ServerRead
<1> HIDE DEF request
<1>4. CASE request.cmd = "LocationChecks"
  <2>1. /\ UNCHANGED <<hints, missedHints>>
        /\ \/ UNCHANGED inbox
           \/ inbox' = Append(inbox, Message("RoomUpdate", request.locations))
    BY <1>3, <1>4 DEF ServerReceives
  <2>2. /\ Message("RoomUpdate", request.locations) \in Messages
        /\ Message("RoomUpdate", request.locations).cmd = "RoomUpdate"
    BY <1>3, MessageType
  <2> QED
    BY <1>1, <1>3, <1>4, <2>1, <2>2, UpdateSent
<1>5. CASE request.cmd = "LocationScouts"
  <2>1. Hint(request.locations)
    BY <1>3, <1>5 DEF ServerReceives
  <2> QED
    BY <1>1, <1>3, <1>5, <2>1, HintGiven
<1>6. CASE request.cmd = "Get"
  <2> DEFINE message == Message("Hints", hints)
  <2>1. inbox' = Append(inbox, message) /\ hints' = hints /\ missedHints' = {}
    BY <1>3, <1>6 DEF ServerReceives
  <2>2. message \in Messages /\ message.cmd = "Hints" /\ message.locations = hints
    BY <1>2, MessageType DEF QueueType
  <2> HIDE DEF message
  <2>3. /\ inbox' \in Seq(Messages) /\ Len(inbox) \in Nat /\ Len(inbox') = Len(inbox) + 1
        /\ \A k \in 1 .. Len(inbox) : inbox'[k] = inbox[k]
        /\ inbox'[Len(inbox) + 1] = message
        /\ ~NoneListed'
        /\ \A k \in 1 .. Len(inbox') : LastListed(k)' => k = Len(inbox) + 1
    BY <1>2, <2>1, <2>2, InboxGrows
  <2>4. QueueType'
    BY <1>1, <1>2, <1>3, <2>1, <2>3 DEF QueueType
  <2>5. ListsInv'
    <3>1. ASSUME NEW k \in 1 .. Len(inbox'), Listed(k)' PROVE inbox'[k].locations \subseteq hints'
      <4>1. CASE k \in 1 .. Len(inbox)
        BY <1>2, <2>1, <2>3, <3>1, <4>1 DEF ListsInv, Listed
      <4>2. CASE k = Len(inbox) + 1
        BY <2>1, <2>2, <2>3, <4>2
      <4> QED
        BY <2>3, <4>1, <4>2
    <3> QED
      BY <3>1 DEF ListsInv
  <2>6. CopyInv'
    BY <2>1, <2>2, <2>3 DEF CopyInv
  <2> QED
    BY <2>4, <2>5, <2>6 DEF HintsInv
<1>7. CASE request.cmd = "SetNotify"
  <2>1. UNCHANGED <<inbox, hints, missedHints>>
    BY <1>3, <1>7 DEF ServerReceives
  <2> QED
    BY <1>1, <1>3, <1>7, <2>1, UpdateSent
<1> QED
  BY <1>3, <1>4, <1>5, <1>6, <1>7 DEF ServerReceives

LEMMA ElsewhereHints ==
    ASSUME HintsInv, NEW l \in Locations, HintedElsewhere(l) \/ CheckedElsewhere(l)
    PROVE  HintsInv'
<1>1. /\ UNCHANGED <<toServer, hintedLocations, missing, table, linkUp, slotConnected>>
      /\ toServer' \in Seq(Messages)
  BY DEF HintedElsewhere, CheckedElsewhere, HintsInv, QueueType, memory
<1>2. (GetSent <=> GetSent') /\ \A m : Asked(m) <=> Asked(m)'
  BY <1>1 DEF GetSent, Asked
<1>3. CASE HintedElsewhere(l)
  <2>1. Hint({l}) /\ {l} \in SUBSET Locations
    BY <1>3 DEF HintedElsewhere
  <2> QED
    BY <1>1, <1>2, <2>1, HintGiven
<1>4. CASE CheckedElsewhere(l)
  <2>1. /\ UNCHANGED <<hints, missedHints>>
        /\ \/ UNCHANGED inbox
           \/ inbox' = Append(inbox, Message("RoomUpdate", {l}))
    BY <1>4 DEF CheckedElsewhere
  <2>2. /\ Message("RoomUpdate", {l}) \in Messages
        /\ Message("RoomUpdate", {l}).cmd = "RoomUpdate"
    BY MessageType
  <2> QED
    BY <1>1, <1>2, <2>1, <2>2, UpdateSent
<1> QED
  BY <1>3, <1>4

\* Nothing is said of the copy without a connection on both sides.
LEMMA LinkHints == HintsInv /\ (Link \/ LinkLost \/ PollClose) => HintsInv'
<1> SUFFICES ASSUME HintsInv, Link \/ LinkLost \/ PollClose PROVE HintsInv'
  OBVIOUS
<1> USE DEF HintsInv
<1>1. UNCHANGED <<hints, hintedLocations, missing, table>> /\ ~(linkUp /\ slotConnected)'
  BY DEF Link, LinkLost, PollClose, Cut, server, memory, connection
<1>2. toServer' \in Seq(Messages)
  BY EmptySeq DEF Link, LinkLost, PollClose, Cut, connection, QueueType
<1>3. /\ inbox' \in Seq(Messages)
      /\ \A k \in 1 .. Len(inbox') :
           inbox'[k].cmd = "Connected" \/ (k \in 1 .. Len(inbox) /\ inbox'[k] = inbox[k])
  <2>1. inbox \in Seq(Messages) /\ Len(inbox) \in Nat
    BY LenProperties DEF QueueType
  <2>2. CASE Link
    <3> DEFINE message == Message("Connected", Locations \ reached)
    <3>1. message \in Messages /\ message.cmd = "Connected"
      BY MessageType
    <3>2. inbox' = << message >>
      BY <2>2 DEF Link
    <3> HIDE DEF message
    <3> QED
      BY <3>1, <3>2
  <2>3. CASE LinkLost
    <3>1. PICK n \in 0 .. Len(inbox) : inbox' = SubSeq(inbox, 1, n)
      BY <2>3 DEF LinkLost
    <3>2. \A k \in 1 .. n : inbox[k] \in Messages
      BY <2>1, ElementOfSeq
    <3>3. inbox' \in Seq(Messages) /\ Len(inbox') = n /\ \A k \in 1 .. n : inbox'[k] = inbox[k]
      BY <2>1, <3>1, <3>2, SubSeqProperties
    <3> QED
      BY <2>1, <3>3
  <2>4. CASE PollClose
    BY <2>1, <2>4 DEF PollClose, connection
  <2> QED
    BY <2>2, <2>3, <2>4
<1>4. QueueType'
  BY <1>1, <1>2, <1>3 DEF QueueType
<1>5. ListsInv'
  BY <1>1, <1>3 DEF ListsInv, Listed
<1> QED
  BY <1>1, <1>4, <1>5 DEF CopyInv

LEMMA FreedHints == HintsInv /\ (Logout \/ Crash) => HintsInv'
<1> SUFFICES ASSUME HintsInv, Logout \/ Crash PROVE HintsInv'
  OBVIOUS
<1>1. /\ toServer' = << >> /\ inbox' = << >> /\ linkUp' = FALSE
      /\ missing' = {} /\ hintedLocations' = {} /\ UNCHANGED <<hints, table>>
  BY DEF Logout, Crash, Freed, Cut
<1>2. toServer' \in Seq(Messages) /\ inbox' \in Seq(Messages) /\ Len(inbox') = 0
  BY <1>1, EmptySeq
<1> QED
  BY <1>1, <1>2 DEF HintsInv, QueueType, ListsInv, CopyInv

\* Every step keeps the copy and what is under way in order.
LEMMA StepHints == HintsInv /\ [Next]_vars => HintsInv'
<1> SUFFICES ASSUME HintsInv, [Next]_vars PROVE HintsInv'
  OBVIOUS
<1>1. CASE Open \/ ReadScroll
  BY <1>1, OpenHints
<1>2. ASSUME NEW i \in Items, Buy(i) PROVE HintsInv'
  BY <1>2, BuyHints
<1>3. CASE SlotConnected
  BY <1>3, ConnectHints
<1>4. CASE RoomUpdated
  BY <1>4, RoomHints
<1>5. CASE HintsListed
  BY <1>5, ListHints
<1>6. CASE ServerReceives
  BY <1>6, ServerHints
<1>7. ASSUME NEW l \in Locations, HintedElsewhere(l) \/ CheckedElsewhere(l) PROVE HintsInv'
  BY <1>7, ElsewhereHints
<1>8. CASE Link \/ LinkLost \/ PollClose
  BY <1>8, LinkHints
<1>9. CASE Logout \/ Crash
  BY <1>9, FreedHints
<1>10. CASE Grow \/ CoreSaves \/ Login \/ UNCHANGED vars
  <2>1. UNCHANGED hinting
    BY <1>10 DEF Grow, CoreSaves, Login, vars, hinting, connection, server, memory
  <2> QED
    BY <2>1, HintsKept
<1> QED
  BY <1>1, <1>2, <1>3, <1>4, <1>5, <1>6, <1>7, <1>8, <1>9, <1>10 DEF Next

\* With nothing under way the copy of the hints is the server's list, but for
\* the hints given between the answer to Get and SetNotify: whatever the
\* client asked for ahead of the server, and whoever else asked meanwhile.
THEOREM HintsAlwaysSettle == Spec => []HintsSettle
<1>1. HintsInv => HintsSettle
  <2> SUFFICES ASSUME HintsInv, slotConnected, linkUp, toServer = << >>, inbox = << >>
               PROVE  hintedLocations \subseteq hints /\ hints \ hintedLocations \subseteq missedHints
    BY DEF HintsSettle
  <2>1. Len(toServer) = 0 /\ Len(inbox) = 0
    BY EmptySeq
  <2>2. NoneListed /\ ~GetSent /\ \A l : ~Asked(l)
    BY <2>1 DEF NoneListed, GetSent, Asked
  <2> QED
    BY <2>2 DEF HintsInv, CopyInv
<1> QED
  BY <1>1, HintsInit, StepHints, PTL DEF Spec

-----------------------------------------------------------------------------
(* Types *)

PurchaseType == /\ Spent(paid) <= Coins /\ Spent(paidSaved) <= Coins
                /\ grown \in BOOLEAN
ServerType == /\ reached \subseteq Locations /\ missedHints \subseteq Locations
              /\ linkUp \in BOOLEAN /\ notifying \in BOOLEAN
              /\ slotConnected \in BOOLEAN /\ online \in BOOLEAN
              /\ faults \in 0 .. MaxFaults

\* What the types rest on
TypeInv == ShopInv /\ HintsInv /\ PurchaseType /\ ServerType

\* Nothing has been spent on nothing.
LEMMA SpentNothing == Spent([i \in Items |-> 0]) = 0
<1> DEFINE bought == [i \in Items |-> 0]
<1>1. \A i \in Items : bought[i] * Price(i) = 0
  BY DEF Price
<1>2. \A i \in Items : {i} \X (1 .. bought[i] * Price(i)) = {}
  BY <1>1
<1>3. UNION {{i} \X (1 .. bought[i] * Price(i)) : i \in Items} = {}
  <2> HIDE DEF bought
  <2> QED
    BY <1>2
<1> QED
  BY <1>3, FS_EmptySet DEF Spent

\* An item that is bought costs its price.
LEMMA SpentMore ==
    ASSUME NEW bought \in [Items -> {0, 1}], NEW i \in Items, bought[i] = 0
    PROVE  Spent([bought EXCEPT ![i] = 1]) = Spent(bought) + Price(i)
<1> DEFINE C(b) == UNION {{j} \X (1 .. b[j] * Price(j)) : j \in Items}
           more == [bought EXCEPT ![i] = 1]
<1>1. /\ more \in [Items -> {0, 1}] /\ more[i] = 1
      /\ \A j \in Items : j # i => more[j] = bought[j]
  OBVIOUS
<1>2. ASSUME NEW b \in [Items -> {0, 1}], NEW c
      PROVE  c \in C(b) <=> \E j \in Items : \E k \in 1 .. Price(j) : c = <<j, k>> /\ b[j] = 1
  <2>1. c \in C(b) <=> \E j \in Items : \E k \in 1 .. b[j] * Price(j) : c = <<j, k>>
    OBVIOUS
  <2>2. ASSUME NEW j \in Items
        PROVE  /\ b[j] = 1 => b[j] * Price(j) = Price(j)
               /\ b[j] # 1 => b[j] * Price(j) = 0
    <3>1. b[j] = 1 \/ b[j] = 0
      OBVIOUS
    <3>2. Price(j) \in {1, 2}
      BY DEF Price
    <3> QED
      BY <3>1, <3>2
  <2>3. \A k : ~(k \in 1 .. 0)
    OBVIOUS
  <2> QED
    BY <2>1, <2>2, <2>3
<1>3. \A j \in Items : Price(j) \in {1, 2}
  BY DEF Price
<1>4. IsFiniteSet(C(bought))
  <2>1. IsFiniteSet(Items \X (1 .. 2))
    <3>1. IsFiniteSet(Items)
      BY ShopAssumption
    <3>2. 1 \in Int /\ 2 \in Int
      OBVIOUS
    <3>3. IsFiniteSet(1 .. 2)
      BY <3>2, FS_Interval
    <3> QED
      BY <3>1, <3>3, FS_Product
  <2>2. C(bought) \subseteq Items \X (1 .. 2)
    <3> HIDE DEF C
    <3>1. \A j \in Items : \A k \in 1 .. Price(j) : k \in 1 .. 2
      BY <1>3
    <3> QED
      BY <1>2, <3>1
  <2> HIDE DEF C
  <2> QED
    BY <2>1, <2>2, FS_Subset
<1>5. Spent(bought) = Cardinality(C(bought)) /\ Spent(more) = Cardinality(C(more))
  BY DEF Spent
<1> HIDE DEF C, more
<1>6. <<i, 1>> \notin C(bought) /\ <<i, 2>> \notin C(bought)
  BY <1>2
<1>7. Cardinality(C(bought)) \in Nat
  BY <1>4, FS_CardinalityType
<1>8. \A c : c \in C(more) <=> c \in C(bought) \/ \E k \in 1 .. Price(i) : c = <<i, k>>
  BY <1>1, <1>2
<1>9. /\ IsFiniteSet(C(bought) \union {<<i, 1>>})
      /\ Cardinality(C(bought) \union {<<i, 1>>}) = Cardinality(C(bought)) + 1
  BY <1>4, <1>6, FS_AddElement
<1>10. CASE Price(i) = 1
  <2>1. C(more) = C(bought) \union {<<i, 1>>}
    BY <1>8, <1>10
  <2> QED
    BY <1>5, <1>9, <1>10, <2>1 DEF more
<1>11. CASE Price(i) = 2
  <2>1. \A k \in 1 .. 2 : k = 1 \/ k = 2
    OBVIOUS
  <2>2. C(more) = (C(bought) \union {<<i, 1>>}) \union {<<i, 2>>}
    BY <1>8, <1>11, <2>1
  <2>3. <<i, 2>> \notin C(bought) \union {<<i, 1>>}
    BY <1>6
  <2>4. Cardinality(C(more)) = Cardinality(C(bought) \union {<<i, 1>>}) + 1
    <3> DEFINE D == C(bought) \union {<<i, 1>>}
    <3>1. IsFiniteSet(D) /\ <<i, 2>> \notin D /\ C(more) = D \union {<<i, 2>>}
      BY <1>9, <2>2, <2>3
    <3> HIDE DEF D
    <3>2. Cardinality(C(more)) = Cardinality(D) + 1
      BY <3>1, FS_AddElement
    <3> QED
      BY <3>2 DEF D
  <2>5. Cardinality(C(more)) = Cardinality(C(bought)) + 2
    BY <1>7, <1>9, <2>4
  <2> QED
    BY <1>5, <1>11, <2>5 DEF more
<1> QED
  BY <1>3, <1>10, <1>11

LEMMA NextPurchase == ShopInv /\ PurchaseType /\ [Next]_vars => PurchaseType'
<1> SUFFICES ASSUME ShopInv, PurchaseType, [Next]_vars PROVE PurchaseType'
  OBVIOUS
<1> USE DEF PurchaseType
<1>1. ASSUME NEW i \in Items, Buy(i) PROVE PurchaseType'
  <2>1. i \notin table
    BY <1>1 DEF Buy, Sold, IsLocationChecked, ShopInv, MemoryInv
  <2>2. paid \in [Items -> {0, 1}] /\ paid[i] = 0
    BY <2>1 DEF ShopInv, PurseInv
  <2>3. paid' = [paid EXCEPT ![i] = paid[i] + 1]
    BY <1>1 DEF Buy
  <2>4. paid' = [paid EXCEPT ![i] = 1]
    BY <2>2, <2>3
  <2>5. Spent(paid') = Spent(paid) + Price(i)
    BY <2>2, <2>4, SpentMore
  <2>6. Spent(paid') <= Coins
    BY <1>1, <2>5 DEF Buy, Afford
  <2>7. UNCHANGED <<paidSaved, grown>>
    BY <1>1 DEF Buy
  <2> QED
    BY <2>6, <2>7 DEF Spent
<1>2. CASE CoreSaves \/ Logout \/ Crash
  <2>1. paid' \in {paid, paidSaved} /\ paidSaved' \in {paid, paidSaved} /\ grown' = grown
    BY <1>2 DEF CoreSaves, Logout, Crash
  <2>2. Spent(paid') <= Coins /\ Spent(paidSaved') <= Coins
    BY <2>1
  <2> QED
    BY <2>1, <2>2 DEF Spent
<1>3. CASE Grow
  BY <1>3 DEF Grow, Spent
<1>4. ASSUME \/ Open \/ ReadScroll \/ SlotConnected \/ RoomUpdated \/ HintsListed \/ PollClose
             \/ ServerReceives \/ Link \/ LinkLost \/ Login \/ UNCHANGED vars
             \/ \E l \in Locations : HintedElsewhere(l) \/ CheckedElsewhere(l)
      PROVE  PurchaseType'
  <2>1. UNCHANGED core
    BY <1>4
       DEF Open, ReadScroll, SlotConnected, RoomUpdated, HintsListed, PollClose, ServerReceives, Link,
           LinkLost, Login, HintedElsewhere, CheckedElsewhere, core, vars
  <2> QED
    BY <2>1 DEF core, Spent
<1> QED
  BY <1>1, <1>2, <1>3, <1>4 DEF Next

LEMMA NextServer == HintsInv /\ ServerType /\ [Next]_vars => ServerType'
<1> SUFFICES ASSUME HintsInv, ServerType, [Next]_vars PROVE ServerType'
  OBVIOUS
<1> USE DEF ServerType
<1>0. QueueType
  BY DEF HintsInv
<1>1. CASE ServerReceives
  <2> DEFINE request == toServer[1]
  <2>1. request = Head(toServer) /\ request.locations \subseteq Locations
    BY <1>0, <1>1, Unqueued, QueueTypes DEF ServerReceives, QueueType
  <2> HIDE DEF request
  <2>2. reached' \subseteq Locations
    BY <1>1, <2>1 DEF ServerReceives
  <2>3. missedHints' \subseteq Locations
    BY <1>1, <2>1 DEF ServerReceives, Hint
  <2>4. notifying' \in BOOLEAN
    BY <1>1 DEF ServerReceives
  <2>5. UNCHANGED <<linkUp, slotConnected, online, faults>>
    BY <1>1 DEF ServerReceives
  <2> QED
    BY <2>2, <2>3, <2>4, <2>5
<1>2. ASSUME NEW l \in Locations, HintedElsewhere(l) \/ CheckedElsewhere(l) PROVE ServerType'
  <2>1. reached' \subseteq Locations /\ missedHints' \subseteq Locations
    BY <1>2 DEF HintedElsewhere, CheckedElsewhere, Hint
  <2>2. UNCHANGED <<linkUp, notifying, slotConnected, online, faults>>
    BY <1>2 DEF HintedElsewhere, CheckedElsewhere
  <2> QED
    BY <2>1, <2>2
<1>3. CASE LinkLost \/ Logout \/ Crash
  <2>1. faults < MaxFaults /\ faults' = faults + 1 /\ MaxFaults \in Nat
    BY <1>3, ShopAssumption DEF LinkLost, Logout, Crash
  <2>2. faults' \in 0 .. MaxFaults
    BY <2>1
  <2>3. UNCHANGED <<reached, missedHints>>
    BY <1>3 DEF LinkLost, Logout, Crash
  <2>4. linkUp' \in BOOLEAN /\ notifying' \in BOOLEAN /\ slotConnected' \in BOOLEAN /\ online' \in BOOLEAN
    BY <1>3 DEF LinkLost, Logout, Crash, Freed, Cut
  <2> QED
    BY <2>2, <2>3, <2>4
<1>4. ASSUME \/ Open \/ ReadScroll \/ SlotConnected \/ RoomUpdated \/ HintsListed \/ PollClose
             \/ Link \/ Grow \/ CoreSaves \/ Login \/ UNCHANGED vars
             \/ \E i \in Items : Buy(i)
      PROVE  ServerType'
  <2>1. UNCHANGED <<reached, missedHints, notifying, faults>>
    BY <1>4
       DEF Open, ReadScroll, SlotConnected, RoomUpdated, HintsListed, PollClose, Link, Grow, CoreSaves,
           Login, Buy, server, vars
  <2>2. linkUp' \in {linkUp, TRUE}
    BY <1>4
       DEF Open, ReadScroll, SlotConnected, RoomUpdated, HintsListed, PollClose, Link, Grow, CoreSaves,
           Login, Buy, connection, vars
  <2>3. slotConnected' \in {slotConnected, TRUE, FALSE}
    BY <1>4
       DEF Open, ReadScroll, SlotConnected, RoomUpdated, HintsListed, PollClose, Link, Grow, CoreSaves,
           Login, Buy, vars
  <2>4. online' \in {online, TRUE}
    BY <1>4
       DEF Open, ReadScroll, SlotConnected, RoomUpdated, HintsListed, PollClose, Link, Grow, CoreSaves,
           Login, Buy, vars
  <2> QED
    BY <2>1, <2>2, <2>3, <2>4
<1> QED
  BY <1>1, <1>2, <1>3, <1>4 DEF Next

\* The variables keep their types and no more gold is spent than there is,
\* also with the gold that a crash brings back.
THEOREM TypeCorrect == Spec => []TypeOK
<1>1. Init => TypeInv
  <2> SUFFICES ASSUME Init PROVE PurchaseType /\ ServerType
    BY InitInv, HintsInit DEF TypeInv
  <2>1. PurchaseType
    <3>1. paid = [i \in Items |-> 0] /\ paidSaved = [i \in Items |-> 0] /\ grown = FALSE
      BY DEF Init
    <3>2. Spent(paid) = 0 /\ Spent(paidSaved) = 0
      BY <3>1, SpentNothing
    <3>3. 0 <= Coins
      BY ShopAssumption
    <3> QED
      BY <3>1, <3>2, <3>3 DEF PurchaseType
  <2>2. ServerType
    <3>1. faults = 0 /\ MaxFaults \in Nat
      BY ShopAssumption DEF Init
    <3>2. faults \in 0 .. MaxFaults
      BY <3>1
    <3>3. /\ reached = {} /\ missedHints = {} /\ linkUp = FALSE /\ notifying = FALSE
          /\ slotConnected = FALSE /\ online = TRUE
      BY DEF Init
    <3> QED
      BY <3>2, <3>3 DEF ServerType
  <2> QED
    BY <2>1, <2>2
<1>2. TypeInv /\ [Next]_vars => TypeInv'
  <2> SUFFICES ASSUME TypeInv, [Next]_vars PROVE TypeInv'
    OBVIOUS
  <2>1. ShopInv' /\ HintsInv'
    BY StepInv, StepHints DEF TypeInv
  <2>2. PurchaseType' /\ ServerType'
    BY NextPurchase, NextServer DEF TypeInv
  <2> QED
    BY <2>1, <2>2 DEF TypeInv
<1>3. TypeInv => TypeOK
  <2> SUFFICES ASSUME TypeInv PROVE TypeOK
    OBVIOUS
  <2>1. {paid, paidSaved} \subseteq [Items -> Nat] /\ checkedLocations \subseteq table
    BY DEF TypeInv, ShopInv, PurseInv, MemoryInv
  <2>2. /\ toServer \in Seq(Messages) /\ inbox \in Seq(Messages)
        /\ hints \union missing \union hintedLocations \union table \subseteq Locations
    BY DEF TypeInv, HintsInv, QueueType
  <2>3. Spent(paid) <= Coins /\ grown \in BOOLEAN
    BY DEF TypeInv, PurchaseType
  <2>4. /\ reached \subseteq Locations /\ missedHints \subseteq Locations /\ faults \in 0 .. MaxFaults
        /\ {linkUp, notifying, slotConnected, online} \subseteq BOOLEAN
    BY DEF TypeInv, ServerType
  <2> QED
    BY <2>1, <2>2, <2>3, <2>4 DEF TypeOK
<1> QED
  BY <1>1, <1>2, <1>3, PTL DEF Spec
=============================================================================
