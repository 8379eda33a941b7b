-------------------------- MODULE ItemDeliveryProofs --------------------------
(***************************************************************************)
(* Proofs about ItemDelivery, for any item list, any number of faults and  *)
(* slot data of any quality.                                               *)
(***************************************************************************)
EXTENDS ItemDelivery, SequenceTheorems, FiniteSetTheorems, TLAPS

-----------------------------------------------------------------------------
(* The inductive invariant, in three layers: how the item list flows to    *)
(* the handler, what has been counted, and what has been mailed.           *)

FlowType ==
    /\ items \in Seq(Kinds) /\ Len(items) <= MaxItems
    /\ slotDataGood \in BOOLEAN /\ linked \in BOOLEAN /\ online \in BOOLEAN
    /\ run \in BOOLEAN /\ parsed \in BOOLEAN /\ sending \in BOOLEAN
    /\ inbox \in Seq(Commands)
    /\ faults \in 0 .. MaxFaults /\ interrupted \in 0 .. faults
    /\ itemIndex \in 0 .. Len(items) /\ countedItemIndex \in 0 .. Len(items)
    /\ batch \in [next : 1 .. MaxItems + 1, last : 0 .. MaxItems]
    /\ row \in {None} \union (0 .. Len(items))

\* Without a character there is nothing on its way and nothing at work.
LifeInv == ~online => linked = FALSE /\ inbox = << >> /\ batch = NoBatch /\ sending = FALSE

\* What the command in progress, and the ones before it, reach up to.
Covered == Larger(countedItemIndex, batch.last)

\* The end of what the commands before the k-th reach; a Connected starts anew.
Reach(queue, start, k) ==
    IF k = 1 THEN start
    ELSE IF queue[k - 1].cmd = "Connected" THEN 0 ELSE queue[k - 1].last

\* The commands leave no gap: each starts at most one behind the end of the
\* previous one.
Gapless(queue, start, length) ==
    \A k \in 1 .. Len(queue) :
        queue[k].cmd = "ReceivedItems" =>
            /\ queue[k].first <= queue[k].last
            /\ queue[k].last <= length
            /\ queue[k].first <= Reach(queue, start, k) + 1

\* While the connection is up the last command reaches the end of the list.
StreamInv ==
    /\ \A k \in 1 .. Len(inbox) : inbox[k].cmd = "Connected" => k = 1 /\ inbox[k].good = slotDataGood
    /\ Gapless(inbox, Covered, Len(items))
    /\ linked => Reach(inbox, Covered, Len(inbox) + 1) = Len(items)

\* A batch stays within the list, and the positions agree with the row.
BatchInv ==
    /\ batch # NoBatch => batch.next <= batch.last + 1 /\ batch.last <= Len(items)
    /\ countedItemIndex <= itemIndex
    /\ itemIndex = Larger(row, 0)

FlowInv == FlowType /\ LifeInv /\ StreamInv /\ BatchInv

\* How far this login has gone through the list.
Seen == Larger(countedItemIndex, batch.next - 1)

CountType ==
    /\ progressiveCount \in 0 .. Len(items)
    /\ foodCount \in 0 .. Len(items)
    /\ weaponsArrived \in 0 .. Len(items)

\* Until slot data is accepted nothing is counted, and slot data that is
\* going to be accepted comes ahead of the items.
ParsedInv ==
    /\ ~slotDataGood => parsed = FALSE
    /\ ~parsed => progressiveCount = 0 /\ foodCount = 0 /\ weaponsArrived = 0
    /\ ~parsed /\ slotDataGood /\ online =>
          /\ Seen = 0 /\ batch = NoBatch /\ sending = FALSE
          /\ inbox # << >> => inbox[1].cmd = "Connected"
          /\ linked => inbox # << >>

\* The bonuses count what this login has gone through.
SeenOf(kind) == Cardinality(Places(items, kind, Seen))
CountsInv ==
    online /\ parsed =>
        /\ progressiveCount = SeenOf("progressive")
        /\ foodCount = SeenOf("food")
        /\ weaponsArrived = SeenOf("weapon")

CountInv == CountType /\ ParsedInv /\ CountsInv

MailType ==
    /\ weaponsSent \in 0 .. WeaponSlots
    /\ weapons \subseteq 1 .. WeaponSlots
    /\ preferences \in [sent : 0 .. WeaponSlots, chosen : SUBSET (1 .. WeaponSlots)]
    /\ outbox \in Seq(Mails)
    /\ mailed \in [Mails -> Nat]
    /\ lost \subseteq Mails

\* The choices and sendings the row knows of.
SavedInv ==
    /\ preferences.sent <= weaponsSent
    /\ online /\ sending = FALSE => preferences.sent = weaponsSent

\* What can still be given has been given at most once by each handler that
\* was cut short.
UnsentFrom == IF online THEN weaponsSent ELSE preferences.sent
Unsent(m) ==
    \/ m.kind # "weapon" /\ m.at > itemIndex /\ m.at >= batch.next
    \/ m.kind = "weapon" /\ m.tier > UnsentFrom
UnsentInv == \A m \in Mails : Unsent(m) => Copies(m) <= interrupted

\* The item and the count that a food mail stands for.
IsDueFood(m) ==
    /\ m.at <= Len(items) /\ items[m.at] = "food"
    /\ m.tier = Cardinality(Places(items, "food", m.at))
    /\ m.tier <= FoodTiers
FoodInv == \A m \in Mails : m.kind = "food" /\ Copies(m) > 0 => IsDueFood(m)

MailInv == MailType /\ SavedInv /\ UnsentInv /\ NoRepeatedReward /\ FoodInv

IInv == FlowInv /\ CountInv /\ MailInv

\* What the handler has come past has been rewarded, if every slot data is
\* accepted.
Given(m) == Copies(m) > 0 \/ m \in lost
Passed == Larger(itemIndex, batch.next - 1)
RewardedInv ==
    /\ slotDataGood = TRUE
    /\ \A i \in 1 .. Passed : \A m \in Due(i) : Given(m)

-----------------------------------------------------------------------------
(* Counting in the outbox *)

LEMMA OccurrencesFinite ==
    ASSUME NEW S, NEW q \in Seq(S), NEW m
    PROVE  /\ IsFiniteSet({k \in DOMAIN q : q[k] = m})
           /\ Occurrences(m, q) \in Nat
<1>1. DOMAIN q = 1 .. Len(q) /\ Len(q) \in Nat
  BY LenProperties
<1>2. IsFiniteSet(1 .. Len(q))
  BY <1>1, FS_Interval
<1>3. {k \in DOMAIN q : q[k] = m} \in SUBSET (1 .. Len(q))
  BY <1>1
<1>4. IsFiniteSet({k \in DOMAIN q : q[k] = m})
  BY <1>2, <1>3, FS_Subset
<1> QED
  BY <1>4, FS_CardinalityType DEF Occurrences

LEMMA OccurrencesEmpty == ASSUME NEW m PROVE Occurrences(m, << >>) = 0
<1>1. {k \in DOMAIN << >> : << >>[k] = m} = {}
  OBVIOUS
<1> QED
  BY <1>1, FS_EmptySet DEF Occurrences

LEMMA OccurrencesAppend ==
    ASSUME NEW S, NEW q \in Seq(S), NEW n \in S, NEW m
    PROVE  Occurrences(m, Append(q, n)) = Occurrences(m, q) + IF m = n THEN 1 ELSE 0
<1> DEFINE here == {k \in DOMAIN q : q[k] = m}
           there == {k \in DOMAIN Append(q, n) : Append(q, n)[k] = m}
<1>1. Len(q) \in Nat /\ DOMAIN q = 1 .. Len(q)
  BY LenProperties
<1>2. DOMAIN Append(q, n) = 1 .. Len(q) + 1
  OBVIOUS
<1>3. Append(q, n)[Len(q) + 1] = n /\ \A k \in 1 .. Len(q) : Append(q, n)[k] = q[k]
  OBVIOUS
<1>4. IsFiniteSet(here) /\ Cardinality(here) \in Nat
  BY OccurrencesFinite, FS_CardinalityType
<1>0. Occurrences(m, q) = Cardinality(here) /\ Occurrences(m, Append(q, n)) = Cardinality(there)
  BY DEF Occurrences
<1> HIDE DEF here, there
<1>5. CASE m = n
  <2>1. there = here \union {Len(q) + 1}
    BY <1>1, <1>2, <1>3, <1>5 DEF here, there
  <2>2. Len(q) + 1 \notin here
    BY <1>1 DEF here
  <2>3. Cardinality(there) = Cardinality(here) + 1
    BY <1>4, <2>1, <2>2, FS_AddElement
  <2> QED
    BY <1>0, <1>4, <1>5, <2>3
<1>6. CASE m # n
  <2>1. there = here
    BY <1>1, <1>2, <1>3, <1>6 DEF here, there
  <2>2. Occurrences(m, Append(q, n)) = Occurrences(m, q) /\ Occurrences(m, q) \in Nat
    BY <1>0, <1>4, <2>1
  <2> QED
    BY <1>6, <2>2
<1> QED
  BY <1>5, <1>6

LEMMA OccurrencesTail ==
    ASSUME NEW S, NEW q \in Seq(S), q # << >>, NEW m
    PROVE  Occurrences(m, q) = Occurrences(m, Tail(q)) + IF m = Head(q) THEN 1 ELSE 0
<1> DEFINE here == {k \in DOMAIN q : q[k] = m}
           rest == here \ {1}
           there == {k \in DOMAIN Tail(q) : Tail(q)[k] = m}
           shift == [k \in there |-> k + 1]
<1>1. Len(q) \in Nat \ {0} /\ DOMAIN q = 1 .. Len(q) /\ Head(q) = q[1]
  BY LenProperties, EmptySeq
<1>2. Tail(q) \in Seq(S) /\ Len(Tail(q)) = Len(q) - 1
  BY HeadTailProperties
<1>3. DOMAIN Tail(q) = 1 .. Len(q) - 1 /\ \A k \in 1 .. Len(q) - 1 : Tail(q)[k] = q[k + 1]
  BY <1>2, HeadTailProperties, LenProperties
<1>4. IsFiniteSet(here) /\ IsFiniteSet(there) /\ Cardinality(there) \in Nat
  BY <1>2, OccurrencesFinite, FS_CardinalityType
<1>5. shift \in Bijection(there, rest)
  <2>1. \A k \in there : k + 1 \in rest
    BY <1>1, <1>3
  <2>2. \A k \in rest : k - 1 \in there /\ shift[k - 1] = k
    BY <1>1, <1>3
  <2>3. \A k, l \in there : shift[k] = shift[l] => k = l
    BY <1>3
  <2>4. shift \in [there -> rest]
    BY <2>1
  <2> QED
    BY <2>2, <2>3, <2>4 DEF Bijection, Injection, Surjection, IsInjective
<1>6. Cardinality(rest) = Cardinality(there) /\ IsFiniteSet(rest)
  <2> HIDE DEF here, there, rest, shift
  <2>1. ExistsBijection(there, rest)
    BY <1>5 DEF ExistsBijection
  <2> QED
    BY <1>4, <2>1, FS_Bijection
<1>0. Occurrences(m, q) = Cardinality(here) /\ Occurrences(m, Tail(q)) = Cardinality(there)
  BY DEF Occurrences
<1>7. CASE m = Head(q)
  <2>1. here = rest \union {1} /\ 1 \notin rest
    BY <1>1, <1>7
  <2> HIDE DEF here, rest, there
  <2> QED
    BY <1>0, <1>4, <1>6, <1>7, <2>1, FS_AddElement
<1>8. CASE m # Head(q)
  <2>1. here = rest
    BY <1>1, <1>8
  <2> HIDE DEF here, rest, there
  <2> QED
    BY <1>0, <1>4, <1>6, <1>8, <2>1
<1> QED
  BY <1>7, <1>8

-----------------------------------------------------------------------------
(* Counting in the item list *)

\* The items of a kind up to a position are finitely many.
LEMMA PlacesFinite ==
    ASSUME NEW list, NEW kind, NEW i \in Nat
    PROVE  /\ IsFiniteSet(Places(list, kind, i))
           /\ Cardinality(Places(list, kind, i)) \in 0 .. i
<1>1. IsFiniteSet(1 .. i) /\ Cardinality(1 .. i) = i
  BY FS_Interval
<1>2. Places(list, kind, i) \in SUBSET (1 .. i)
  BY DEF Places
<1>3. IsFiniteSet(Places(list, kind, i)) /\ Cardinality(Places(list, kind, i)) <= i
  BY <1>1, <1>2, FS_Subset
<1> QED
  BY <1>3, FS_CardinalityType

LEMMA PlacesNone == ASSUME NEW list, NEW kind PROVE Cardinality(Places(list, kind, 0)) = 0
<1>1. Places(list, kind, 0) = {}
  BY DEF Places
<1> QED
  BY <1>1, FS_EmptySet

LEMMA PlacesStep ==
    ASSUME NEW S, NEW list \in Seq(S), NEW kind, NEW i \in 1 .. Len(list)
    PROVE  Cardinality(Places(list, kind, i))
             = Cardinality(Places(list, kind, i - 1)) + IF list[i] = kind THEN 1 ELSE 0
<1>1. Len(list) \in Nat /\ i - 1 \in Nat
  BY LenProperties
<1>2. IsFiniteSet(Places(list, kind, i - 1)) /\ Cardinality(Places(list, kind, i - 1)) \in Nat
  BY <1>1, PlacesFinite
<1>3. CASE list[i] = kind
  <2>1. Places(list, kind, i) = Places(list, kind, i - 1) \union {i}
    BY <1>1, <1>3 DEF Places
  <2>2. i \notin Places(list, kind, i - 1)
    BY <1>1 DEF Places
  <2> QED
    BY <1>2, <1>3, <2>1, <2>2, FS_AddElement
<1>4. CASE list[i] # kind
  <2>1. Places(list, kind, i) = Places(list, kind, i - 1)
    BY <1>1, <1>4 DEF Places
  <2> QED
    BY <1>2, <1>4, <2>1
<1> QED
  BY <1>3, <1>4

\* What is found later changes nothing of what came before.
LEMMA PlacesAppend ==
    ASSUME NEW S, NEW list \in Seq(S), NEW item \in S, NEW kind, NEW i \in 0 .. Len(list)
    PROVE  Places(Append(list, item), kind, i) = Places(list, kind, i)
<1>1. Len(list) \in Nat
  BY LenProperties
<1>2. Len(Append(list, item)) = Len(list) + 1 /\ \A k \in 1 .. Len(list) : Append(list, item)[k] = list[k]
  BY <1>1
<1> QED
  BY <1>1, <1>2 DEF Places
-----------------------------------------------------------------------------
(* The flow of the item list *)

LEMMA Bounds ==
    /\ FoodTiers \in Nat /\ WeaponSlots \in Nat /\ MaxItems \in Nat /\ MaxFaults \in Nat
    /\ BadSlotData \in BOOLEAN
  BY DeliveryAssumption

LEMMA CommandFields ==
    ASSUME NEW c \in Commands
    PROVE  /\ c.cmd \in {"Connected", "ReceivedItems"}
           /\ c.first \in 0 .. MaxItems /\ c.last \in 0 .. MaxItems /\ c.good \in BOOLEAN
           /\ c.cmd = "ReceivedItems" => c.first \in Positions
<1>1. CASE c \in [cmd : {"Connected"}, first : {0}, last : {0}, good : BOOLEAN]
  BY <1>1, Bounds
<1>2. CASE c \in [cmd : {"ReceivedItems"}, first : Positions, last : 0 .. MaxItems, good : {TRUE}]
  <2>1. c.cmd = "ReceivedItems" /\ c.first \in Positions /\ c.last \in 0 .. MaxItems /\ c.good = TRUE
    BY <1>2
  <2>2. c.first \in 0 .. MaxItems
    BY <2>1, Bounds DEF Positions
  <2> QED
    BY <2>1, <2>2
<1> QED
  BY <1>1, <1>2 DEF Commands

LEMMA InboxFields ==
    ASSUME FlowType, NEW k \in 1 .. Len(inbox)
    PROVE  /\ inbox[k] \in Commands
           /\ inbox[k].cmd \in {"Connected", "ReceivedItems"}
           /\ inbox[k].first \in 0 .. MaxItems /\ inbox[k].last \in 0 .. MaxItems
  BY ElementOfSeq, CommandFields DEF FlowType

\* A command of each kind, and what is in it.
LEMMA CommandTypes ==
    ASSUME NEW first \in Positions, NEW last \in 0 .. MaxItems, slotDataGood \in BOOLEAN
    PROVE  /\ ReceivedItems(first, last) \in Commands
           /\ Connected \in Commands
           /\ Connected.cmd = "Connected" /\ Connected.good = slotDataGood
<1>1. ReceivedItems(first, last) \in [cmd : {"ReceivedItems"}, first : Positions, last : 0 .. MaxItems, good : {TRUE}]
  BY DEF ReceivedItems
<1>2. Connected \in [cmd : {"Connected"}, first : {0}, last : {0}, good : BOOLEAN]
  BY DEF Connected
<1>3. Connected.cmd = "Connected" /\ Connected.good = slotDataGood
  BY DEF Connected
<1> QED
  BY <1>1, <1>2, <1>3 DEF Commands

LEMMA NoBatchIs ==
    ASSUME NEW b \in [next : Nat, last : Nat]
    PROVE  b = NoBatch <=> b.next = 1 /\ b.last = 0
  BY DEF NoBatch

LEMMA LenTypes ==
    ASSUME FlowType
    PROVE  /\ Len(items) \in Nat /\ Len(inbox) \in Nat /\ MaxItems \in Nat
           /\ batch.next \in 1 .. MaxItems + 1 /\ batch.last \in 0 .. MaxItems
           /\ batch \in [next : Nat, last : Nat]
           /\ NoBatch.next = 1 /\ NoBatch.last = 0
  BY LenProperties, DeliveryAssumption DEF FlowType, NoBatch

flow == <<items, slotDataGood, linked, inbox, faults, interrupted, online, run, parsed, itemIndex,
          countedItemIndex, batch, sending, row>>

LEMMA FlowInit == Init => FlowInv
<1> SUFFICES ASSUME Init PROVE FlowInv
  OBVIOUS
<1>1. Len(items) = 0 /\ Len(inbox) = 0 /\ items \in Seq(Kinds) /\ inbox \in Seq(Commands)
  BY EmptySeq DEF Init
<1>2. FlowType
  <2>1. batch \in [next : 1 .. MaxItems + 1, last : 0 .. MaxItems]
    BY Bounds DEF Init, NoBatch
  <2>2. slotDataGood \in BOOLEAN
    BY Bounds DEF Init
  <2>3. faults \in 0 .. MaxFaults /\ interrupted \in 0 .. faults
    BY Bounds DEF Init
  <2>4. Len(items) <= MaxItems /\ itemIndex \in 0 .. Len(items) /\ countedItemIndex \in 0 .. Len(items)
    BY <1>1, Bounds DEF Init
  <2> QED
    BY <1>1, <2>1, <2>2, <2>3, <2>4 DEF Init, FlowType
<1>3. LifeInv
  BY DEF Init, LifeInv
<1>4. StreamInv
  BY <1>1 DEF Init, StreamInv, Gapless
<1>5. BatchInv
  BY DEF Init, BatchInv, Larger, None
<1> QED
  BY <1>2, <1>3, <1>4, <1>5 DEF FlowInv

LEMMA FlowKept == FlowInv /\ UNCHANGED flow => FlowInv'
  BY DEF flow, FlowInv, FlowType, LifeInv, StreamInv, BatchInv, Covered


\* A command added behind the others continues where they end.
LEMMA GaplessAppend ==
    ASSUME NEW queue \in Seq(Commands), NEW start \in Nat, NEW length \in Nat,
           Gapless(queue, start, length), Reach(queue, start, Len(queue) + 1) = length,
           NEW c \in Commands, c.cmd = "ReceivedItems", c.first = length + 1, c.last = length + 1
    PROVE  /\ Gapless(Append(queue, c), start, length + 1)
           /\ Reach(Append(queue, c), start, Len(queue) + 2) = length + 1
<1> DEFINE longer == Append(queue, c)
<1>1. Len(queue) \in Nat /\ Len(longer) = Len(queue) + 1
  BY LenProperties, AppendProperties
<1>2. longer[Len(queue) + 1] = c /\ \A k \in 1 .. Len(queue) : longer[k] = queue[k]
  BY AppendProperties
<1>3. \A k \in 1 .. Len(queue) + 1 : Reach(longer, start, k) = Reach(queue, start, k)
  BY <1>1, <1>2 DEF Reach
<1>4. \A k \in 1 .. Len(queue) : queue[k].last \in Nat
  BY ElementOfSeq, CommandFields
<1> HIDE DEF longer
<1>5. Gapless(longer, start, length + 1)
  <2>1. SUFFICES ASSUME NEW k \in 1 .. Len(queue) + 1, longer[k].cmd = "ReceivedItems"
                 PROVE  /\ longer[k].first <= longer[k].last
                        /\ longer[k].last <= length + 1
                        /\ longer[k].first <= Reach(longer, start, k) + 1
    BY <1>1 DEF Gapless
  <2>2. CASE k = Len(queue) + 1
    BY <1>1, <1>2, <1>3, <2>2
  <2>3. CASE k \in 1 .. Len(queue)
    BY <1>1, <1>2, <1>3, <1>4, <2>1, <2>3 DEF Gapless
  <2> QED
    BY <1>1, <2>2, <2>3
<1>6. Reach(longer, start, Len(queue) + 2) = length + 1
  BY <1>1, <1>2 DEF Reach
<1> QED
  BY <1>5, <1>6 DEF longer

\* The queue behind its first command starts where that one ends.
LEMMA GaplessTail ==
    ASSUME NEW queue \in Seq(Commands), queue # << >>, NEW start \in Nat, NEW length \in Nat,
           Gapless(queue, start, length), NEW after \in Nat, Reach(queue, start, 2) <= after
    PROVE  /\ Gapless(Tail(queue), after, length)
           /\ Len(queue) > 1 => Reach(Tail(queue), after, Len(queue)) = Reach(queue, start, Len(queue) + 1)
<1> DEFINE rest == Tail(queue)
<1>1. Len(queue) \in Nat \ {0} /\ Len(rest) = Len(queue) - 1 /\ rest \in Seq(Commands)
  BY LenProperties, EmptySeq, HeadTailProperties
<1>2. \A k \in 1 .. Len(queue) - 1 : rest[k] = queue[k + 1]
  BY <1>1, HeadTailProperties
<1>3. \A k \in 2 .. Len(queue) : Reach(rest, after, k) = Reach(queue, start, k + 1)
  BY <1>1, <1>2 DEF Reach
<1>4. \A k \in 1 .. Len(queue) : queue[k].last \in Nat /\ queue[k].first \in Nat
  BY ElementOfSeq, CommandFields
<1>5. Reach(queue, start, 2) \in Nat /\ Reach(rest, after, 1) = after
  BY <1>1, <1>4 DEF Reach
<1> HIDE DEF rest
<1>6. Gapless(rest, after, length)
  <2>1. SUFFICES ASSUME NEW k \in 1 .. Len(queue) - 1, rest[k].cmd = "ReceivedItems"
                 PROVE  /\ rest[k].first <= rest[k].last
                        /\ rest[k].last <= length
                        /\ rest[k].first <= Reach(rest, after, k) + 1
    BY <1>1 DEF Gapless
  <2>2. /\ queue[k + 1].first <= queue[k + 1].last
        /\ queue[k + 1].last <= length
        /\ queue[k + 1].first <= Reach(queue, start, k + 1) + 1
    BY <1>1, <1>2, <2>1 DEF Gapless
  <2>3. CASE k = 1
    <3>1. rest[1] = queue[2] /\ queue[2].first \in Nat
      BY <1>1, <1>2, <1>4, <2>3
    <3>2. queue[2].first <= after + 1
      BY <1>5, <2>2, <2>3, <3>1
    <3> QED
      BY <1>5, <2>2, <2>3, <3>1, <3>2
  <2>4. CASE k \in 2 .. Len(queue) - 1
    BY <1>1, <1>2, <1>3, <1>4, <2>2, <2>4
  <2> QED
    BY <1>1, <2>3, <2>4
<1> QED
  BY <1>1, <1>3, <1>6 DEF rest

LEMMA CoveredType == ASSUME FlowType PROVE Covered \in Nat
  BY LenTypes DEF FlowType, Covered, Larger

LEMMA FlowItemFound ==
    ASSUME FlowInv, NEW kind \in Kinds, ItemFound(kind)
    PROVE  FlowInv'
<1> USE DEF FlowInv
<1> DEFINE new == ReceivedItems(Len(items) + 1, Len(items) + 1)
<1>1. Len(items) \in Nat /\ Len(inbox) \in Nat /\ MaxItems \in Nat /\ Covered \in Nat
  BY LenTypes, CoveredType
<1>2. items' \in Seq(Kinds) /\ Len(items') = Len(items) + 1 /\ Len(items) < MaxItems
  BY AppendProperties DEF ItemFound, FlowType
<1>3. new \in Commands /\ new.cmd = "ReceivedItems" /\ new.first = Len(items) + 1 /\ new.last = Len(items) + 1
  BY <1>1, <1>2, CommandTypes DEF ReceivedItems, FlowType, Positions
<1> HIDE DEF new
<1>4. UNCHANGED <<slotDataGood, linked, faults, interrupted, online, run, parsed, itemIndex,
                  countedItemIndex, batch, sending, row>>
  BY DEF ItemFound, memory, database
<1>5. Covered' = Covered
  BY <1>4 DEF Covered
<1>6. CASE ~linked
  <2>1. inbox' = inbox
    BY <1>6 DEF ItemFound
  <2>2. FlowType' /\ LifeInv' /\ BatchInv'
    BY <1>1, <1>2, <1>4, <2>1 DEF FlowType, LifeInv, BatchInv
  <2>3. Gapless(inbox, Covered, Len(items) + 1)
    BY <1>1, InboxFields DEF Gapless, StreamInv
  <2>4. StreamInv'
    BY <1>2, <1>4, <1>5, <1>6, <2>1, <2>3 DEF StreamInv
  <2> QED
    BY <2>2, <2>4
<1>7. CASE linked
  <2>1. inbox' = Append(inbox, new)
    BY <1>7 DEF ItemFound, new
  <2>2. inbox' \in Seq(Commands) /\ Len(inbox') = Len(inbox) + 1
    BY <1>3, <2>1, AppendProperties DEF FlowType
  <2>3. inbox'[Len(inbox) + 1] = new /\ \A k \in 1 .. Len(inbox) : inbox'[k] = inbox[k]
    BY <1>3, <2>1, AppendProperties DEF FlowType
  <2>4. FlowType' /\ BatchInv'
    BY <1>1, <1>2, <1>4, <2>2 DEF FlowType, BatchInv
  <2>5. LifeInv'
    BY <1>4, <1>7 DEF LifeInv
  <2>6. \A k \in 1 .. Len(inbox) + 1 : inbox'[k].cmd = "Connected" => k = 1 /\ inbox'[k].good = slotDataGood
    BY <1>1, <1>3, <2>3 DEF StreamInv
  <2>7. /\ Gapless(inbox', Covered, Len(items) + 1)
        /\ Reach(inbox', Covered, Len(inbox) + 2) = Len(items) + 1
    <3>1. /\ inbox \in Seq(Commands)
          /\ Gapless(inbox, Covered, Len(items))
          /\ Reach(inbox, Covered, Len(inbox) + 1) = Len(items)
      BY <1>7 DEF FlowType, StreamInv
    <3> QED
      BY <1>1, <1>3, <2>1, <3>1, GaplessAppend
  <2>8. StreamInv'
    BY <1>1, <1>2, <1>4, <1>5, <2>2, <2>6, <2>7 DEF StreamInv
  <2> QED
    BY <2>4, <2>5, <2>8
<1> QED
  BY <1>6, <1>7 DEF FlowType
LEMMA FlowLink ==
    ASSUME FlowInv, Link
    PROVE  FlowInv'
<1> USE DEF FlowInv
<1> DEFINE all == ReceivedItems(1, Len(items))
<1>1. Len(items) \in Nat /\ MaxItems \in Nat /\ Len(items) <= MaxItems /\ (items # << >> => Len(items) # 0)
  BY LenTypes, EmptySeq DEF FlowType
<1>2. UNCHANGED <<items, slotDataGood, faults, interrupted, online, run, parsed, itemIndex,
                  countedItemIndex, batch, sending, row>>
  BY DEF Link, memory, database
<1>3. online /\ linked'
  BY DEF Link
<1>4. Connected \in Commands /\ Connected.cmd = "Connected" /\ Connected.good = slotDataGood
  BY <1>1, CommandFields DEF Connected, Commands, FlowType
<1>5. Covered' = Covered /\ Covered \in Nat
  BY <1>2, CoveredType DEF Covered
<1>6. CASE items = << >>
  <2>1. inbox' = << Connected >>
    BY <1>4, <1>6 DEF Link
  <2>2. inbox' \in Seq(Commands) /\ Len(inbox') = 1 /\ inbox'[1] = Connected
    BY <1>4, <2>1
  <2>3. FlowType' /\ LifeInv' /\ BatchInv'
    BY <1>2, <1>3, <2>2 DEF FlowType, LifeInv, BatchInv
  <2>4. StreamInv'
    BY <1>1, <1>2, <1>4, <1>5, <1>6, <2>2 DEF StreamInv, Gapless, Reach
  <2> QED
    BY <2>3, <2>4
<1>7. CASE items # << >>
  <2>1. all \in Commands /\ all.cmd = "ReceivedItems" /\ all.first = 1 /\ all.last = Len(items)
    BY <1>1, <1>7, CommandTypes DEF ReceivedItems, FlowType, Positions
  <2> HIDE DEF all
  <2>2. inbox' = << Connected >> \o << all >>
    BY <1>7 DEF Link, all
  <2>3. inbox' \in Seq(Commands) /\ Len(inbox') = 2 /\ inbox'[1] = Connected /\ inbox'[2] = all
    <3>1. /\ << Connected >> \in Seq(Commands) /\ Len(<< Connected >>) = 1 /\ << Connected >>[1] = Connected
          /\ << all >> \in Seq(Commands) /\ Len(<< all >>) = 1 /\ << all >>[1] = all
      BY <1>4, <2>1
    <3> QED
      BY <2>2, <3>1, ConcatProperties
  <2>4. FlowType' /\ LifeInv' /\ BatchInv'
    BY <1>2, <1>3, <2>3 DEF FlowType, LifeInv, BatchInv
  <2>5. StreamInv'
    BY <1>1, <1>2, <1>4, <1>5, <1>7, <2>1, <2>3 DEF StreamInv, Gapless, Reach
  <2> QED
    BY <2>4, <2>5
<1> QED
  BY <1>6, <1>7

LEMMA FlowLinkLost ==
    ASSUME FlowInv, LinkLost
    PROVE  FlowInv'
<1> USE DEF FlowInv
<1>1. PICK n \in 0 .. Len(inbox) : inbox' = SubSeq(inbox, 1, n)
  BY DEF LinkLost
<1>2. Len(inbox) \in Nat /\ inbox' \in Seq(Commands) /\ Len(inbox') = n /\ \A k \in 1 .. n : inbox'[k] = inbox[k]
  BY <1>1, LenTypes, SubSeqProperties, ElementOfSeq DEF FlowType
<1>3. UNCHANGED <<items, slotDataGood, interrupted, online, run, parsed, itemIndex,
                  countedItemIndex, batch, sending, row>>
  BY DEF LinkLost, memory, database
<1>4. linked' = FALSE /\ linked /\ faults' = faults + 1 /\ faults < MaxFaults
  BY DEF LinkLost
<1>5. FlowType' /\ BatchInv'
  <2>1. faults' \in 0 .. MaxFaults /\ interrupted' \in 0 .. faults'
    BY <1>3, <1>4, Bounds DEF FlowType
  <2> QED
    BY <1>2, <1>3, <1>4, <2>1 DEF FlowType, BatchInv
<1>6. LifeInv'
  BY <1>3, <1>4 DEF LifeInv
<1>7. Covered' = Covered
  BY <1>3 DEF Covered
<1>8. \A k \in 1 .. n : Reach(inbox', Covered, k) = Reach(inbox, Covered, k)
  BY <1>2 DEF Reach
<1>9. StreamInv'
  BY <1>2, <1>3, <1>4, <1>7, <1>8 DEF StreamInv, Gapless
<1> QED
  BY <1>5, <1>6, <1>9

LEMMA FlowVersionsFixed ==
    ASSUME FlowInv, VersionsFixed
    PROVE  FlowInv'
<1> USE DEF FlowInv
<1>1. UNCHANGED <<items, linked, inbox, faults, interrupted, online, run, parsed, itemIndex,
                  countedItemIndex, batch, sending, row>>
  BY DEF VersionsFixed, memory, database
<1>2. inbox = << >> /\ Len(inbox) = 0
  BY EmptySeq DEF VersionsFixed, LifeInv
<1> QED
  BY <1>1, <1>2 DEF VersionsFixed, FlowType, LifeInv, StreamInv, BatchInv, Covered

\* The first command leaves the queue, and the batch it becomes reaches at
\* least as far.
LEMMA StreamTail ==
    ASSUME FlowInv, inbox # << >>, inbox' = Tail(inbox),
           UNCHANGED <<items, slotDataGood, linked>>,
           Covered' \in Nat, Reach(inbox, Covered, 2) <= Covered',
           Len(inbox) = 1 /\ linked => Covered' = Len(items)
    PROVE  StreamInv'
<1>1. Len(inbox) \in Nat \ {0} /\ Len(inbox') = Len(inbox) - 1 /\ inbox' \in Seq(Commands)
  BY LenTypes, EmptySeq, HeadTailProperties DEF FlowInv, FlowType
<1>2. \A k \in 1 .. Len(inbox') : inbox'[k] = inbox[k + 1]
  BY HeadTailProperties DEF FlowInv, FlowType
<1>3. Len(items) \in Nat /\ Covered \in Nat
  BY LenTypes, CoveredType DEF FlowInv
<1>4. /\ Gapless(inbox', Covered', Len(items))
      /\ Len(inbox) > 1 => Reach(inbox', Covered', Len(inbox)) = Reach(inbox, Covered, Len(inbox) + 1)
  BY <1>3, GaplessTail DEF FlowInv, FlowType, StreamInv
<1>5. \A k \in 1 .. Len(inbox') : inbox'[k].cmd # "Connected"
  BY <1>1, <1>2 DEF FlowInv, StreamInv
<1>6. linked' => Reach(inbox', Covered', Len(inbox') + 1) = Len(items')
  <2>1. CASE Len(inbox) = 1
    BY <1>1, <2>1 DEF Reach
  <2>2. CASE Len(inbox) > 1
    BY <1>1, <1>4, <2>2 DEF FlowInv, StreamInv
  <2> QED
    BY <1>1, <2>1, <2>2
<1> QED
  BY <1>4, <1>5, <1>6 DEF StreamInv

LEMMA FlowSlotConnected ==
    ASSUME FlowInv, SlotConnected
    PROVE  FlowInv'
<1> USE DEF FlowInv
<1>1. UNCHANGED <<items, slotDataGood, linked, faults, interrupted, online, itemIndex,
                  countedItemIndex, batch, sending>>
  BY DEF SlotConnected, server
<1>2. inbox # << >> /\ inbox' = Tail(inbox) /\ Head(inbox).cmd = "Connected" /\ online /\ batch = NoBatch
  BY DEF SlotConnected, Idle
<1>3. inbox' \in Seq(Commands) /\ Len(inbox) \in Nat \ {0} /\ Head(inbox) = inbox[1]
  BY <1>2, LenTypes, EmptySeq, HeadTailProperties DEF FlowType
<1>4. row' \in {row, itemIndex} /\ parsed' \in BOOLEAN /\ run' \in BOOLEAN
  BY DEF SlotConnected, FlowType
<1>5. FlowType'
  BY <1>1, <1>3, <1>4 DEF FlowType
<1>6. LifeInv'
  BY <1>1, <1>2 DEF LifeInv
<1>7. BatchInv'
  BY <1>1, <1>4, LenTypes DEF BatchInv, FlowType, Larger, None
<1>8. Covered' = Covered /\ Covered \in Nat /\ Covered <= Len(items)
  BY <1>1, <1>2, LenTypes DEF Covered, FlowType, Larger
<1>9. Reach(inbox, Covered, 2) = 0
  BY <1>2, <1>3 DEF Reach
<1>10. StreamInv'
  BY <1>1, <1>2, <1>8, <1>9, LenTypes, StreamTail DEF StreamInv
<1> QED
  BY <1>5, <1>6, <1>7, <1>10

LEMMA FlowItemsReceived ==
    ASSUME FlowInv, ItemsReceived
    PROVE  /\ FlowInv'
           /\ inbox[1].cmd = "ReceivedItems"
           /\ batch.next = 1 /\ 1 <= batch'.next /\ batch'.next <= countedItemIndex + 1
<1> USE DEF FlowInv
<1>1. UNCHANGED <<items, slotDataGood, linked, faults, interrupted, online, run, parsed, itemIndex,
                  countedItemIndex, sending, row>>
  BY DEF ItemsReceived, server, memory, database
<1>2. inbox # << >> /\ inbox' = Tail(inbox) /\ Head(inbox).cmd = "ReceivedItems" /\ online /\ batch = NoBatch
  BY DEF ItemsReceived, Idle
<1>3. inbox' \in Seq(Commands) /\ Len(inbox) \in Nat \ {0} /\ Head(inbox) = inbox[1] /\ inbox[1] \in Commands
  BY <1>2, LenTypes, EmptySeq, HeadTailProperties DEF FlowType
<1>4. /\ inbox[1].first \in 1 .. MaxItems /\ inbox[1].last \in 0 .. MaxItems
      /\ inbox[1].first <= inbox[1].last /\ inbox[1].last <= Len(items)
      /\ inbox[1].first <= countedItemIndex + 1
  <2>1. Covered = countedItemIndex
    BY <1>2, LenTypes DEF Covered, Larger, FlowType
  <2>2. Reach(inbox, Covered, 1) = countedItemIndex
    BY <2>1 DEF Reach
  <2> QED
    BY <1>2, <1>3, <2>2, CommandFields DEF StreamInv, Gapless, Positions
<1>5. batch' = [next |-> inbox[1].first, last |-> inbox[1].last]
  BY <1>3 DEF ItemsReceived
<1>6. batch'.next = inbox[1].first /\ batch'.last = inbox[1].last
      /\ batch' \in [next : 1 .. MaxItems + 1, last : 0 .. MaxItems]
  BY <1>4, <1>5, LenTypes
<1>7. FlowType' /\ LifeInv'
  BY <1>1, <1>2, <1>3, <1>6 DEF FlowType, LifeInv
<1>8. BatchInv'
  BY <1>1, <1>4, <1>6, LenTypes DEF BatchInv
<1>9. Covered' = Larger(countedItemIndex, inbox[1].last)
  BY <1>1, <1>6 DEF Covered
<1>10. Reach(inbox, Covered, 2) = inbox[1].last
  BY <1>2, <1>3 DEF Reach
<1>11. Covered' \in Nat /\ inbox[1].last <= Covered' /\ Covered' <= Len(items)
  <2>1. countedItemIndex \in Nat /\ countedItemIndex <= Len(items) /\ Len(items) \in Nat
    BY LenTypes DEF FlowType
  <2>2. inbox[1].last \in Nat /\ inbox[1].last <= Len(items)
    BY <1>4, LenTypes
  <2> QED
    BY <1>9, <2>1, <2>2 DEF Larger
<1>12. Len(inbox) = 1 /\ linked => Covered' = Len(items)
  BY <1>4, <1>10, <1>11, LenTypes DEF StreamInv
<1>13. StreamInv'
  BY <1>1, <1>2, <1>10, <1>11, <1>12, StreamTail
<1> QED
  BY <1>2, <1>3, <1>4, <1>6, <1>7, <1>8, <1>13, LenTypes
\* What one turn of the handler's loop does to the flow.
LEMMA RewardNextFlow ==
    ASSUME FlowInv, RewardNext
    PROVE  /\ UNCHANGED <<items, slotDataGood, linked, inbox, faults, interrupted, online, run, parsed,
                          itemIndex, countedItemIndex, weaponsSent, weapons, row, preferences, mailed, lost>>
           /\ online /\ sending = FALSE /\ batch # NoBatch
           /\ batch.next \in 1 .. Len(items) /\ batch.next <= batch.last
           /\ batch'.next = batch.next + 1 /\ batch'.last = batch.last
           /\ batch' \in [next : 1 .. MaxItems + 1, last : 0 .. MaxItems]
           /\ sending' \in BOOLEAN
<1> USE DEF FlowInv
<1>1. /\ UNCHANGED <<items, slotDataGood, linked, inbox, faults, interrupted, online, run, parsed,
                     itemIndex, countedItemIndex, weaponsSent, weapons, row, preferences, mailed, lost>>
      /\ online /\ sending = FALSE /\ batch.next <= batch.last
      /\ batch' = [batch EXCEPT !.next = @ + 1]
  BY DEF RewardNext, server, database, FlowType
<1>2. sending' \in BOOLEAN
  BY DEF RewardNext, RewardUnknown, RewardMailed, RewardProgressive, RewardFood, RewardWeapon, FlowType
<1>3. batch # NoBatch
  BY <1>1, LenTypes
<1>4. batch.last <= Len(items)
  BY <1>3 DEF BatchInv
<1>5. /\ batch'.next = batch.next + 1 /\ batch'.last = batch.last
      /\ batch' \in [next : 1 .. MaxItems + 1, last : 0 .. MaxItems]
  BY <1>1, LenTypes DEF FlowType
<1> QED
  BY <1>1, <1>2, <1>3, <1>4, <1>5, LenTypes

LEMMA FlowRewardNext ==
    ASSUME FlowInv, RewardNext
    PROVE  FlowInv'
<1> USE DEF FlowInv
<1>1. FlowType' /\ LifeInv'
  BY RewardNextFlow DEF FlowType, LifeInv
<1>2. /\ items' = items /\ inbox' = inbox /\ linked' = linked /\ slotDataGood' = slotDataGood
      /\ countedItemIndex' = countedItemIndex /\ itemIndex' = itemIndex /\ row' = row
  BY RewardNextFlow
<1>3. batch # NoBatch /\ batch'.next = batch.next + 1 /\ batch'.last = batch.last /\ batch.next <= batch.last
  BY RewardNextFlow
<1>4. batch'.next <= batch'.last + 1 /\ batch'.last <= Len(items')
  BY <1>2, <1>3, LenTypes DEF BatchInv
<1>5. BatchInv'
  BY <1>2, <1>4 DEF BatchInv
<1>6. Covered' = Covered
  BY <1>2, <1>3 DEF Covered
<1>7. StreamInv'
  BY <1>2, <1>6 DEF StreamInv
<1> QED
  BY <1>1, <1>5, <1>7

LEMMA FlowBatchEnds ==
    ASSUME FlowInv, BatchEnds
    PROVE  /\ FlowInv'
           /\ batch.next = batch.last + 1
           /\ countedItemIndex' = Larger(countedItemIndex, batch.last)
           /\ itemIndex' = Larger(itemIndex, batch.last)
<1> USE DEF FlowInv
<1>1. UNCHANGED <<items, slotDataGood, linked, inbox, faults, interrupted, online, run, parsed, sending>>
  BY DEF BatchEnds, server
<1>2. /\ online /\ batch # NoBatch /\ batch.next > batch.last
      /\ batch' = NoBatch
      /\ countedItemIndex' = Larger(countedItemIndex, batch.last)
      /\ itemIndex' = Larger(itemIndex, batch.last)
      /\ row' = IF itemIndex' # itemIndex THEN itemIndex' ELSE row
  BY DEF BatchEnds, SavedIndex
<1>3. batch.next = batch.last + 1 /\ batch.last <= Len(items)
  BY <1>2, LenTypes DEF BatchInv
<1>4. itemIndex' \in 0 .. Len(items) /\ countedItemIndex' \in 0 .. Len(items) /\ countedItemIndex' <= itemIndex'
  BY <1>2, <1>3, LenTypes DEF Larger, FlowType, BatchInv
<1>5. batch' \in [next : 1 .. MaxItems + 1, last : 0 .. MaxItems]
  BY <1>2, LenTypes DEF NoBatch
<1>6. row' \in {None} \union (0 .. Len(items)) /\ itemIndex' = Larger(row', 0)
  BY <1>2, <1>4, LenTypes DEF FlowType, BatchInv, Larger, None
<1>7. FlowType' /\ LifeInv' /\ BatchInv'
  BY <1>1, <1>2, <1>4, <1>5, <1>6 DEF FlowType, LifeInv, BatchInv
<1>8. Covered' = Covered
  BY <1>1, <1>2, <1>4, LenTypes DEF Covered, Larger
<1>9. StreamInv'
  BY <1>1, <1>8 DEF StreamInv
<1> QED
  BY <1>2, <1>3, <1>7, <1>9

LEMMA FlowSending ==
    ASSUME FlowInv, SendingEnds \/ \E slot \in 1 .. WeaponSlots : SetHeirloomWeapon(slot)
    PROVE  FlowInv'
<1>1. UNCHANGED <<items, slotDataGood, linked, inbox, faults, interrupted, online, run, parsed, itemIndex,
                  countedItemIndex, batch, row>>
  BY DEF SendingEnds, SetHeirloomWeapon, server, memory
<1>2. sending' = FALSE \/ (sending' = TRUE /\ online)
  <2>1. CASE SendingEnds
    BY <2>1 DEF SendingEnds
  <2>2. CASE \E slot \in 1 .. WeaponSlots : SetHeirloomWeapon(slot)
    BY <2>2 DEF SetHeirloomWeapon, Idle
  <2> QED
    BY <2>1, <2>2
<1> QED
  BY <1>1, <1>2 DEF FlowInv, FlowType, LifeInv, StreamInv, BatchInv, Covered

LEMMA FlowPeriodicSave ==
    ASSUME FlowInv, PeriodicSave
    PROVE  FlowInv'
<1>1. UNCHANGED <<items, slotDataGood, linked, inbox, faults, interrupted, online, run, parsed, itemIndex,
                  countedItemIndex, batch, sending>>
  BY DEF PeriodicSave, server, memory
<1>2. row' = itemIndex
  BY DEF PeriodicSave
<1>3. FlowType' /\ LifeInv' /\ StreamInv'
  BY <1>1, <1>2 DEF FlowInv, FlowType, LifeInv, StreamInv, Covered
<1>4. BatchInv'
  BY <1>1, <1>2, LenTypes DEF FlowInv, FlowType, BatchInv, Larger, None
<1> QED
  BY <1>3, <1>4 DEF FlowInv

\* However the character goes, with or without a save.
LEMMA FlowFreed ==
    ASSUME FlowInv, Freed, UNCHANGED <<items, slotDataGood>>, row' \in {row, itemIndex},
           faults' \in 0 .. MaxFaults, interrupted' \in 0 .. faults'
    PROVE  FlowInv'
<1> USE DEF FlowInv
<1>1. /\ online' = FALSE /\ linked' = FALSE /\ inbox' = << >> /\ batch' = NoBatch /\ sending' = FALSE
      /\ UNCHANGED <<run, parsed, itemIndex, countedItemIndex>>
  BY DEF Freed
<1>2. Len(inbox') = 0 /\ inbox' \in Seq(Commands)
  BY <1>1, EmptySeq
<1>3. batch' \in [next : 1 .. MaxItems + 1, last : 0 .. MaxItems]
  BY <1>1, LenTypes DEF NoBatch
<1>4. FlowType' /\ LifeInv'
  BY <1>1, <1>2, <1>3 DEF FlowType, LifeInv
<1>5. BatchInv'
  BY <1>1, LenTypes DEF FlowType, BatchInv, Larger, None
<1>6. StreamInv'
  BY <1>1, <1>2 DEF StreamInv, Gapless
<1> QED
  BY <1>4, <1>5, <1>6

LEMMA FlowLogin ==
    ASSUME FlowInv, Login
    PROVE  /\ FlowInv'
           /\ itemIndex' = itemIndex
<1> USE DEF FlowInv
<1>1. UNCHANGED <<items, slotDataGood, linked, inbox, faults, interrupted, batch, sending, row>>
  BY DEF Login, server, database
<1>2. ~online /\ online' = TRUE /\ run' = TRUE /\ parsed' = FALSE /\ itemIndex' = Larger(row, 0) /\ countedItemIndex' = 0
  BY DEF Login
<1>3. linked = FALSE /\ inbox = << >> /\ batch = NoBatch /\ Len(inbox) = 0
  BY <1>2, EmptySeq DEF LifeInv
<1>4. itemIndex' = itemIndex
  BY <1>2 DEF BatchInv
<1>5. FlowType' /\ LifeInv'
  <2>1. countedItemIndex' \in 0 .. Len(items')
    BY <1>1, <1>2, LenTypes
  <2>2. FlowType'
    BY <1>1, <1>2, <1>4, <2>1 DEF FlowType
  <2> QED
    BY <1>2, <2>2 DEF LifeInv
<1>7. StreamInv'
  BY <1>1, <1>3 DEF StreamInv, Gapless
<1>6. BatchInv'
  BY <1>1, <1>2, <1>4, LenTypes DEF BatchInv, FlowType
<1> QED
  BY <1>4, <1>5, <1>6, <1>7

LEMMA FlowStep == FlowInv /\ [Next]_vars => FlowInv'
<1> SUFFICES ASSUME FlowInv, [Next]_vars PROVE FlowInv'
  OBVIOUS
<1>1. ASSUME RunEnded \/ Logout \/ Crash PROVE FlowInv'
  <2>1. Freed /\ UNCHANGED <<items, slotDataGood>> /\ row' \in {row, itemIndex}
    BY <1>1 DEF RunEnded, Logout, Crash, database
  <2>2. faults \in 0 .. MaxFaults /\ interrupted \in 0 .. faults
    BY DEF FlowInv, FlowType
  <2>3. \/ faults' = faults /\ interrupted' = interrupted
        \/ faults < MaxFaults /\ faults' = faults + 1 /\ interrupted' \in {interrupted, interrupted + 1}
    <3>1. CASE RunEnded
      BY <3>1 DEF RunEnded
    <3>2. CASE Logout
      BY <3>2 DEF Logout
    <3>3. CASE Crash
      BY <2>2, <3>3 DEF Crash
    <3> QED
      BY <1>1, <3>1, <3>2, <3>3
  <2>4. faults' \in 0 .. MaxFaults /\ interrupted' \in 0 .. faults'
    BY <2>2, <2>3, Bounds
  <2> QED
    BY <2>1, <2>4, FlowFreed
<1>2. ASSUME SendWeapon \/ MailWritten \/ UNCHANGED vars PROVE FlowInv'
  <2>1. UNCHANGED flow
    BY <1>2 DEF flow, SendWeapon, MailWritten, server, memory, database, vars
  <2> QED
    BY <2>1, FlowKept
<1> QED
  BY <1>1, <1>2, FlowItemFound, FlowLink, FlowLinkLost, FlowVersionsFixed, FlowSlotConnected,
     FlowItemsReceived, FlowRewardNext, FlowBatchEnds, FlowSending, FlowPeriodicSave, FlowLogin
     DEF Next, Handle
-----------------------------------------------------------------------------
(* The bonuses *)

LEMMA SeenType ==
    ASSUME FlowInv
    PROVE  Seen \in 0 .. Len(items) /\ (batch = NoBatch => Seen = countedItemIndex)
  BY LenTypes DEF FlowInv, FlowType, BatchInv, Seen, Larger

LEMMA SeenTypeNext == ASSUME FlowInv' PROVE Seen' \in 0 .. Len(items')
<1>1. /\ Len(items') \in Nat /\ MaxItems \in Nat
      /\ batch'.next \in 1 .. MaxItems + 1 /\ batch'.last \in 0 .. MaxItems
      /\ countedItemIndex' \in 0 .. Len(items')
      /\ batch' = NoBatch => batch'.next = 1
  BY LenProperties, Bounds DEF FlowInv, FlowType, NoBatch
<1>2. batch' # NoBatch => batch'.next <= batch'.last + 1 /\ batch'.last <= Len(items')
  BY DEF FlowInv, BatchInv
<1> QED
  BY <1>1, <1>2 DEF Seen, Larger

\* With the bonuses right their bounds follow.
LEMMA CountsBounded ==
    ASSUME FlowInv', CountsInv', online' /\ parsed'
    PROVE  CountType'
<1>1. Len(items') \in Nat /\ Seen' \in 0 .. Len(items')
  BY SeenTypeNext, LenProperties DEF FlowInv, FlowType
<1>2. \A kind : Cardinality(Places(items', kind, Seen')) \in 0 .. Seen'
  BY <1>1, PlacesFinite
<1>3. \A kind : Cardinality(Places(items', kind, Seen')) \in 0 .. Len(items')
  BY <1>1, <1>2
<1> QED
  BY <1>3 DEF CountsInv, SeenOf, CountType

counted == <<items, slotDataGood, online, parsed, progressiveCount, foodCount, weaponsArrived>>

LEMMA CountKept ==
    ASSUME CountInv, UNCHANGED counted, Seen' = Seen
    PROVE  /\ CountType' /\ CountsInv'
           /\ ~slotDataGood' => parsed' = FALSE
           /\ ~parsed' => progressiveCount' = 0 /\ foodCount' = 0 /\ weaponsArrived' = 0
  BY DEF counted, CountInv, CountType, CountsInv, SeenOf, ParsedInv

LEMMA CountInit == Init => CountInv
<1> SUFFICES ASSUME Init PROVE CountInv
  OBVIOUS
<1>1. Len(items) = 0
  BY EmptySeq DEF Init
<1>2. Seen = 0
  BY DEF Init, Seen, Larger, NoBatch
<1> QED
  BY <1>1, <1>2 DEF Init, CountInv, CountType, ParsedInv, CountsInv

\* Where nothing is counted and nothing goes through the queue.
LEMMA CountIdle ==
    ASSUME FlowInv, CountInv,
           UNCHANGED <<counted, countedItemIndex, batch, inbox, linked>>,
           sending' = sending \/ sending' = FALSE \/ parsed = TRUE
    PROVE  CountInv'
<1>1. Seen' = Seen /\ UNCHANGED counted
  BY DEF Seen
<1>2. ParsedInv'
  BY <1>1, CountKept DEF counted, CountInv, ParsedInv
<1> QED
  BY <1>1, <1>2, CountKept DEF CountInv

LEMMA CountItemFound ==
    ASSUME FlowInv, CountInv, NEW kind \in Kinds, ItemFound(kind)
    PROVE  CountInv'
<1>1. items \in Seq(Kinds) /\ items' = Append(items, kind) /\ Len(items') = Len(items) + 1 /\ Len(items) \in Nat
  BY LenProperties, AppendProperties DEF ItemFound, FlowInv, FlowType
<1>2. UNCHANGED <<slotDataGood, linked, online, parsed, countedItemIndex, progressiveCount, foodCount,
                  weaponsArrived, batch, sending>>
  BY DEF ItemFound, memory
<1>3. Seen' = Seen /\ Seen \in 0 .. Len(items)
  BY <1>2, SeenType DEF Seen
<1>4. \A k : Places(items', k, Seen) = Places(items, k, Seen)
  BY <1>1, <1>3, PlacesAppend
<1>5. CountsInv'
  BY <1>2, <1>3, <1>4 DEF CountInv, CountsInv, SeenOf
<1>6. CountType'
  BY <1>1, <1>2 DEF CountInv, CountType
<1>7. inbox' = inbox \/ (linked /\ \E c \in Commands : inbox' = Append(inbox, c))
  <2>1. CASE linked
    <3>1. ReceivedItems(Len(items) + 1, Len(items) + 1) \in Commands
      <4>1. Len(items) + 1 \in Positions /\ Len(items) + 1 \in 0 .. MaxItems
        BY <1>1, Bounds DEF ItemFound, Positions
      <4> QED
        BY <4>1, CommandTypes DEF FlowInv, FlowType
    <3> QED
      BY <2>1, <3>1 DEF ItemFound
  <2>2. CASE ~linked
    BY <2>2 DEF ItemFound
  <2> QED
    BY <2>1, <2>2
<1>8. /\ inbox # << >> => inbox' # << >> /\ inbox'[1] = inbox[1]
      /\ ~linked => inbox' = inbox
  <2>1. CASE inbox' = inbox
    BY <2>1
  <2>2. ASSUME linked, NEW c \in Commands, inbox' = Append(inbox, c)
        PROVE  inbox # << >> => inbox' # << >> /\ inbox'[1] = inbox[1]
    <3>1. inbox \in Seq(Commands) /\ Len(inbox) \in Nat /\ (inbox # << >> => Len(inbox) # 0)
      BY LenTypes, EmptySeq DEF FlowInv, FlowType
    <3>2. Len(inbox') = Len(inbox) + 1 /\ \A k \in 1 .. Len(inbox) : inbox'[k] = inbox[k]
      BY <2>2, <3>1, AppendProperties
    <3> QED
      BY <3>1, <3>2, EmptySeq
  <2> QED
    BY <1>7, <2>1, <2>2
<1>9. ParsedInv'
  BY <1>2, <1>3, <1>8 DEF CountInv, ParsedInv
<1> QED
  BY <1>5, <1>6, <1>9 DEF CountInv

LEMMA CountLink ==
    ASSUME FlowInv, CountInv, Link
    PROVE  CountInv'
<1>1. UNCHANGED counted /\ UNCHANGED <<countedItemIndex, batch, sending>>
  BY DEF Link, counted, memory
<1>2. Seen' = Seen
  BY <1>1 DEF Seen
<1>3. inbox' # << >> /\ inbox'[1].cmd = "Connected"
  <2>1. Connected \in Commands /\ << Connected >> \in Seq(Commands) /\ Len(<< Connected >>) = 1
    BY CommandFields DEF Connected, Commands, FlowInv, FlowType
  <2>2. PICK rest \in Seq(Commands) : inbox' = << Connected >> \o rest
    <3>1. CASE items = << >>
      BY <3>1, EmptySeq DEF Link
    <3>2. CASE items # << >>
      <4>1. Len(items) \in Positions /\ Len(items) \in 0 .. MaxItems /\ 1 \in Positions
        BY <3>2, LenTypes, EmptySeq DEF FlowInv, FlowType, Positions
      <4>2. << ReceivedItems(1, Len(items)) >> \in Seq(Commands)
        BY <4>1, CommandTypes DEF FlowInv, FlowType
      <4> QED
        BY <3>2, <4>2 DEF Link
    <3> QED
      BY <3>1, <3>2
  <2>3. inbox'[1] = Connected /\ Len(inbox') >= 1
    BY <2>1, <2>2, ConcatProperties, LenProperties
  <2> QED
    BY <2>1, <2>2, <2>3, EmptySeq DEF Connected
<1>4. ParsedInv'
  BY <1>1, <1>2, <1>3, CountKept DEF counted, CountInv, ParsedInv
<1> QED
  BY <1>1, <1>2, <1>4, CountKept DEF CountInv

LEMMA CountLinkLost ==
    ASSUME FlowInv, CountInv, LinkLost
    PROVE  CountInv'
<1>1. UNCHANGED counted /\ UNCHANGED <<countedItemIndex, batch, sending>> /\ linked' = FALSE
  BY DEF LinkLost, counted, memory
<1>2. Seen' = Seen
  BY <1>1 DEF Seen
<1>3. inbox' # << >> => inbox # << >> /\ inbox'[1] = inbox[1]
  <2>1. PICK n \in 0 .. Len(inbox) : inbox' = SubSeq(inbox, 1, n)
    BY DEF LinkLost
  <2>2. Len(inbox) \in Nat /\ inbox' \in Seq(Commands) /\ Len(inbox') = n /\ \A k \in 1 .. n : inbox'[k] = inbox[k]
    BY <2>1, LenTypes, SubSeqProperties, ElementOfSeq DEF FlowInv, FlowType
  <2> QED
    BY <2>2, EmptySeq
<1>4. ParsedInv'
  BY <1>1, <1>2, <1>3, CountKept DEF counted, CountInv, ParsedInv
<1> QED
  BY <1>1, <1>2, <1>4, CountKept DEF CountInv

LEMMA CountSlotConnected ==
    ASSUME FlowInv, CountInv, SlotConnected
    PROVE  CountInv'
<1>1. UNCHANGED <<items, slotDataGood, linked, online, countedItemIndex, batch, sending, progressiveCount,
                  foodCount, weaponsArrived>>
  BY DEF SlotConnected, server, counters
<1>2. Seen' = Seen /\ online /\ Head(inbox) = inbox[1] /\ inbox[1].cmd = "Connected" /\ inbox # << >>
  BY <1>1, LenTypes, EmptySeq DEF SlotConnected, Idle, Seen, FlowInv, FlowType
<1>3. inbox[1].good = slotDataGood
  <2>1. Len(inbox) \in Nat \ {0}
    BY <1>2, LenTypes, EmptySeq DEF FlowInv, FlowType
  <2> QED
    BY <1>2, <2>1 DEF FlowInv, StreamInv
<1>4. CASE ~slotDataGood
  <2>1. parsed' = parsed /\ parsed = FALSE
    BY <1>2, <1>3, <1>4 DEF SlotConnected, CountInv, ParsedInv
  <2> QED
    BY <1>1, <1>2, <1>4, <2>1 DEF CountInv, CountType, CountsInv, ParsedInv
<1>5. CASE slotDataGood
  <2>1. parsed' = TRUE
    BY <1>2, <1>3, <1>5 DEF SlotConnected
  <2>2. CASE parsed
    BY <1>1, <1>2, <1>5, <2>1, <2>2 DEF CountInv, CountType, CountsInv, SeenOf, ParsedInv
  <2>3. CASE ~parsed
    <3>1. Seen = 0 /\ progressiveCount = 0 /\ foodCount = 0 /\ weaponsArrived = 0
      BY <1>2, <1>5, <2>3 DEF CountInv, ParsedInv
    <3>2. \A kind : Cardinality(Places(items, kind, 0)) = 0
      BY PlacesNone
    <3> QED
      BY <1>1, <1>2, <1>5, <2>1, <3>1, <3>2 DEF CountInv, CountType, CountsInv, SeenOf, ParsedInv
  <2> QED
    BY <2>2, <2>3
<1> QED
  BY <1>4, <1>5

LEMMA CountItemsReceived ==
    ASSUME FlowInv, CountInv, ItemsReceived
    PROVE  CountInv'
<1>1. UNCHANGED counted /\ UNCHANGED <<countedItemIndex, linked>>
  BY DEF ItemsReceived, counted, server, memory
<1>2. online /\ inbox # << >> /\ inbox[1].cmd = "ReceivedItems" /\ batch = NoBatch
  BY FlowItemsReceived DEF ItemsReceived, Idle
<1>3. Seen' = Seen
  <2>1. Seen = countedItemIndex /\ countedItemIndex \in Nat /\ batch'.next \in Int
    BY <1>2, SeenType, FlowItemsReceived, LenTypes DEF FlowInv, FlowType
  <2>2. batch'.next - 1 <= countedItemIndex
    BY <2>1, FlowItemsReceived
  <2> QED
    BY <1>1, <2>1, <2>2 DEF Seen, Larger
<1>4. parsed \/ ~slotDataGood
  BY <1>2 DEF CountInv, ParsedInv
<1>5. ParsedInv'
  BY <1>1, <1>3, <1>4, CountKept DEF counted, CountInv, ParsedInv
<1> QED
  BY <1>1, <1>3, <1>5, CountKept DEF CountInv
LEMMA AlreadyCountedType == ASSUME FlowInv, NEW i \in Int PROVE AlreadyCounted(i) \in BOOLEAN
  BY DEF AlreadyCounted

\* One turn of the loop sees one item more, unless it was seen before.
LEMMA SeenAdvances ==
    ASSUME FlowInv, RewardNext
    PROVE  /\ AlreadyCounted(batch.next) => Seen' = Seen
           /\ ~AlreadyCounted(batch.next) => Seen = batch.next - 1 /\ Seen' = batch.next
           /\ \A kind : SeenOf(kind)' = SeenOf(kind) +
                  IF AlreadyCounted(batch.next) \/ items[batch.next] # kind THEN 0 ELSE 1
<1> DEFINE i == batch.next
<1>1. /\ items' = items /\ countedItemIndex' = countedItemIndex /\ batch'.next = i + 1
      /\ i \in 1 .. Len(items) /\ Len(items) \in Nat /\ countedItemIndex \in Nat
  <2>1. Len(items) \in Nat /\ countedItemIndex \in Nat
    BY LenTypes DEF FlowInv, FlowType
  <2> QED
    BY <2>1, RewardNextFlow
<1>2. AlreadyCounted(i) => Seen' = Seen
  BY <1>1 DEF AlreadyCounted, Seen, Larger
<1>3. ~AlreadyCounted(i) => Seen = i - 1 /\ Seen' = i
  BY <1>1 DEF AlreadyCounted, Seen, Larger
<1>4. ASSUME NEW kind
      PROVE  SeenOf(kind)' = SeenOf(kind) + IF AlreadyCounted(i) \/ items[i] # kind THEN 0 ELSE 1
  <2>1. SeenOf(kind) \in Nat
    BY SeenType, PlacesFinite, <1>1 DEF SeenOf
  <2>2. CASE AlreadyCounted(i)
    BY <1>1, <1>2, <2>1, <2>2 DEF SeenOf
  <2>3. CASE ~AlreadyCounted(i)
    <3>1. Cardinality(Places(items, kind, i))
            = Cardinality(Places(items, kind, i - 1)) + IF items[i] = kind THEN 1 ELSE 0
      BY <1>1, PlacesStep DEF FlowInv, FlowType
    <3>2. SeenOf(kind)' = SeenOf(kind) + IF items[i] = kind THEN 1 ELSE 0
      BY <1>1, <1>3, <2>3, <3>1 DEF SeenOf
    <3> QED
      BY <2>1, <2>3, <3>2
  <2> QED
    BY <2>2, <2>3
<1> QED
  BY <1>2, <1>3, <1>4

LEMMA CountRewardNext ==
    ASSUME FlowInv, CountInv, RewardNext
    PROVE  CountInv'
<1> DEFINE i == batch.next
           more(kind) == IF AlreadyCounted(i) \/ items[i] # kind THEN 0 ELSE 1
<1>1. /\ UNCHANGED <<items, slotDataGood, online, parsed>> /\ online /\ batch # NoBatch
      /\ parsed \in BOOLEAN
  BY RewardNextFlow DEF FlowInv, FlowType
<1>2. \A kind : SeenOf(kind)' = SeenOf(kind) + more(kind)
  BY SeenAdvances
<1>3. progressiveCount \in Nat /\ foodCount \in Nat /\ weaponsArrived \in Nat
  BY LenTypes DEF CountInv, CountType, FlowInv
<1>4. CASE ~parsed
  <2>1. UNCHANGED <<progressiveCount, foodCount, weaponsArrived>>
    BY <1>4 DEF RewardNext, RewardUnknown, RewardMailed, RewardProgressive, RewardFood, RewardWeapon, counters
  <2>2. ~slotDataGood
    BY <1>1, <1>4 DEF CountInv, ParsedInv
  <2> QED
    BY <1>1, <1>4, <2>1, <2>2 DEF CountInv, CountType, CountsInv, ParsedInv
<1>5. CASE parsed
  <2>1. \/ RewardMailed(i) \/ RewardProgressive(i)
        \/ RewardFood(i) \/ RewardWeapon(i)
    BY <1>5 DEF RewardNext, RewardUnknown
  <2>2. /\ progressiveCount' = progressiveCount + more("progressive")
        /\ foodCount' = foodCount + more("food")
        /\ weaponsArrived' = weaponsArrived + more("weapon")
    <3>1. CASE RewardMailed(i)
      BY <1>3, <3>1 DEF RewardMailed, counters
    <3>2. CASE RewardProgressive(i)
      BY <1>3, <3>2 DEF RewardProgressive
    <3>3. CASE RewardFood(i)
      BY <1>3, <3>3 DEF RewardFood
    <3>4. CASE RewardWeapon(i)
      BY <1>3, <3>4 DEF RewardWeapon
    <3> QED
      BY <2>1, <3>1, <3>2, <3>3, <3>4
  <2> HIDE DEF more
  <2>3. CountsInv'
    BY <1>1, <1>2, <1>5, <2>2 DEF CountInv, CountsInv
  <2>4. CountType'
    BY <1>1, <1>5, <2>3, FlowRewardNext, CountsBounded
  <2>5. ParsedInv'
    BY <1>1, <1>5 DEF CountInv, ParsedInv
  <2> QED
    BY <2>3, <2>4, <2>5 DEF CountInv
<1> QED
  BY <1>4, <1>5

LEMMA CountBatchEnds ==
    ASSUME FlowInv, CountInv, BatchEnds
    PROVE  CountInv'
<1>1. /\ UNCHANGED counted /\ UNCHANGED <<linked, inbox, sending>>
      /\ online /\ batch # NoBatch /\ batch' = NoBatch
  BY DEF BatchEnds, counted, server, counters
<1>2. Seen' = Seen
  <2>1. countedItemIndex' = Larger(countedItemIndex, batch.last) /\ batch.next - 1 = batch.last
    BY FlowBatchEnds, LenTypes DEF FlowInv
  <2>2. batch'.next = 1 /\ countedItemIndex \in Nat /\ batch.last \in Nat
    BY <1>1, LenTypes DEF FlowInv, FlowType
  <2> QED
    BY <2>1, <2>2 DEF Seen, Larger
<1>3. parsed \/ ~slotDataGood
  BY <1>1 DEF CountInv, ParsedInv
<1>4. ParsedInv'
  BY <1>1, <1>2, <1>3, CountKept DEF counted, CountInv, ParsedInv
<1> QED
  BY <1>1, <1>2, <1>4, CountKept DEF CountInv

LEMMA CountFreed ==
    ASSUME FlowInv, CountInv, Freed, UNCHANGED <<items, slotDataGood>>
    PROVE  CountInv'
  BY DEF Freed, counters, CountInv, CountType, ParsedInv, CountsInv

LEMMA CountLogin ==
    ASSUME FlowInv, CountInv, Login
    PROVE  CountInv'
<1>1. /\ parsed' = FALSE /\ countedItemIndex' = 0
      /\ progressiveCount' = 0 /\ foodCount' = 0 /\ weaponsArrived' = 0
      /\ UNCHANGED <<items, slotDataGood, linked, inbox, batch, sending>>
  BY DEF Login, server
<1>2. linked = FALSE /\ inbox = << >> /\ batch = NoBatch /\ sending = FALSE
  BY DEF Login, FlowInv, LifeInv
<1>3. Seen' = 0
  BY <1>1, <1>2, LenTypes DEF Seen, Larger, FlowInv
<1> QED
  BY <1>1, <1>2, <1>3, LenTypes DEF CountInv, CountType, ParsedInv, CountsInv, FlowInv

LEMMA CountStep == FlowInv /\ CountInv /\ [Next]_vars => CountInv'
<1> SUFFICES ASSUME FlowInv, CountInv, [Next]_vars PROVE CountInv'
  OBVIOUS
<1>1. ASSUME RunEnded \/ Logout \/ Crash PROVE CountInv'
  <2>1. Freed /\ UNCHANGED <<items, slotDataGood>>
    BY <1>1 DEF RunEnded, Logout, Crash
  <2> QED
    BY <2>1, CountFreed
<1>2. ASSUME \/ PeriodicSave \/ SendWeapon \/ SendingEnds \/ MailWritten \/ UNCHANGED vars
             \/ \E slot \in 1 .. WeaponSlots : SetHeirloomWeapon(slot)
      PROVE  CountInv'
  <2>1. UNCHANGED <<counted, countedItemIndex, batch, inbox, linked>>
    BY <1>2 DEF counted, PeriodicSave, SendWeapon, SendingEnds, MailWritten, SetHeirloomWeapon,
                server, memory, counters, vars
  <2>2. sending' = sending \/ sending' = FALSE \/ parsed = TRUE
    <3>1. CASE PeriodicSave \/ SendWeapon \/ SendingEnds \/ MailWritten \/ UNCHANGED vars
      BY <3>1 DEF PeriodicSave, SendWeapon, SendingEnds, MailWritten, vars
    <3>2. CASE \E slot \in 1 .. WeaponSlots : SetHeirloomWeapon(slot)
      BY <3>2 DEF SetHeirloomWeapon, FlowInv, FlowType
    <3> QED
      BY <1>2, <3>1, <3>2
  <2> QED
    BY <2>1, <2>2, CountIdle
<1>3. ASSUME VersionsFixed PROVE CountInv'
  <2>1. /\ UNCHANGED <<items, online, parsed, progressiveCount, foodCount, weaponsArrived>>
        /\ ~online /\ slotDataGood' = TRUE
    BY <1>3 DEF VersionsFixed, memory
  <2> QED
    BY <2>1 DEF CountInv, CountType, ParsedInv, CountsInv
<1> QED
  BY <1>1, <1>2, <1>3, CountItemFound, CountLink, CountLinkLost, CountSlotConnected,
     CountItemsReceived, CountRewardNext, CountBatchEnds, CountLogin
     DEF Next, Handle
-----------------------------------------------------------------------------
(* The mails *)

LEMMA MailFields ==
    ASSUME NEW m \in Mails
    PROVE  /\ m.kind \in {"reward", "food", "weapon"}
           /\ m.at \in 0 .. MaxItems /\ m.tier \in Nat
           /\ m.kind # "weapon" => m.at \in Positions
<1>1. CASE m \in [kind : {"reward"}, at : Positions, tier : {0}]
  BY <1>1, Bounds DEF Positions
<1>2. CASE m \in [kind : {"food"}, at : Positions, tier : 0 .. MaxItems]
  BY <1>2, Bounds DEF Positions
<1>3. CASE m \in [kind : {"weapon"}, at : {0}, tier : 1 .. WeaponSlots]
  BY <1>3, Bounds
<1> QED
  BY <1>1, <1>2, <1>3 DEF Mails

LEMMA CopiesType ==
    ASSUME MailType, NEW m \in Mails
    PROVE  mailed[m] \in Nat /\ Occurrences(m, outbox) \in Nat /\ Copies(m) \in Nat
<1>1. mailed[m] \in Nat /\ Occurrences(m, outbox) \in Nat
  BY OccurrencesFinite DEF MailType
<1> QED
  BY <1>1 DEF Copies

\* A mail committed is one copy more of it, and of no other.
LEMMA MailCommitted ==
    ASSUME MailType, NEW n \in Mails, outbox' = Append(outbox, n), UNCHANGED mailed
    PROVE  /\ outbox' \in Seq(Mails)
           /\ \A m \in Mails : Copies(m)' = Copies(m) + IF m = n THEN 1 ELSE 0
<1>1. outbox' \in Seq(Mails)
  BY AppendProperties DEF MailType
<1>2. ASSUME NEW m \in Mails
      PROVE  Copies(m)' = Copies(m) + IF m = n THEN 1 ELSE 0
  <2>1. Occurrences(m, outbox') = Occurrences(m, outbox) + IF m = n THEN 1 ELSE 0
    BY OccurrencesAppend DEF MailType
  <2>2. Copies(m)' = mailed[m] + Occurrences(m, outbox') /\ Copies(m) = mailed[m] + Occurrences(m, outbox)
    BY DEF Copies
  <2> QED
    BY <2>1, <2>2, CopiesType
<1> QED
  BY <1>1, <1>2

\* A mail that is written is only elsewhere.
LEMMA MailWrittenCopies ==
    ASSUME MailType, MailWritten
    PROVE  /\ outbox' \in Seq(Mails) /\ mailed' \in [Mails -> Nat]
           /\ \A m \in Mails : Copies(m)' = Copies(m)
<1>1. outbox # << >> /\ outbox' = Tail(outbox) /\ mailed' = [mailed EXCEPT ![Head(outbox)] = @ + 1]
  BY DEF MailWritten
<1>2. outbox' \in Seq(Mails) /\ Head(outbox) \in Mails
  BY <1>1, HeadTailProperties DEF MailType
<1>3. mailed' \in [Mails -> Nat]
  BY <1>1, <1>2 DEF MailType
<1>4. ASSUME NEW m \in Mails
      PROVE  Copies(m)' = Copies(m)
  <2>1. Occurrences(m, outbox) = Occurrences(m, outbox') + IF m = Head(outbox) THEN 1 ELSE 0
    BY <1>1, OccurrencesTail DEF MailType
  <2>2. mailed'[m] = mailed[m] + IF m = Head(outbox) THEN 1 ELSE 0
    BY <1>1, <1>2 DEF MailType
  <2>3. mailed[m] \in Nat /\ Occurrences(m, outbox') \in Nat
    BY <1>2, OccurrencesFinite DEF MailType
  <2>4. Copies(m)' = mailed'[m] + Occurrences(m, outbox') /\ Copies(m) = mailed[m] + Occurrences(m, outbox)
    BY DEF Copies
  <2> QED
    BY <2>1, <2>2, <2>3, <2>4
<1> QED
  BY <1>2, <1>3, <1>4

LEMMA MailInit == Init => MailInv
<1> SUFFICES ASSUME Init PROVE MailInv
  OBVIOUS
<1>1. outbox \in Seq(Mails) /\ mailed \in [Mails -> Nat]
  BY EmptySeq DEF Init
<1>2. \A m \in Mails : Copies(m) = 0
  <2>1. \A m \in Mails : mailed[m] = 0 /\ Occurrences(m, outbox) = 0
    BY OccurrencesEmpty DEF Init
  <2> QED
    BY <2>1 DEF Copies
<1>3. preferences \in [sent : 0 .. WeaponSlots, chosen : SUBSET (1 .. WeaponSlots)] /\ preferences.sent = 0
  BY Bounds DEF Init
<1>4. MailType /\ SavedInv
  BY <1>1, <1>3, Bounds DEF Init, MailType, SavedInv
<1>5. UnsentInv /\ NoRepeatedReward /\ FoodInv
  BY <1>2 DEF Init, UnsentInv, NoRepeatedReward, FoodInv
<1> QED
  BY <1>4, <1>5 DEF MailInv

\* Where the mails are the same and nothing can be sent that could not be before.
LEMMA MailKept ==
    ASSUME MailInv, UNCHANGED <<outbox, mailed, lost, weaponsSent, weapons, preferences, interrupted>>,
           UNCHANGED items, SavedInv', \A m \in Mails : Unsent(m)' => Unsent(m)
    PROVE  MailInv'
<1>1. \A m \in Mails : Copies(m)' = Copies(m)
  BY DEF Copies
<1>2. \A m \in Mails : IsDueFood(m)' <=> IsDueFood(m)
  BY DEF IsDueFood
<1>3. MailType'
  BY DEF MailInv, MailType
<1>4. UnsentInv' /\ NoRepeatedReward' /\ FoodInv'
  BY <1>1, <1>2 DEF MailInv, UnsentInv, NoRepeatedReward, FoodInv
<1> QED
  BY <1>3, <1>4 DEF MailInv

\* Where a mail goes out that had not before, and cannot again.
LEMMA MailSent ==
    ASSUME FlowInv, MailInv, NEW n \in Mails, outbox' = Append(outbox, n),
           UNCHANGED <<items, mailed, lost, weapons, preferences, interrupted>>,
           weaponsSent' \in 0 .. WeaponSlots, SavedInv',
           Unsent(n), Unsent(n)' = FALSE, \A m \in Mails : Unsent(m)' => Unsent(m),
           n.kind = "food" => IsDueFood(n)
    PROVE  MailInv'
<1>1. outbox' \in Seq(Mails) /\ \A m \in Mails : Copies(m)' = Copies(m) + IF m = n THEN 1 ELSE 0
  BY MailCommitted DEF MailInv
<1>2. \A m \in Mails : Copies(m) \in Nat
  BY CopiesType DEF MailInv
<1>3. interrupted \in Nat
  BY DEF FlowInv, FlowType
<1>4. MailType'
  BY <1>1 DEF MailInv, MailType
<1>5. UnsentInv'
  BY <1>1, <1>2 DEF MailInv, UnsentInv
<1>6. NoRepeatedReward'
  BY <1>1, <1>2, <1>3 DEF MailInv, UnsentInv, NoRepeatedReward
<1>7. \A m \in Mails : IsDueFood(m)' <=> IsDueFood(m)
  BY DEF IsDueFood
<1>8. FoodInv'
  BY <1>1, <1>2, <1>7 DEF MailInv, FoodInv
<1> QED
  BY <1>4, <1>5, <1>6, <1>8 DEF MailInv
LEMMA MailItemFound ==
    ASSUME FlowInv, MailInv, NEW kind \in Kinds, ItemFound(kind)
    PROVE  MailInv'
<1>1. items \in Seq(Kinds) /\ items' = Append(items, kind) /\ Len(items) \in Nat
  BY LenProperties DEF ItemFound, FlowInv, FlowType
<1>2. Len(items') = Len(items) + 1 /\ \A i \in 1 .. Len(items) : items'[i] = items[i]
  BY <1>1, AppendProperties
<1>3. UNCHANGED <<outbox, mailed, lost, weaponsSent, weapons, preferences, interrupted, itemIndex, batch,
                  online, sending>>
  BY DEF ItemFound, memory, database, mails
<1>4. \A m \in Mails : Copies(m)' = Copies(m)
  BY <1>3 DEF Copies
<1>5. \A m \in Mails : Unsent(m)' <=> Unsent(m)
  BY <1>3 DEF Unsent, UnsentFrom
<1>6. \A m \in Mails : m.kind = "food" /\ IsDueFood(m) => IsDueFood(m)'
  <2>1. SUFFICES ASSUME NEW m \in Mails, m.kind = "food", IsDueFood(m) PROVE IsDueFood(m)'
    OBVIOUS
  <2>2. m.at \in 1 .. Len(items)
    BY <1>1, <2>1, MailFields DEF IsDueFood, Positions
  <2>3. Places(items', "food", m.at) = Places(items, "food", m.at)
    BY <1>1, <2>2, PlacesAppend
  <2> QED
    BY <1>1, <1>2, <2>1, <2>2, <2>3 DEF IsDueFood
<1>7. MailType' /\ SavedInv'
  BY <1>3 DEF MailInv, MailType, SavedInv
<1>8. UnsentInv' /\ NoRepeatedReward'
  BY <1>3, <1>4, <1>5 DEF MailInv, UnsentInv, NoRepeatedReward
<1>9. FoodInv'
  BY <1>4, <1>6 DEF MailInv, FoodInv
<1> QED
  BY <1>7, <1>8, <1>9 DEF MailInv

\* The steps that leave the mails, the choices and the positions alone.
LEMMA MailQuiet ==
    ASSUME FlowInv, MailInv,
           \/ Link \/ LinkLost \/ VersionsFixed \/ SlotConnected \/ PeriodicSave
           \/ RunEnded \/ Logout \/ UNCHANGED vars
    PROVE  MailInv'
<1>1. UNCHANGED <<outbox, mailed, lost, weaponsSent, weapons, preferences, interrupted, itemIndex, items>>
  BY DEF Link, LinkLost, VersionsFixed, SlotConnected, PeriodicSave, RunEnded, Logout, vars, Freed,
         server, memory, mails, database
<1>2. \/ UNCHANGED <<batch, online, sending>>
      \/ batch = NoBatch /\ batch' = NoBatch /\ sending = FALSE /\ sending' = FALSE /\ online /\ online' = FALSE
  BY DEF Link, LinkLost, VersionsFixed, SlotConnected, PeriodicSave, RunEnded, Logout, vars, Freed, Idle,
         memory, FlowInv, FlowType
<1>3. SavedInv'
  BY <1>1, <1>2 DEF MailInv, SavedInv
<1>4. \A m \in Mails : Unsent(m)' => Unsent(m)
  <2>1. UnsentFrom' = UnsentFrom
    BY <1>1, <1>2 DEF MailInv, SavedInv, UnsentFrom
  <2>2. batch' = batch
    BY <1>2
  <2> QED
    BY <1>1, <2>1, <2>2 DEF Unsent
<1> QED
  BY <1>1, <1>3, <1>4, MailKept

LEMMA MailItemsReceived ==
    ASSUME FlowInv, MailInv, ItemsReceived
    PROVE  MailInv'
<1>1. UNCHANGED <<outbox, mailed, lost, weaponsSent, weapons, preferences, interrupted, itemIndex, items,
                  online, sending>>
  BY DEF ItemsReceived, server, memory, database, mails
<1>2. batch.next = 1 /\ batch'.next \in Nat /\ 1 <= batch'.next
  <2>1. FlowInv' /\ batch.next = 1 /\ 1 <= batch'.next
    BY FlowItemsReceived
  <2>2. batch'.next \in 1 .. MaxItems + 1
    BY <2>1 DEF FlowInv, FlowType
  <2> QED
    BY <2>1, <2>2, Bounds
<1>3. SavedInv'
  BY <1>1 DEF MailInv, SavedInv
<1>4. \A m \in Mails : Unsent(m)' => Unsent(m)
  BY <1>1, <1>2, MailFields DEF Unsent, UnsentFrom
<1> QED
  BY <1>1, <1>3, <1>4, MailKept

LEMMA MailBatchEnds ==
    ASSUME FlowInv, MailInv, BatchEnds
    PROVE  MailInv'
<1>1. UNCHANGED <<outbox, mailed, lost, weaponsSent, weapons, preferences, interrupted, items,
                  online, sending>>
  BY DEF BatchEnds, server, mails
<1>2. SavedInv'
  BY <1>1 DEF MailInv, SavedInv
<1>3. /\ batch.next = batch.last + 1 /\ itemIndex' = Larger(itemIndex, batch.last)
      /\ itemIndex \in Nat /\ batch.last \in Nat
  BY FlowBatchEnds, LenTypes DEF FlowInv, FlowType
<1>4. \A m \in Mails : Unsent(m)' => Unsent(m)
  <2>1. UnsentFrom' = UnsentFrom
    BY <1>1 DEF UnsentFrom
  <2>2. ASSUME NEW m \in Mails, m.at > itemIndex'
        PROVE  m.at > itemIndex /\ m.at >= batch.next
    BY <1>3, <2>2, MailFields DEF Larger
  <2> QED
    BY <2>1, <2>2 DEF Unsent
<1> QED
  BY <1>1, <1>2, <1>4, MailKept

\* A turn of the loop that mails nothing.
LEMMA MailNotSent ==
    ASSUME FlowInv, MailInv, RewardNext, outbox' = outbox
    PROVE  MailInv'
<1>1. UNCHANGED <<mailed, lost, weaponsSent, weapons, preferences, interrupted, itemIndex, items, online>>
  BY RewardNextFlow
<1>2. online /\ sending = FALSE /\ batch'.next = batch.next + 1 /\ batch.next \in Nat
  BY RewardNextFlow, LenTypes DEF FlowInv
<1>3. SavedInv'
  BY <1>1, <1>2 DEF MailInv, SavedInv
<1>4. \A m \in Mails : Unsent(m)' => Unsent(m)
  BY <1>1, <1>2, MailFields DEF Unsent, UnsentFrom
<1> QED
  BY <1>1, <1>3, <1>4, MailKept

\* A turn of the loop that mails something for its item.
LEMMA MailForItem ==
    ASSUME FlowInv, MailInv, RewardNext, NEW n \in Mails, outbox' = Append(outbox, n),
           n.kind # "weapon", n.at = batch.next, ~AlreadyRewarded(batch.next),
           n.kind = "food" => IsDueFood(n)
    PROVE  MailInv'
<1>1. UNCHANGED <<mailed, lost, weaponsSent, weapons, preferences, interrupted, itemIndex, items, online>>
  BY RewardNextFlow
<1>2. online /\ sending = FALSE /\ batch'.next = batch.next + 1 /\ batch.next \in Nat
  BY RewardNextFlow, LenTypes DEF FlowInv
<1>3. SavedInv' /\ weaponsSent' \in 0 .. WeaponSlots
  BY <1>1, <1>2 DEF MailInv, MailType, SavedInv
<1>4. \A m \in Mails : Unsent(m)' => Unsent(m)
  BY <1>1, <1>2, MailFields DEF Unsent, UnsentFrom
<1>5. Unsent(n)
  <2>1. itemIndex \in Nat /\ batch.next > itemIndex
    BY <1>2, LenTypes DEF FlowInv, FlowType, AlreadyRewarded
  <2> QED
    BY <1>2, <2>1 DEF Unsent
<1>6. Unsent(n)' = FALSE
  BY <1>2 DEF Unsent
<1> QED
  BY <1>1, <1>3, <1>4, <1>5, <1>6, MailSent

LEMMA MailRewardNext ==
    ASSUME FlowInv, CountInv, MailInv, RewardNext
    PROVE  MailInv'
<1> DEFINE i == batch.next
<1>1. i \in Positions /\ i \in 1 .. Len(items) /\ Len(items) \in Nat /\ Len(items) <= MaxItems /\ online
  <2>1. i \in 1 .. Len(items) /\ online
    BY RewardNextFlow
  <2>2. Len(items) \in Nat /\ Len(items) <= MaxItems /\ MaxItems \in Nat
    BY LenTypes DEF FlowInv, FlowType
  <2> QED
    BY <2>1, <2>2 DEF Positions
<1>2. CASE RewardMailed(i) /\ ~AlreadyRewarded(i)
  <2> DEFINE n == [kind |-> "reward", at |-> i, tier |-> 0]
  <2>1. outbox' = Append(outbox, n)
    BY <1>2 DEF RewardMailed, Mail
  <2>2. n \in Mails /\ n.kind = "reward" /\ n.at = i
    BY <1>1 DEF Mails
  <2> HIDE DEF n
  <2> QED
    BY <1>2, <2>1, <2>2, MailForItem
<1>3. CASE RewardFood(i) /\ ~AlreadyRewarded(i) /\ foodCount' \in 1 .. FoodTiers
  <2> DEFINE n == [kind |-> "food", at |-> i, tier |-> foodCount']
  <2>1. outbox' = Append(outbox, n)
    BY <1>3 DEF RewardFood, Mail
  <2>2. parsed /\ items[i] = "food" /\ UNCHANGED <<items, parsed, online>>
    BY <1>3, RewardNextFlow DEF RewardFood
  <2>3. ~AlreadyCounted(i)
    BY <1>1, <1>3, LenTypes DEF AlreadyRewarded, AlreadyCounted, FlowInv, FlowType, BatchInv
  <2>4. foodCount' = Cardinality(Places(items, "food", i))
    <3>1. CountsInv' /\ Seen' = i
      BY <2>3, CountRewardNext, SeenAdvances DEF CountInv
    <3> QED
      BY <1>1, <2>2, <3>1 DEF CountsInv, SeenOf
  <2>5. foodCount' \in 0 .. MaxItems
    BY <1>1, <2>4, PlacesFinite, Bounds
  <2>6. n \in Mails /\ n.kind = "food" /\ n.at = i /\ n.tier = foodCount'
    BY <1>1, <2>5 DEF Mails
  <2> HIDE DEF n
  <2>7. IsDueFood(n)
    BY <1>1, <1>3, <2>2, <2>4, <2>6, Bounds DEF IsDueFood
  <2> QED
    BY <1>3, <2>1, <2>6, <2>7, MailForItem
<1>4. CASE outbox' = outbox
  BY <1>4, MailNotSent
<1> QED
  <2>1. RewardUnknown \/ RewardMailed(i) \/ RewardProgressive(i) \/ RewardFood(i) \/ RewardWeapon(i)
    BY DEF RewardNext
  <2>2. RewardUnknown \/ RewardProgressive(i) \/ RewardWeapon(i) => outbox' = outbox
    BY DEF RewardUnknown, RewardProgressive, RewardWeapon
  <2>3. RewardMailed(i) => outbox' = outbox \/ ~AlreadyRewarded(i)
    BY DEF RewardMailed
  <2>4. RewardFood(i) => outbox' = outbox \/ (~AlreadyRewarded(i) /\ foodCount' \in 1 .. FoodTiers)
    BY DEF RewardFood
  <2> QED
    BY <1>2, <1>3, <1>4, <2>1, <2>2, <2>3, <2>4
LEMMA MailSendWeapon ==
    ASSUME FlowInv, MailInv, SendWeapon
    PROVE  MailInv'
<1>1. UNCHANGED <<mailed, lost, weapons, preferences, interrupted, itemIndex, items, online, batch, sending>>
  BY DEF SendWeapon, server, database
<1>2. sending /\ online /\ weaponsSent' = weaponsSent + 1
  BY DEF SendWeapon, FlowInv, FlowType, LifeInv
<1>3. weaponsSent \in 0 .. WeaponSlots /\ preferences.sent \in 0 .. WeaponSlots
  BY DEF MailInv, MailType
<1>4. weaponsSent + 1 \in 1 .. WeaponSlots
  BY <1>3, Bounds DEF SendWeapon, WeaponCanGo, MailInv, MailType
<1>5. PICK n \in Mails : n.kind = "weapon" /\ n.tier = weaponsSent + 1 /\ outbox' = Append(outbox, n)
  <2>1. [kind |-> "weapon", at |-> 0, tier |-> weaponsSent + 1] \in Mails
    BY <1>4 DEF Mails
  <2> QED
    BY <2>1 DEF SendWeapon, Mail
<1>6. SavedInv'
  BY <1>1, <1>2, <1>3, Bounds DEF MailInv, SavedInv
<1>7. \A m \in Mails : Unsent(m)' => Unsent(m)
  BY <1>1, <1>2, <1>3, Bounds, MailFields DEF Unsent, UnsentFrom
<1>8. Unsent(n)
  BY <1>2, <1>3, <1>5, Bounds DEF Unsent, UnsentFrom
<1>9. Unsent(n)' = FALSE
  <2>1. UnsentFrom' = weaponsSent + 1
    BY <1>1, <1>2 DEF UnsentFrom
  <2> QED
    BY <1>3, <1>5, <2>1, Bounds DEF Unsent
<1>10. weaponsSent' \in 0 .. WeaponSlots
  BY <1>2, <1>4, Bounds
<1> QED
  BY <1>1, <1>5, <1>6, <1>7, <1>8, <1>9, <1>10, MailSent

\* The steps that only change what is chosen and what is saved of it.
LEMMA MailChoices ==
    ASSUME FlowInv, MailInv, SendingEnds \/ Login \/ \E slot \in 1 .. WeaponSlots : SetHeirloomWeapon(slot)
    PROVE  MailInv'
<1>1. UNCHANGED <<outbox, mailed, lost, interrupted, items, batch>>
  BY DEF SendingEnds, Login, SetHeirloomWeapon, server, mails, memory
<1>2. itemIndex' = itemIndex
  BY FlowLogin DEF SendingEnds, SetHeirloomWeapon, memory
<1>3. /\ weaponsSent \in 0 .. WeaponSlots /\ weapons \subseteq 1 .. WeaponSlots
      /\ preferences \in [sent : 0 .. WeaponSlots, chosen : SUBSET (1 .. WeaponSlots)]
      /\ preferences.sent \in 0 .. WeaponSlots /\ preferences.chosen \subseteq 1 .. WeaponSlots
  BY DEF MailInv, MailType
<1>4. /\ weaponsSent' \in 0 .. WeaponSlots /\ weapons' \subseteq 1 .. WeaponSlots
      /\ preferences' \in [sent : 0 .. WeaponSlots, chosen : SUBSET (1 .. WeaponSlots)]
      /\ SavedInv' /\ UnsentFrom' = UnsentFrom
  <2>1. CASE SendingEnds
    <3>1. UNCHANGED <<online, weaponsSent, weapons>> /\ preferences' = [preferences EXCEPT !.sent = weaponsSent] /\ online
      BY <2>1 DEF SendingEnds, SentSaved, memory, FlowInv, FlowType, LifeInv
    <3>2. preferences' \in [sent : 0 .. WeaponSlots, chosen : SUBSET (1 .. WeaponSlots)] /\ preferences'.sent = weaponsSent
      BY <1>3, <3>1
    <3> QED
      BY <1>3, <3>1, <3>2, Bounds DEF SavedInv, UnsentFrom
  <2>2. CASE Login
    <3>1. /\ ~online /\ online' = TRUE /\ preferences' = preferences
          /\ weaponsSent' = preferences.sent /\ weapons' = preferences.chosen
      BY <2>2 DEF Login, database
    <3> QED
      BY <1>3, <3>1, Bounds DEF SavedInv, UnsentFrom
  <2>3. CASE \E slot \in 1 .. WeaponSlots : SetHeirloomWeapon(slot)
    <3>1. PICK slot \in 1 .. WeaponSlots : SetHeirloomWeapon(slot)
      BY <2>3
    <3>2. /\ UNCHANGED <<online, weaponsSent>> /\ online /\ sending' = TRUE
          /\ weapons' = weapons \union {slot} /\ preferences' = [preferences EXCEPT !.chosen = weapons']
      BY <3>1 DEF SetHeirloomWeapon, Idle
    <3>3. weapons' \subseteq 1 .. WeaponSlots
      BY <1>3, <3>2
    <3>4. /\ preferences' \in [sent : 0 .. WeaponSlots, chosen : SUBSET (1 .. WeaponSlots)]
          /\ preferences'.sent = preferences.sent
      BY <1>3, <3>2, <3>3
    <3> QED
      BY <1>3, <3>2, <3>3, <3>4 DEF MailInv, SavedInv, UnsentFrom
  <2> QED
    BY <2>1, <2>2, <2>3
<1>5. \A m \in Mails : Copies(m)' = Copies(m)
  BY <1>1 DEF Copies
<1>6. \A m \in Mails : Unsent(m)' <=> Unsent(m)
  BY <1>1, <1>2, <1>4 DEF Unsent
<1>7. \A m \in Mails : IsDueFood(m)' <=> IsDueFood(m)
  BY <1>1 DEF IsDueFood
<1>8. MailType'
  BY <1>1, <1>4 DEF MailInv, MailType
<1>9. UnsentInv' /\ NoRepeatedReward' /\ FoodInv'
  BY <1>1, <1>5, <1>6, <1>7 DEF MailInv, UnsentInv, NoRepeatedReward, FoodInv
<1> QED
  BY <1>4, <1>8, <1>9 DEF MailInv

LEMMA MailMailWritten ==
    ASSUME FlowInv, MailInv, MailWritten
    PROVE  MailInv'
<1>1. UNCHANGED <<lost, weaponsSent, weapons, preferences, interrupted, items, itemIndex, batch, online, sending>>
  BY DEF MailWritten, server, memory, database
<1>2. MailType' /\ \A m \in Mails : Copies(m)' = Copies(m)
  BY <1>1, MailWrittenCopies DEF MailInv, MailType
<1>3. \A m \in Mails : Unsent(m)' <=> Unsent(m)
  BY <1>1 DEF Unsent, UnsentFrom
<1>4. \A m \in Mails : IsDueFood(m)' <=> IsDueFood(m)
  BY <1>1 DEF IsDueFood
<1>5. SavedInv' /\ UnsentInv' /\ NoRepeatedReward' /\ FoodInv'
  BY <1>1, <1>2, <1>3, <1>4 DEF MailInv, SavedInv, UnsentInv, NoRepeatedReward, FoodInv
<1> QED
  BY <1>2, <1>5 DEF MailInv

\* A crash in the middle of a handler makes what it gave up to there unsent
\* again; at any other time it makes nothing unsent.
LEMMA MailCrash ==
    ASSUME FlowInv, MailInv, Crash
    PROVE  MailInv'
<1>1. /\ UNCHANGED <<items, itemIndex, weaponsSent, weapons, preferences, mailed>>
      /\ online' = FALSE /\ batch' = NoBatch /\ sending' = FALSE
      /\ outbox' = << >> /\ lost' = lost \union {outbox[k] : k \in DOMAIN outbox}
      /\ interrupted' = interrupted + IF batch # NoBatch \/ sending THEN 1 ELSE 0
  BY DEF Crash, Freed, database
<1>2. interrupted \in Nat
  BY DEF FlowInv, FlowType
<1>3. \A m \in Mails : Copies(m)' \in Nat /\ Copies(m)' <= Copies(m) /\ Copies(m) \in Nat
  <2>1. ASSUME NEW m \in Mails
        PROVE  Copies(m)' \in Nat /\ Copies(m)' <= Copies(m) /\ Copies(m) \in Nat
    <3>1. Occurrences(m, outbox') = 0
      BY <1>1, OccurrencesEmpty
    <3>2. Copies(m)' = mailed[m] + 0 /\ Copies(m) = mailed[m] + Occurrences(m, outbox)
      BY <1>1, <3>1 DEF Copies
    <3> QED
      BY <3>2, CopiesType DEF MailInv
  <2> QED
    BY <2>1
<1>4. MailType'
  <2>1. outbox' \in Seq(Mails)
    BY <1>1, EmptySeq
  <2>2. {outbox[k] : k \in DOMAIN outbox} \subseteq Mails
    BY LenProperties, ElementOfSeq DEF MailInv, MailType
  <2> QED
    BY <1>1, <2>1, <2>2 DEF MailInv, MailType
<1>5. SavedInv'
  BY <1>1 DEF MailInv, SavedInv
<1>6. NoRepeatedReward'
  BY <1>1, <1>2, <1>3 DEF MailInv, NoRepeatedReward
<1>7. UnsentInv'
  <2>1. CASE batch # NoBatch \/ sending
    <3>1. interrupted' = interrupted + 1
      BY <1>1, <2>1
    <3> QED
      BY <1>2, <1>3, <3>1 DEF MailInv, NoRepeatedReward, UnsentInv
  <2>2. CASE batch = NoBatch /\ ~sending
    <3>1. interrupted' = interrupted /\ batch' = batch /\ sending = FALSE
      BY <1>1, <1>2, <2>2 DEF FlowInv, FlowType
    <3>2. UnsentFrom' = UnsentFrom
      BY <1>1, <3>1 DEF UnsentFrom, MailInv, SavedInv, FlowInv, FlowType
    <3>3. \A m \in Mails : Unsent(m)' => Unsent(m)
      BY <1>1, <3>1, <3>2 DEF Unsent
    <3> QED
      BY <1>2, <1>3, <3>1, <3>3 DEF MailInv, UnsentInv
  <2> QED
    BY <2>1, <2>2
<1>8. FoodInv'
  <2>1. \A m \in Mails : IsDueFood(m)' <=> IsDueFood(m)
    BY <1>1 DEF IsDueFood
  <2> QED
    BY <1>3, <2>1 DEF MailInv, FoodInv
<1> QED
  BY <1>4, <1>5, <1>6, <1>7, <1>8 DEF MailInv

LEMMA MailStep == FlowInv /\ CountInv /\ MailInv /\ [Next]_vars => MailInv'
  BY MailItemFound, MailQuiet, MailItemsReceived, MailRewardNext, MailBatchEnds, MailSendWeapon,
     MailChoices, MailMailWritten, MailCrash
     DEF Next, Handle

-----------------------------------------------------------------------------
(* The theorems *)

LEMMA Invariant == Spec => []IInv
<1>1. Init => IInv
  BY FlowInit, CountInit, MailInit DEF IInv
<1>2. IInv /\ [Next]_vars => IInv'
  BY FlowStep, CountStep, MailStep DEF IInv
<1> QED
  BY <1>1, <1>2, PTL DEF Spec

\* Positions and counts never run ahead of the item list, however batches,
\* relogs and crashes interleave, and everything stays in its type.
THEOREM TypeCorrect == Spec => []TypeOK
<1>1. IInv => TypeOK
  BY LenTypes DEF IInv, FlowInv, FlowType, CountInv, CountType, MailInv, MailType, TypeOK
<1> QED
  BY <1>1, Invariant, PTL

\* The replay of the item list, in whatever pieces the connection delivers
\* it, gives no reward twice: each copy too many costs a crash in the middle
\* of APReceivedItemsHandler or SendPendingHeirloomWeapons.
THEOREM RewardsNeverRepeat == Spec => []NoRepeatedReward
<1>1. IInv => NoRepeatedReward
  BY DEF IInv, MailInv
<1> QED
  BY <1>1, Invariant, PTL

\* Each food item pays out the tier of its own place in the item list,
\* although the count is taken anew in every login.
THEOREM TiersAlwaysRight == Spec => []RightTier
<1>1. ASSUME IInv PROVE RightTier
  <2>1. SUFFICES ASSUME NEW m \in Mails, m.kind = "food", Copies(m) > 0 PROVE m \in Due(m.at)
    BY DEF RightTier
  <2>2. IsDueFood(m) /\ Len(items) \in Nat
    BY <1>1, <2>1, LenTypes DEF IInv, MailInv, FoodInv, FlowInv
  <2>3. m.at \in Positions
    BY <2>1, MailFields
  <2>4. m.at \in OfKind("food", m.at) \ (1 .. m.at - 1)
    BY <2>2, <2>3 DEF IsDueFood, OfKind, Places, Positions
  <2>5. m \in [kind : {"food"}, at : OfKind("food", m.at) \ (1 .. m.at - 1),
               tier : {Cardinality(OfKind("food", m.at))}]
    BY <2>1, <2>2, <2>4 DEF IsDueFood, OfKind, Mails
  <2> QED
    BY <2>2, <2>5 DEF IsDueFood, Due
<1> QED
  BY <1>1, Invariant, PTL

\* Between batches the three counts are exactly the numbers of items seen in
\* this login, replayed or not.
THEOREM CountsAlwaysSums == Spec => []CountsAreSums
<1>1. ASSUME IInv PROVE CountsAreSums
  <2>1. batch = NoBatch => Seen = countedItemIndex
    BY <1>1, SeenType DEF IInv
  <2> QED
    BY <1>1, <2>1 DEF IInv, CountInv, CountsInv, SeenOf, CountsAreSums, OfKind
<1> QED
  BY <1>1, Invariant, PTL
-----------------------------------------------------------------------------
(* Nothing is recorded that was not given *)

\* The parts of Due: the reward at the position, or the tier of the food there.
LEMMA DueIs ==
    ASSUME NEW i \in Nat, NEW m \in Due(i)
    PROVE  /\ i >= 1 /\ i <= Len(items) /\ m.at = i
           /\ \/ m = [kind |-> "reward", at |-> i, tier |-> 0] /\ items[i] = "reward"
              \/ /\ m = [kind |-> "food", at |-> i, tier |-> Cardinality(Places(items, "food", i))]
                 /\ items[i] = "food" /\ Cardinality(Places(items, "food", i)) <= FoodTiers
<1>1. ASSUME NEW kind, NEW j \in OfKind(kind, i) \ (1 .. i - 1)
      PROVE  j = i /\ i >= 1 /\ i <= Len(items) /\ items[i] = kind
  BY <1>1 DEF OfKind, Places
<1>2. CASE m \in {[kind |-> "reward", at |-> j, tier |-> 0] : j \in OfKind("reward", i) \ (1 .. i - 1)}
  BY <1>1, <1>2
<1>3. CASE m \in {n \in [kind : {"food"}, at : OfKind("food", i) \ (1 .. i - 1),
                         tier : {Cardinality(OfKind("food", i))}] : n.tier <= FoodTiers}
  <2>1. /\ m.at \in OfKind("food", i) \ (1 .. i - 1) /\ m.tier = Cardinality(OfKind("food", i)) /\ m.tier <= FoodTiers
        /\ m = [kind |-> "food", at |-> m.at, tier |-> m.tier]
    BY <1>3
  <2> QED
    BY <1>1, <2>1 DEF OfKind
<1> QED
  BY <1>2, <1>3 DEF Due

LEMMA DueMails ==
    ASSUME FlowInv, NEW i \in Nat, NEW m \in Due(i)
    PROVE  m \in Mails /\ i \in 1 .. Len(items)
<1>1. Len(items) \in Nat /\ MaxItems \in Nat /\ Len(items) <= MaxItems
  BY LenTypes DEF FlowInv, FlowType
<1>2. i \in Positions /\ i \in 1 .. Len(items) /\ Cardinality(Places(items, "food", i)) \in 0 .. MaxItems
  BY <1>1, DueIs, PlacesFinite DEF Positions
<1> QED
  BY <1>2, DueIs DEF Mails

LEMMA DueKept ==
    ASSUME FlowInv, NEW i \in 1 .. Len(items),
           items' = items \/ \E kind \in Kinds : items' = Append(items, kind)
    PROVE  Due(i)' = Due(i)
<1>1. items \in Seq(Kinds) /\ i \in 0 .. Len(items)
  BY LenTypes DEF FlowInv, FlowType
<1>2. \A kind : Places(items', kind, i) = Places(items, kind, i)
  <2>1. CASE items' = items
    BY <2>1
  <2>2. ASSUME NEW item \in Kinds, items' = Append(items, item), NEW kind
        PROVE  Places(items', kind, i) = Places(items, kind, i)
    BY <1>1, <2>2, PlacesAppend
  <2> QED
    BY <2>1, <2>2
<1>3. OfKind("reward", i)' = OfKind("reward", i) /\ OfKind("food", i)' = OfKind("food", i)
  BY <1>2 DEF OfKind
<1> QED
  BY <1>3 DEF Due

LEMMA OccurrencesPositive ==
    ASSUME NEW S, NEW q \in Seq(S), NEW m, Occurrences(m, q) > 0
    PROVE  \E k \in DOMAIN q : q[k] = m
<1>1. SUFFICES ASSUME \A k \in DOMAIN q : q[k] # m PROVE FALSE
  OBVIOUS
<1>2. {k \in DOMAIN q : q[k] = m} = {}
  BY <1>1
<1>3. Occurrences(m, q) = Cardinality({})
  BY <1>2 DEF Occurrences
<1> QED
  BY <1>3, FS_EmptySet

\* What was given stays given, or is known to be lost.
LEMMA GivenKept ==
    ASSUME IInv, [Next]_vars, NEW m \in Mails, Given(m)
    PROVE  Given(m)'
<1> USE DEF IInv
<1>1. MailType /\ mailed[m] \in Nat /\ Occurrences(m, outbox) \in Nat /\ Copies(m) \in Nat
  BY CopiesType DEF MailInv
<1>2. CASE UNCHANGED mails
  BY <1>2 DEF mails, Given, Copies
<1>3. ASSUME NEW n \in Mails, outbox' = Append(outbox, n), UNCHANGED <<mailed, lost>>
      PROVE  Given(m)'
  <2>1. Copies(m)' \in {Copies(m), Copies(m) + 1}
    BY <1>1, <1>3, MailCommitted
  <2> QED
    BY <1>1, <1>3, <2>1 DEF Given
<1>4. CASE MailWritten
  BY <1>1, <1>4, MailWrittenCopies DEF MailWritten, Given
<1>5. CASE Crash
  <2>1. lost' = lost \union {outbox[k] : k \in DOMAIN outbox} /\ outbox' = << >> /\ mailed' = mailed
    BY <1>5 DEF Crash
  <2>2. CASE m \in lost
    BY <2>1, <2>2 DEF Given
  <2>3. CASE Occurrences(m, outbox) > 0
    BY <1>1, <2>1, <2>3, OccurrencesPositive DEF MailType, Given
  <2>4. CASE mailed[m] > 0
    <3>1. Copies(m)' = mailed[m] + 0
      BY <2>1, OccurrencesEmpty DEF Copies
    <3> QED
      BY <1>1, <2>4, <3>1 DEF Given
  <2> QED
    BY <1>1, <2>2, <2>3, <2>4 DEF Given, Copies
<1>6. CASE SendWeapon
  <2>1. weaponsSent + 1 \in 1 .. WeaponSlots
    BY <1>6, Bounds DEF SendWeapon, WeaponCanGo, MailInv, MailType
  <2>2. [kind |-> "weapon", at |-> 0, tier |-> weaponsSent + 1] \in Mails
    BY <2>1 DEF Mails
  <2>3. UNCHANGED <<mailed, lost>> /\ \E n \in Mails : outbox' = Append(outbox, n)
    BY <1>6, <2>2 DEF SendWeapon, Mail
  <2> QED
    BY <1>3, <2>3
<1>7. CASE RewardNext
  <2>1. UNCHANGED <<mailed, lost>> /\ MailInv'
    BY <1>7, MailRewardNext DEF RewardNext
  <2>2. outbox' = outbox \/ \E n : outbox' = Append(outbox, n)
    BY <1>7 DEF RewardNext, RewardUnknown, RewardMailed, RewardProgressive, RewardFood, RewardWeapon, Mail
  <2>3. ASSUME NEW n, outbox' = Append(outbox, n) PROVE n \in Mails
    <3>1. outbox' \in Seq(Mails) /\ outbox \in Seq(Mails)
      BY <2>1 DEF MailInv, MailType
    <3>2. Len(outbox) \in Nat /\ Len(outbox') = Len(outbox) + 1 /\ outbox'[Len(outbox) + 1] = n
      BY <2>3, <3>1, LenProperties
    <3> QED
      BY <3>1, <3>2, ElementOfSeq
  <2> QED
    BY <1>2, <1>3, <2>1, <2>2, <2>3 DEF mails
<1> QED
  BY <1>2, <1>4, <1>5, <1>6, <1>7
     DEF Next, Handle, ItemFound, Link, LinkLost, VersionsFixed, SlotConnected, ItemsReceived, BatchEnds,
         SendingEnds, SetHeirloomWeapon, PeriodicSave, RunEnded, Logout, Login, vars, mails
LEMMA PassedType == ASSUME FlowInv PROVE Passed \in 0 .. Len(items)
  BY LenTypes DEF FlowInv, FlowType, BatchInv, Passed, Larger

\* Only a turn of the loop comes past another item.
LEMMA PassedKept ==
    ASSUME FlowInv, [Next]_vars, ~RewardNext
    PROVE  Passed' <= Passed
<1>1. Passed \in Nat /\ itemIndex \in Nat /\ batch.next \in Nat \ {0} /\ batch.last \in Nat /\ countedItemIndex \in Nat
  BY PassedType, LenTypes DEF FlowInv, FlowType
<1>2. NoBatch.next = 1
  BY DEF NoBatch
<1>3. CASE UNCHANGED <<itemIndex, batch>>
  BY <1>1, <1>3 DEF Passed
<1>4. CASE Freed
  BY <1>1, <1>2, <1>4 DEF Freed, Passed, Larger
<1>5. CASE Login
  <2>1. batch' = batch /\ itemIndex' = itemIndex
    BY <1>5, FlowLogin DEF Login
  <2>2. Passed' = Passed
    BY <2>1 DEF Passed
  <2> QED
    BY <1>1, <2>2
<1>6. CASE ItemsReceived
  <2>1. itemIndex' = itemIndex /\ batch'.next \in Nat /\ batch'.next <= countedItemIndex + 1 /\ countedItemIndex <= itemIndex
    <3>1. FlowInv' /\ batch'.next <= countedItemIndex + 1
      BY <1>6, FlowItemsReceived
    <3>2. batch'.next \in 1 .. MaxItems + 1
      BY <3>1 DEF FlowInv, FlowType
    <3>3. itemIndex' = itemIndex /\ countedItemIndex <= itemIndex
      BY <1>6 DEF ItemsReceived, memory, FlowInv, BatchInv
    <3> QED
      BY <3>1, <3>2, <3>3, Bounds
  <2> QED
    BY <1>1, <2>1 DEF Passed, Larger
<1>7. CASE BatchEnds
  <2>1. itemIndex' = Larger(itemIndex, batch.last) /\ batch.next - 1 = batch.last /\ batch'.next = 1
    BY <1>1, <1>2, <1>7, FlowBatchEnds DEF BatchEnds
  <2> QED
    BY <1>1, <2>1 DEF Passed, Larger
<1> QED
  BY <1>3, <1>4, <1>5, <1>6, <1>7
     DEF Next, Handle, ItemFound, Link, LinkLost, VersionsFixed, SlotConnected, SendWeapon, SendingEnds,
         SetHeirloomWeapon, PeriodicSave, RunEnded, Logout, MailWritten, Crash, vars, memory

\* A turn of the loop gives what its item is due, unless it was given before.
LEMMA DueGiven ==
    ASSUME IInv, slotDataGood, RewardNext, ~AlreadyRewarded(batch.next), NEW m \in Due(batch.next)
    PROVE  Given(m)'
<1> USE DEF IInv
<1> DEFINE i == batch.next
<1>1. i \in Nat /\ i \in 1 .. Len(items) /\ online /\ batch # NoBatch
  BY RewardNextFlow, LenTypes DEF FlowInv
<1>2. parsed
  BY <1>1 DEF CountInv, ParsedInv
<1>3. m \in Mails
  BY <1>1, DueMails
<1>4. outbox' = Append(outbox, m)
  <2>1. CASE m = [kind |-> "reward", at |-> i, tier |-> 0] /\ items[i] = "reward"
    <3>1. RewardMailed(i)
      BY <1>2, <2>1 DEF RewardNext, RewardUnknown, RewardProgressive, RewardFood, RewardWeapon
    <3> QED
      BY <2>1, <3>1 DEF RewardMailed, Mail
  <2>2. CASE /\ m = [kind |-> "food", at |-> i, tier |-> Cardinality(Places(items, "food", i))]
             /\ items[i] = "food" /\ Cardinality(Places(items, "food", i)) <= FoodTiers
    <3>1. RewardFood(i)
      BY <1>2, <2>2 DEF RewardNext, RewardUnknown, RewardProgressive, RewardMailed, RewardWeapon
    <3>2. ~AlreadyCounted(i)
      BY <1>1, LenTypes DEF AlreadyRewarded, AlreadyCounted, FlowInv, FlowType, BatchInv
    <3>3. CountsInv' /\ Seen' = i /\ UNCHANGED <<items, parsed, online>>
      BY <3>2, CountRewardNext, SeenAdvances, RewardNextFlow DEF CountInv
    <3>4. foodCount' = Cardinality(Places(items, "food", i))
      BY <1>1, <1>2, <3>3 DEF CountsInv, SeenOf
    <3>5. Cardinality(Places(items, "food", i)) = Cardinality(Places(items, "food", i - 1)) + 1
      BY <1>1, <2>2, PlacesStep DEF FlowInv, FlowType
    <3>6. foodCount' \in 1 .. FoodTiers
      BY <1>1, <2>2, <3>4, <3>5, PlacesFinite, Bounds
    <3> QED
      BY <2>2, <3>1, <3>4, <3>6 DEF RewardFood, Mail
  <2> QED
    BY <1>1, <2>1, <2>2, DueIs
<1>5. mailed' = mailed
  BY DEF RewardNext
<1>6. Copies(m)' = Copies(m) + 1 /\ Copies(m) \in Nat
  BY <1>3, <1>4, <1>5, MailCommitted, CopiesType DEF MailInv
<1> QED
  BY <1>6 DEF Given

LEMMA RewardedStep == IInv /\ RewardedInv /\ [Next]_vars => RewardedInv'
<1> SUFFICES ASSUME IInv, RewardedInv, [Next]_vars PROVE RewardedInv'
  OBVIOUS
<1>1. FlowInv /\ FlowInv'
  BY FlowStep DEF IInv
<1>2. slotDataGood' = TRUE
  BY DEF RewardedInv, Next, Handle, ItemFound, Link, LinkLost, VersionsFixed, SlotConnected, ItemsReceived,
         RewardNext, BatchEnds, SendWeapon, SendingEnds, SetHeirloomWeapon, PeriodicSave, RunEnded, Logout,
         Login, MailWritten, Crash, vars, server
<1>3. items' = items \/ \E kind \in Kinds : items' = Append(items, kind)
  BY DEF Next, Handle, ItemFound, Link, LinkLost, VersionsFixed, SlotConnected, ItemsReceived,
         RewardNext, BatchEnds, SendWeapon, SendingEnds, SetHeirloomWeapon, PeriodicSave, RunEnded, Logout,
         Login, MailWritten, Crash, vars, server
<1>4. Passed \in 0 .. Len(items) /\ Len(items) \in Nat
  BY <1>1, PassedType, LenTypes DEF FlowInv
<1>5. ASSUME NEW i \in 1 .. Passed, NEW m \in Due(i)'
      PROVE  Given(m)'
  <2>1. i \in 1 .. Len(items) /\ i \in Nat
    BY <1>4
  <2>2. m \in Due(i)
    BY <1>1, <1>3, <2>1, DueKept
  <2>3. m \in Mails /\ Given(m)
    BY <1>1, <2>1, <2>2, DueMails DEF RewardedInv
  <2> QED
    BY <2>3, GivenKept
<1>6. CASE ~RewardNext
  <2>1. Passed' <= Passed /\ Passed' \in Int
    <3>1. itemIndex' \in Int /\ batch'.next \in Int
      BY <1>1, LenProperties, Bounds DEF FlowInv, FlowType
    <3> QED
      BY <1>1, <1>6, <3>1, PassedKept DEF Passed, Larger
  <2> QED
    BY <1>2, <1>4, <1>5, <2>1 DEF RewardedInv
<1>7. CASE RewardNext
  <2> DEFINE n == batch.next
  <2>1. /\ itemIndex' = itemIndex /\ items' = items /\ batch'.next = n + 1
        /\ n \in 1 .. Len(items)
    BY <1>1, <1>7, RewardNextFlow
  <2>2. itemIndex \in Nat
    BY <1>1, LenTypes DEF FlowInv, FlowType
  <2>3. CASE AlreadyRewarded(n)
    <3>1. Passed' = Passed
      BY <1>4, <2>1, <2>2, <2>3 DEF Passed, Larger, AlreadyRewarded
    <3> QED
      BY <1>2, <1>5, <3>1 DEF RewardedInv
  <2>4. CASE ~AlreadyRewarded(n)
    <3>1. Passed' = n /\ Passed = n - 1
      BY <1>4, <2>1, <2>2, <2>4 DEF Passed, Larger, AlreadyRewarded
    <3>2. ASSUME NEW m \in Due(n) PROVE Given(m)'
      BY <1>7, <2>4, DueGiven DEF RewardedInv
    <3>3. ASSUME NEW i \in 1 .. Passed', NEW m \in Due(i)'
          PROVE  Given(m)'
      <4>1. CASE i \in 1 .. Passed
        BY <1>5, <3>3, <4>1
      <4>2. CASE i = n
        <5>1. m \in Due(n)
          BY <1>1, <2>1, <3>3, <4>2, DueKept
        <5> QED
          BY <3>2, <5>1
      <4> QED
        BY <1>4, <2>1, <3>1, <4>1, <4>2
    <3> QED
      BY <1>2, <3>3 DEF RewardedInv
  <2> QED
    BY <2>3, <2>4
<1> QED
  BY <1>6, <1>7

\* As long as no slot data is refused, a position is never recorded as
\* rewarded before what its item is due has been mailed, whatever batches
\* are cut off, replayed or repeated.
THEOREM RecordedAlwaysRewarded ==
    ASSUME BadSlotData = FALSE
    PROVE  Spec => []RecordedIsRewarded
<1>1. Init => RewardedInv
  <2> SUFFICES ASSUME Init PROVE RewardedInv
    OBVIOUS
  <2>1. slotDataGood = TRUE
    BY DEF Init
  <2>2. Passed = 0
    BY DEF Init, Passed, Larger, NoBatch
  <2> QED
    BY <2>1, <2>2 DEF RewardedInv
<1>2. IInv /\ RewardedInv /\ [Next]_vars => RewardedInv'
  BY RewardedStep
<1>3. ASSUME IInv, RewardedInv PROVE RecordedIsRewarded
  <2>1. row \in {None} \union (0 .. Len(items)) /\ itemIndex = Larger(row, 0) /\ batch.next \in Nat \ {0}
        /\ Len(items) \in Nat
    BY <1>3, LenTypes DEF IInv, FlowInv, FlowType, BatchInv
  <2>2. \A i \in 1 .. row : i \in 1 .. Passed
    BY <2>1 DEF Passed, Larger, None
  <2> QED
    BY <1>3, <2>2 DEF RewardedInv, Given, RecordedIsRewarded
<1> QED
  BY <1>1, <1>2, <1>3, Invariant, PTL DEF Spec
===============================================================================
