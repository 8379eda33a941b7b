----------------------------- MODULE TrapsProofs -----------------------------
(***************************************************************************)
(* Proofs about Traps, for any number of items, crashes and bombs: what    *)
(* waits is never lost, and nothing springs or is tried twice, though      *)
(* the queue in memory, the one of the preferences row and the recorded    *)
(* position are written at different moments.                              *)
(***************************************************************************)
EXTENDS Traps, FiniteSetTheorems, SequenceTheorems, WellFoundedInduction, TLAPS

\* The items dealt with so far, recorded or not
Position == IF step = "items" THEN next - 1 ELSE recorded

\* Where the update is
ControlInv ==
    /\ step # "idle" => online
    /\ step = "springing" =>
          /\ next \in 1 .. Len(pendingTraps) + 1
          /\ Len(waiting) <= next - 1
    /\ step = "items" => recorded < next /\ next <= last + 1

\* A trap of the preferences row waits in memory or has sprung, also while
\* the loop goes over the queue.
KeptInv ==
    /\ \A n \in 1 .. Position :
          items[n] \in TrapKinds /\ n \notin able => n \in ToSet(savedTraps) \/ sprung[n] > 0
    /\ online => \A n \in ToSet(savedTraps) : n \in ToSet(pendingTraps) \/ sprung[n] > 0
    /\ step = "springing" =>
          \A k \in 1 .. next - 1 :
              pendingTraps[k] \in ToSet(waiting) \/ sprung[pendingTraps[k]] > 0

NoRepeats(seq) == \A j, k \in DOMAIN seq : seq[j] = seq[k] => j = k
Apart(seq) == \A n \in Positions : sprung[n] > 0 => n \notin ToSet(seq)
Unseen(n) == sprung[n] = 0 /\ n \notin ToSet(pendingTraps) /\ n \notin ToSet(savedTraps)

\* In the loop: what has been looked at waits or has sprung, the rest is still
\* to be looked at, and unless something has sprung the row is up to date.
LoopInv ==
    /\ NoRepeats(waiting) /\ Apart(waiting)
    /\ \A j \in DOMAIN waiting : \E k \in 1 .. next - 1 : waiting[j] = pendingTraps[k]
    /\ \A k \in DOMAIN pendingTraps : k >= next => sprung[pendingTraps[k]] = 0
    /\ Len(waiting) = next - 1 => Apart(pendingTraps) /\ Apart(savedTraps)

\* No position is twice on its way to a spring.
Once ==
    /\ \A n \in Positions : sprung[n] <= 1
    /\ \A n \in Positions : n > Position => Unseen(n)
    /\ NoRepeats(pendingTraps) /\ NoRepeats(savedTraps)
    /\ step # "springing" => Apart(pendingTraps) /\ Apart(savedTraps)
    /\ step = "springing" => LoopInv

OnceInv == ~interrupted => Once

\* The world buffs that do not wait any more
Attempted == applied + dropped

\* What is accounted for, tried or in the row, and what is to be
Accounted == Attempted + savedBuffs = BuffsUpTo(Position)

BuffsInv ==
    /\ online => pendingWorldBuffs = savedBuffs
    /\ ~interrupted => Accounted

\* The hold is whole until time passes behind a landing.
LandingInv ==
    /\ aboard # {} /\ player = "travelling" => hold = Hold /\ pendingTraps # << >> /\ known
    /\ aboard # {} /\ player # "travelling" => stood \/ hold = Hold
    /\ step = "springing" => ~TeleportDue /\ player # "travelling" /\ (aboard = {} \/ stood)

-----------------------------------------------------------------------------
(* The queue of traps *)

LEMMA Listed ==
    ASSUME NEW S, NEW s \in Seq(S)
    PROVE  /\ DOMAIN s = 1 .. Len(s) /\ Len(s) \in Nat
           /\ \A k \in 1 .. Len(s) : s[k] \in S
           /\ \A n : n \in ToSet(s) <=> \E k \in 1 .. Len(s) : s[k] = n
<1>1. DOMAIN s = 1 .. Len(s) /\ Len(s) \in Nat /\ \A k \in 1 .. Len(s) : s[k] \in S
  BY LenProperties, ElementOfSeq
<1>2. \A n : n \in ToSet(s) <=> \E k \in 1 .. Len(s) : s[k] = n
  BY <1>1 DEF ToSet
<1> QED
  BY <1>1, <1>2

LEMMA Nothing ==
    /\ ToSet(<< >>) = {} /\ NoRepeats(<< >>)
    /\ << >> \in Seq(Positions) /\ Len(<< >>) = 0
<1>1. << >> \in Seq(Positions) /\ Len(<< >>) = 0
  BY EmptySeq
<1>2. DOMAIN << >> = 1 .. 0
  BY <1>1, LenProperties
<1>3. DOMAIN << >> = {}
  BY <1>2
<1> QED
  BY <1>1, <1>3 DEF ToSet, NoRepeats

LEMMA Appended ==
    ASSUME NEW S, NEW s \in Seq(S), NEW e \in S
    PROVE  /\ Append(s, e) \in Seq(S) /\ Len(Append(s, e)) = Len(s) + 1
           /\ \A k \in 1 .. Len(s) : Append(s, e)[k] = s[k]
           /\ Append(s, e)[Len(s) + 1] = e
           /\ \A n : n \in ToSet(Append(s, e)) <=> n \in ToSet(s) \/ n = e
           /\ NoRepeats(s) /\ e \notin ToSet(s) => NoRepeats(Append(s, e))
<1> DEFINE t == Append(s, e)
<1>1. /\ t \in Seq(S) /\ Len(t) = Len(s) + 1 /\ t[Len(s) + 1] = e
      /\ \A k \in 1 .. Len(s) : t[k] = s[k]
  BY AppendProperties
<1> HIDE DEF t
<1>2. /\ DOMAIN s = 1 .. Len(s) /\ Len(s) \in Nat
      /\ \A n : n \in ToSet(s) <=> \E k \in 1 .. Len(s) : s[k] = n
  BY Listed
<1>3. /\ DOMAIN t = 1 .. Len(t)
      /\ \A n : n \in ToSet(t) <=> \E k \in 1 .. Len(t) : t[k] = n
  BY <1>1, Listed
<1>4. \A k \in 1 .. Len(t) : k \in 1 .. Len(s) \/ k = Len(s) + 1
  BY <1>1, <1>2
<1>5. Len(s) + 1 \in 1 .. Len(t) /\ \A k \in 1 .. Len(s) : k \in 1 .. Len(t)
  BY <1>1, <1>2
<1>6. \A n : n \in ToSet(t) <=> n \in ToSet(s) \/ n = e
  BY <1>1, <1>2, <1>3, <1>4, <1>5
<1>7. NoRepeats(s) /\ e \notin ToSet(s) => NoRepeats(t)
  <2> SUFFICES ASSUME NoRepeats(s), e \notin ToSet(s),
                      NEW j \in 1 .. Len(t), NEW k \in 1 .. Len(t), t[j] = t[k]
               PROVE  j = k
    BY <1>3 DEF NoRepeats
  <2>1. CASE j \in 1 .. Len(s) /\ k \in 1 .. Len(s)
    BY <1>1, <1>2, <2>1 DEF NoRepeats
  <2>2. CASE j \in 1 .. Len(s) /\ k = Len(s) + 1
    BY <1>1, <1>2, <2>2
  <2>3. CASE k \in 1 .. Len(s) /\ j = Len(s) + 1
    BY <1>1, <1>2, <2>3
  <2> QED
    BY <1>4, <2>1, <2>2, <2>3
<1> QED
  BY <1>1, <1>6, <1>7 DEF t

LEMMA Removed ==
    ASSUME NEW S, NEW s \in Seq(S), NEW i \in 1 .. Len(s)
    PROVE  /\ RemoveAt(s, i) \in Seq(S)
           /\ \A n \in ToSet(RemoveAt(s, i)) : n \in ToSet(s)
           /\ \A n \in ToSet(s) : n = s[i] \/ n \in ToSet(RemoveAt(s, i))
           /\ NoRepeats(s) => NoRepeats(RemoveAt(s, i)) /\ s[i] \notin ToSet(RemoveAt(s, i))
<1> DEFINE a == SubSeq(s, 1, i - 1)
           b == SubSeq(s, i + 1, Len(s))
           t == RemoveAt(s, i)
<1>1. /\ DOMAIN s = 1 .. Len(s) /\ Len(s) \in Nat /\ i \in Int
      /\ \A k \in 1 .. Len(s) : s[k] \in S
      /\ \A n : n \in ToSet(s) <=> \E k \in 1 .. Len(s) : s[k] = n
  BY Listed
<1>2. /\ a \in Seq(S) /\ Len(a) = i - 1 /\ \A k \in 1 .. i - 1 : a[k] = s[k]
  <2>1. i - 1 \in Int /\ \A k \in 1 .. i - 1 : s[k] \in S
    BY <1>1
  <2> QED
    BY <1>1, <2>1, SubSeqProperties
<1>3. /\ b \in Seq(S) /\ Len(b) = Len(s) - i /\ \A k \in 1 .. Len(s) - i : b[k] = s[k + i]
  <2>1. i + 1 \in Int /\ Len(s) \in Int /\ \A k \in i + 1 .. Len(s) : s[k] \in S
    BY <1>1
  <2>2. /\ b \in Seq(S) /\ Len(b) = (IF i + 1 <= Len(s) THEN Len(s) - (i + 1) + 1 ELSE 0)
        /\ \A k \in 1 .. Len(s) - (i + 1) + 1 : b[k] = s[(i + 1) + k - 1]
    BY <2>1, SubSeqProperties
  <2>3. Len(b) = Len(s) - i
    <3>1. i <= Len(s) /\ i \in Int /\ Len(s) \in Int
      BY <1>1
    <3>2. Len(b) = IF i + 1 <= Len(s) THEN Len(s) - (i + 1) + 1 ELSE 0
      BY <2>2
    <3> HIDE DEF b
    <3>3. CASE i + 1 <= Len(s)
      <4>1. Len(b) = Len(s) - (i + 1) + 1
        BY <3>2, <3>3
      <4> QED
        BY <3>1, <4>1
    <3>4. CASE ~(i + 1 <= Len(s))
      <4>1. Len(b) = 0
        BY <3>2, <3>4
      <4> QED
        BY <3>1, <3>4, <4>1
    <3> QED
      BY <3>3, <3>4
  <2>4. \A k \in 1 .. Len(s) - i : k \in 1 .. Len(s) - (i + 1) + 1 /\ (i + 1) + k - 1 = k + i
    BY <1>1
  <2> QED
    BY <2>2, <2>3, <2>4
<1>4. /\ t \in Seq(S) /\ Len(t) = Len(s) - 1
      /\ \A k \in 1 .. Len(t) : t[k] = IF k < i THEN s[k] ELSE s[k + 1]
  <2>1. t = a \o b
    BY DEF RemoveAt
  <2> HIDE DEF a, b, t
  <2>2. /\ t \in Seq(S) /\ Len(t) = Len(a) + Len(b)
        /\ \A k \in 1 .. Len(a) + Len(b) : t[k] = IF k <= Len(a) THEN a[k] ELSE b[k - Len(a)]
    BY <1>2, <1>3, <2>1, ConcatProperties
  <2>3. Len(t) = Len(s) - 1
    BY <1>1, <1>2, <1>3, <2>2
  <2>4. ASSUME NEW k \in 1 .. Len(t) PROVE t[k] = IF k < i THEN s[k] ELSE s[k + 1]
    <3>1. t[k] = IF k <= i - 1 THEN a[k] ELSE b[k - (i - 1)]
      BY <1>2, <2>2
    <3>2. CASE k < i
      BY <1>1, <1>2, <3>1, <3>2
    <3>3. CASE ~(k < i)
      <4>1. k - (i - 1) \in 1 .. Len(s) - i /\ (k - (i - 1)) + i = k + 1
        BY <1>1, <2>3, <3>3
      <4>2. t[k] = b[k - (i - 1)] /\ b[k - (i - 1)] = s[k + 1]
        BY <1>1, <1>3, <3>1, <3>3, <4>1
      <4> QED
        BY <3>3, <4>2
    <3> QED
      BY <3>2, <3>3
  <2> QED
    BY <2>2, <2>3, <2>4
<1> HIDE DEF t
<1>5. /\ DOMAIN t = 1 .. Len(t)
      /\ \A n : n \in ToSet(t) <=> \E k \in 1 .. Len(t) : t[k] = n
  BY <1>4, Listed
<1>6. ASSUME NEW n \in ToSet(t) PROVE n \in ToSet(s)
  <2>1. PICK k \in 1 .. Len(t) : t[k] = n
    BY <1>5
  <2>2. k \in 1 .. Len(s) /\ k + 1 \in 1 .. Len(s) /\ (n = s[k] \/ n = s[k + 1])
    BY <1>1, <1>4, <2>1
  <2> QED
    BY <1>1, <2>2
<1>7. ASSUME NEW n \in ToSet(s) PROVE n = s[i] \/ n \in ToSet(t)
  <2>1. PICK k \in 1 .. Len(s) : s[k] = n
    BY <1>1
  <2>2. CASE k < i
    <3>1. k \in 1 .. Len(t) /\ t[k] = n
      BY <1>1, <1>4, <2>1, <2>2
    <3> QED
      BY <1>5, <3>1
  <2>3. CASE k > i
    <3>1. k - 1 \in 1 .. Len(t) /\ ~(k - 1 < i) /\ (k - 1) + 1 = k
      BY <1>1, <1>4, <2>3
    <3>2. t[k - 1] = n
      BY <1>4, <2>1, <3>1
    <3> QED
      BY <1>5, <3>1, <3>2
  <2>4. CASE k = i
    BY <2>1, <2>4
  <2> QED
    BY <1>1, <2>2, <2>3, <2>4
<1>8. ASSUME NoRepeats(s) PROVE NoRepeats(t) /\ s[i] \notin ToSet(t)
  <2>1. \A k \in 1 .. Len(t) : \E j \in 1 .. Len(s) :
            /\ t[k] = s[j] /\ j # i
            /\ k = IF j < i THEN j ELSE j - 1
    <3> TAKE k \in 1 .. Len(t)
    <3>1. CASE k < i
      <4>1. k \in 1 .. Len(s) /\ t[k] = s[k] /\ k # i
        BY <1>1, <1>4, <3>1
      <4> QED
        BY <3>1, <4>1
    <3>2. CASE ~(k < i)
      <4>1. k + 1 \in 1 .. Len(s) /\ t[k] = s[k + 1] /\ k + 1 # i /\ ~(k + 1 < i) /\ k = (k + 1) - 1
        BY <1>1, <1>4, <3>2
      <4> QED
        BY <4>1
    <3> QED
      BY <3>1, <3>2
  <2>2. \A j, k \in 1 .. Len(s) : s[j] = s[k] => j = k
    BY <1>1, <1>8 DEF NoRepeats
  <2>3. s[i] \notin ToSet(t)
    BY <1>5, <2>1, <2>2
  <2>4. ASSUME NEW j \in 1 .. Len(t), NEW k \in 1 .. Len(t), t[j] = t[k] PROVE j = k
    <3>1. PICK x \in 1 .. Len(s) : t[j] = s[x] /\ j = IF x < i THEN x ELSE x - 1
      BY <2>1
    <3>2. PICK y \in 1 .. Len(s) : t[k] = s[y] /\ k = IF y < i THEN y ELSE y - 1
      BY <2>1
    <3>3. x = y
      BY <2>2, <2>4, <3>1, <3>2
    <3> QED
      BY <3>1, <3>2, <3>3
  <2> QED
    BY <1>5, <2>3, <2>4 DEF NoRepeats
<1> QED
  BY <1>4, <1>6, <1>7, <1>8 DEF t

LEMMA Least == ASSUME NEW T \in SUBSET Nat, T # {} PROVE \E x \in T : \A y \in T : x <= y
<1>1. PICK x \in T : \A y \in T : ~(<<y, x>> \in OpToRel(<, Nat))
  BY WFMin, NatLessThanWellFounded
<1>2. \A y \in T : ~(y < x)
  BY <1>1 DEF OpToRel
<1> QED
  BY <1>2

\* The Teleport Trap that goes first is in the queue, if there is one.
LEMMA TeleportFound ==
    ASSUME pendingTraps \in Seq(Positions), FirstTeleport # 0
    PROVE  /\ FirstTeleport \in 1 .. Len(pendingTraps)
           /\ items[pendingTraps[FirstTeleport]] = "teleport"
<1> DEFINE I == {k \in 1 .. Len(pendingTraps) : items[pendingTraps[k]] = "teleport"}
<1>1. FirstTeleport = IF I # {} THEN Min(I) ELSE 0
  BY DEF FirstTeleport, SelectInSeq
<1>2. I # {}
  BY <1>1
<1>3. I \in SUBSET Nat
  OBVIOUS
<1>4. \E x \in I : \A y \in I : x <= y
  <2> HIDE DEF I
  <2> QED
    BY <1>2, <1>3, Least
<1>5. Min(I) \in I
  <2> HIDE DEF I
  <2> QED
    BY <1>4 DEF Min
<1> QED
  BY <1>1, <1>2, <1>5

-----------------------------------------------------------------------------
(* Types *)

\* TypeOK, a part for each kind of actor
WorldType == items \in [Positions -> Kinds] /\ player \in Places /\ crashes \in 0 .. MaxCrashes
QueueType ==
    /\ pendingTraps \in Seq(Positions) /\ waiting \in Seq(Positions) /\ savedTraps \in Seq(Positions)
    /\ pendingWorldBuffs \in 0 .. 255 /\ savedBuffs \in 0 .. 255
FlagType == online \in BOOLEAN /\ known \in BOOLEAN /\ stood \in BOOLEAN /\ interrupted \in BOOLEAN
CountType == next \in Nat /\ last \in 0 .. MaxItems /\ recorded \in 0 .. MaxItems
StepType == step \in {"idle", "springing", "bombs", "poll", "items"} /\ FlagType /\ CountType
HoldType == hold \in 0 .. Hold /\ bombRun \in 0 .. BombsPerTrap
HistoryType ==
    /\ sprung \in [Positions -> Nat] /\ applied \in Nat /\ dropped \in Nat
    /\ able \subseteq Positions /\ aboard \subseteq Positions
OfflineType == ~online => pendingTraps = << >> /\ bombRun = 0 /\ hold = 0 /\ ~known /\ step = "idle"

LEMMA TypeParts ==
    TypeOK <=> WorldType /\ QueueType /\ StepType /\ HoldType /\ HistoryType /\ OfflineType
<1>1. QueueType <=> /\ {pendingTraps, waiting, savedTraps} \subseteq Seq(Positions)
                    /\ {pendingWorldBuffs, savedBuffs} \subseteq 0 .. 255
  BY DEF QueueType
<1>2. StepType <=> /\ {online, known, stood, interrupted} \subseteq BOOLEAN
                   /\ step \in {"idle", "springing", "bombs", "poll", "items"}
                   /\ next \in Nat /\ last \in 0 .. MaxItems /\ recorded \in 0 .. MaxItems
  BY DEF StepType, FlagType, CountType
<1>3. HistoryType <=> /\ sprung \in [Positions -> Nat] /\ {applied, dropped} \subseteq Nat
                      /\ able \union aboard \subseteq Positions
  BY DEF HistoryType
<1> QED
  BY <1>1, <1>2, <1>3 DEF TypeOK, WorldType, HoldType, OfflineType

LEMMA Bounds ==
    /\ MaxItems \in Nat /\ BombsPerTrap \in Nat /\ MaxCrashes \in Nat /\ Hold \in Nat /\ Hold > 0
    /\ Positions = 1 .. MaxItems
  BY TrapsAssumption DEF Positions

\* A byte stays one when it is counted up.
LEMMA Byte == \A n \in 0 .. 255 : (n + 1) % 256 \in 0 .. 255 /\ (n < 255 => (n + 1) % 256 = n + 1)
  OBVIOUS

\* However many of them fail, buffs that are tried have been tried.
LEMMA TriedCounts ==
    ASSUME HistoryType, NEW count \in Nat, Tried(count)
    PROVE  applied' \in Nat /\ dropped' \in Nat /\ Attempted' = Attempted + count
<1>1. applied \in Nat /\ dropped \in Nat
  BY DEF HistoryType
<1>2. PICK failed \in 0 .. count : applied' = applied + count - failed /\ dropped' = dropped + failed
  BY DEF Tried
<1> QED
  BY <1>1, <1>2 DEF Attempted

LEMMA ToSetType == ASSUME NEW s \in Seq(Positions) PROVE ToSet(s) \subseteq Positions
  BY Listed

LEMMA InitType == Init => TypeOK /\ ControlInv
<1> SUFFICES ASSUME Init PROVE TypeOK /\ ControlInv
  OBVIOUS
<1> USE Bounds
<1>1. WorldType
  BY DEF Init, WorldType, Places
<1>2. QueueType
  BY EmptySeq DEF Init, QueueType
<1>3. StepType /\ HoldType /\ OfflineType
  <2>1. FlagType
    BY DEF Init, FlagType
  <2>2. CountType /\ HoldType
    BY DEF Init, CountType, HoldType
  <2>3. OfflineType
    BY DEF Init, OfflineType
  <2> QED
    BY <2>1, <2>2, <2>3 DEF Init, StepType
<1>4. HistoryType
  BY DEF Init, HistoryType
<1>5. ControlInv
  BY DEF Init, ControlInv
<1> QED
  BY <1>1, <1>2, <1>3, <1>4, <1>5, TypeParts

\* What each step leaves alone is left out of its type.
LEMMA NextWorld == TypeOK /\ [Next]_vars => WorldType'
<1> SUFFICES ASSUME TypeOK, [Next]_vars PROVE WorldType'
  OBVIOUS
<1> USE TypeParts, Bounds DEF WorldType, Places
<1>1. CASE SpringPendingTraps
  <2>1. player' \in {"travelling", player} /\ UNCHANGED <<items, crashes>>
    BY <1>1 DEF SpringPendingTraps
  <2> QED
    BY <2>1
<1>2. CASE SpringTrap \/ SpringingEnds \/ Poll \/ ItemsReceived \/ ReceiveTrap \/ ApplyWorldBuff \/ ItemsEnd \/ Login
  BY <1>2 DEF SpringTrap, SpringingEnds, Poll, ItemsReceived, ReceiveTrap, ApplyWorldBuff, ItemsEnd, Login
<1>3. CASE UpdateBombRun
  BY <1>3 DEF UpdateBombRun
<1>4. CASE Move
  BY <1>4 DEF Move
<1>5. CASE Logout \/ Crash
  BY <1>5 DEF Logout, Crash, Gone
<1>6. CASE UNCHANGED vars
  BY <1>6 DEF vars
<1> QED
  BY <1>1, <1>2, <1>3, <1>4, <1>5, <1>6 DEF Next

LEMMA NextQueue == TypeOK /\ ControlInv /\ [Next]_vars => QueueType'
<1> SUFFICES ASSUME TypeOK, ControlInv, [Next]_vars PROVE QueueType'
  OBVIOUS
<1>0. QueueType /\ StepType
  BY TypeParts
<1> USE <1>0 DEF QueueType, SavePreferences
<1>1. CASE SpringPendingTraps
  <2>1. CASE UNCHANGED <<pendingTraps, row>>
    <3>1. waiting' \in {waiting, << >>} /\ UNCHANGED pendingWorldBuffs
      BY <1>1 DEF SpringPendingTraps, handled
    <3> QED
      BY <2>1, <3>1, EmptySeq DEF row
  <2>2. CASE ~UNCHANGED <<pendingTraps, row>>
    <3>1. /\ TeleportDue
          /\ pendingTraps' = RemoveAt(pendingTraps, FirstTeleport)
          /\ savedTraps' = pendingTraps' /\ savedBuffs' = pendingWorldBuffs
          /\ UNCHANGED <<waiting, pendingWorldBuffs>>
      BY <1>1, <2>2 DEF SpringPendingTraps, handled
    <3>2. FirstTeleport \in 1 .. Len(pendingTraps)
      BY <3>1, TeleportFound DEF TeleportDue
    <3>3. RemoveAt(pendingTraps, FirstTeleport) \in Seq(Positions)
      BY <3>2, Removed
    <3> QED
      BY <3>1, <3>3
  <2> QED
    BY <2>1, <2>2
<1>2. CASE SpringTrap
  <2>1. next \in 1 .. Len(pendingTraps)
    BY <1>2, Listed DEF SpringTrap, ControlInv
  <2>2. pendingTraps[next] \in Positions
    BY <2>1, Listed
  <2>3. waiting' = waiting \/ waiting' = Append(waiting, pendingTraps[next])
    BY <1>2 DEF SpringTrap
  <2>4. waiting' \in Seq(Positions)
    <3>1. Append(waiting, pendingTraps[next]) \in Seq(Positions)
      BY <2>2, Appended
    <3> QED
      BY <2>3, <3>1
  <2>5. UNCHANGED <<pendingTraps, row, pendingWorldBuffs>>
    BY <1>2 DEF SpringTrap
  <2> QED
    BY <2>4, <2>5 DEF row
<1>3. CASE SpringingEnds
  <2>1. /\ waiting' = << >> /\ pendingTraps' \in {waiting, pendingTraps}
        /\ savedTraps' \in {waiting, savedTraps} /\ savedBuffs' \in {pendingWorldBuffs, savedBuffs}
        /\ UNCHANGED pendingWorldBuffs
    BY <1>3 DEF SpringingEnds, StillWaiting, row
  <2> QED
    BY <2>1, EmptySeq
<1>4. CASE UpdateBombRun \/ Poll \/ ItemsReceived
  BY <1>4 DEF UpdateBombRun, Poll, ItemsReceived, handled, row
<1>5. CASE ReceiveTrap
  <2>1. next \in Positions
    BY <1>5, Bounds DEF ReceiveTrap, ControlInv, StepType, CountType
  <2>2. Append(pendingTraps, next) \in Seq(Positions)
    BY <2>1, Appended
  <2>3. /\ pendingTraps' = Append(pendingTraps, next)
        /\ savedTraps' \in {pendingTraps', savedTraps} /\ savedBuffs' \in {pendingWorldBuffs, savedBuffs}
        /\ UNCHANGED <<waiting, pendingWorldBuffs>>
    BY <1>5 DEF ReceiveTrap, row
  <2> QED
    BY <2>2, <2>3
<1>6. CASE ApplyWorldBuff
  <2>1. /\ pendingWorldBuffs' \in {pendingWorldBuffs, (pendingWorldBuffs + 1) % 256}
        /\ savedBuffs' \in {pendingWorldBuffs', savedBuffs} /\ savedTraps' \in {pendingTraps, savedTraps}
        /\ UNCHANGED <<pendingTraps, waiting>>
    BY <1>6 DEF ApplyWorldBuff, row
  <2>2. (pendingWorldBuffs + 1) % 256 \in 0 .. 255
    BY Byte
  <2> QED
    BY <2>1, <2>2
<1>7. CASE ItemsEnd \/ Move
  <2>1. /\ pendingWorldBuffs' \in {pendingWorldBuffs, 0} /\ savedBuffs' \in {savedBuffs, 0}
        /\ savedTraps' \in {pendingTraps, savedTraps}
        /\ UNCHANGED <<pendingTraps, waiting>>
    BY <1>7 DEF ItemsEnd, Move, ApplyPendingWorldBuffs, BuffsSaved, buffs, handled
  <2> QED
    BY <2>1
<1>8. CASE Logout \/ Crash
  <2>1. /\ pendingTraps' = << >> /\ waiting' = << >> /\ pendingWorldBuffs' = 0
        /\ UNCHANGED <<savedTraps, savedBuffs>>
    BY <1>8 DEF Logout, Crash, Gone, row
  <2> QED
    BY <2>1, EmptySeq
<1>9. CASE Login
  <2>1. /\ pendingTraps' = savedTraps /\ pendingWorldBuffs' = savedBuffs
        /\ UNCHANGED <<savedTraps, savedBuffs, waiting>>
    BY <1>9 DEF Login, handled, row
  <2> QED
    BY <2>1
<1>10. CASE UNCHANGED vars
  BY <1>10 DEF vars
<1> QED
  BY <1>1, <1>2, <1>3, <1>4, <1>5, <1>6, <1>7, <1>8, <1>9, <1>10 DEF Next

LEMMA NextStep == TypeOK /\ ControlInv /\ [Next]_vars => StepType' /\ ControlInv' /\ OfflineType'
<1> SUFFICES ASSUME TypeOK, ControlInv, [Next]_vars PROVE StepType' /\ ControlInv' /\ OfflineType'
  OBVIOUS
<1>0. StepType /\ OfflineType /\ QueueType
  BY TypeParts
<1>1. CASE SpringPendingTraps
  <2>1. /\ online /\ UNCHANGED <<online, known, recorded, interrupted>>
        /\ stood' = (stood \/ \E elapsed \in {0, 1} : elapsed = 1 /\ player # "travelling" /\ stood')
    BY <1>1 DEF SpringPendingTraps
  <2>2. stood' \in BOOLEAN
    BY <1>1 DEF SpringPendingTraps
  <2>3. \/ step' = "bombs" /\ UNCHANGED <<next, last, waiting>>
        \/ step' = "springing" /\ next' = 1 /\ waiting' = << >> /\ UNCHANGED <<pendingTraps, last>>
    BY <1>1 DEF SpringPendingTraps, handled
  <2>4. Len(<< >>) = 0 /\ Len(pendingTraps) \in Nat
    BY <1>0, EmptySeq, LenProperties DEF QueueType
  <2>5. StepType'
    BY <1>0, <2>1, <2>2, <2>3 DEF StepType, FlagType, CountType
  <2>6. ControlInv'
    BY <1>0, <2>1, <2>3, <2>4 DEF ControlInv, StepType, FlagType, CountType
  <2> QED
    BY <2>1, <2>5, <2>6 DEF OfflineType
<1>2. CASE SpringTrap
  <2>1. /\ step = "springing" /\ next <= Len(pendingTraps) /\ next' = next + 1
        /\ waiting' = waiting \/ waiting' = Append(waiting, pendingTraps[next])
        /\ UNCHANGED <<step, last, recorded, online, known, stood, interrupted, pendingTraps>>
    BY <1>2 DEF SpringTrap
  <2>2. /\ Len(pendingTraps) \in Nat /\ Len(waiting) \in Nat
        /\ next \in 1 .. Len(pendingTraps) /\ pendingTraps[next] \in Positions /\ Len(waiting) <= next - 1
    BY <1>0, <2>1, Listed DEF QueueType, ControlInv
  <2>3. Len(waiting') <= Len(waiting) + 1 /\ Len(waiting') \in Nat
    BY <1>0, <2>1, <2>2, Appended DEF QueueType
  <2>4. StepType'
    BY <1>0, <2>1 DEF StepType, FlagType, CountType
  <2>5. ControlInv'
    <3>1. next' \in 1 .. Len(pendingTraps') + 1 /\ Len(waiting') <= next' - 1
      BY <2>1, <2>2, <2>3
    <3> QED
      BY <2>1, <3>1 DEF ControlInv
  <2>6. online'
    BY <2>1 DEF ControlInv
  <2> QED
    BY <2>4, <2>5, <2>6 DEF OfflineType
<1>3. CASE SpringingEnds
  <2>1. /\ step = "springing" /\ step' = "bombs" /\ next' = 0
        /\ UNCHANGED <<last, recorded, online, known, stood, interrupted>>
    BY <1>3 DEF SpringingEnds
  <2> QED
    BY <1>0, <2>1 DEF StepType, FlagType, CountType, ControlInv, OfflineType
<1>4. CASE UpdateBombRun
  <2>1. /\ step = "bombs" /\ step' = "poll"
        /\ UNCHANGED <<next, last, recorded, online, known, stood, interrupted>>
    BY <1>4 DEF UpdateBombRun, handled
  <2> QED
    BY <1>0, <2>1 DEF StepType, FlagType, CountType, ControlInv, OfflineType
<1>5. CASE Poll
  <2>1. /\ step = "poll" /\ step' = "idle" /\ known' \in {known, TRUE}
        /\ UNCHANGED <<next, last, recorded, online, stood, interrupted>>
    BY <1>5 DEF Poll, handled
  <2> QED
    BY <1>0, <2>1 DEF StepType, FlagType, CountType, ControlInv, OfflineType
<1>6. CASE ItemsReceived
  <2>1. /\ step = "poll" /\ step' = "items" /\ next' = recorded + 1 /\ last' \in recorded + 1 .. MaxItems
        /\ UNCHANGED <<recorded, online, known, stood, interrupted>>
    BY <1>6 DEF ItemsReceived
  <2>2. recorded' < next' /\ next' <= last' + 1 /\ next' \in Nat /\ last' \in 0 .. MaxItems
    <3>1. recorded \in Nat /\ MaxItems \in Nat
      BY <1>0, Bounds DEF StepType, CountType
    <3>2. recorded' = recorded /\ next' = recorded + 1
      BY <2>1
    <3>3. last' \in Nat /\ recorded + 1 <= last' /\ last' <= MaxItems
      BY <2>1, <3>1
    <3>4. \A m, n \in Nat : m + 1 <= n => m < m + 1 /\ m + 1 <= n + 1 /\ m + 1 \in Nat
      OBVIOUS
    <3>5. recorded < recorded + 1 /\ recorded + 1 <= last' + 1 /\ recorded + 1 \in Nat
      BY <3>1, <3>3, <3>4
    <3>6. last' \in 0 .. MaxItems
      BY <3>1, <3>3
    <3> QED
      BY <3>2, <3>5, <3>6
  <2>3. StepType'
    BY <1>0, <2>1, <2>2 DEF StepType, FlagType, CountType
  <2> QED
    BY <2>1, <2>2, <2>3 DEF ControlInv, OfflineType
<1>7. CASE ReceiveTrap \/ ApplyWorldBuff
  <2>1. /\ step = "items" /\ next <= last /\ next' = next + 1
        /\ UNCHANGED <<step, last, recorded, online, known, stood, interrupted>>
    BY <1>7 DEF ReceiveTrap, ApplyWorldBuff
  <2>2. recorded' < next' /\ next' <= last' + 1 /\ next' \in Nat
    BY <1>0, <2>1, Bounds DEF StepType, CountType, ControlInv
  <2>3. StepType'
    BY <1>0, <2>1, <2>2 DEF StepType, FlagType, CountType
  <2> QED
    BY <2>1, <2>2, <2>3 DEF ControlInv, OfflineType
<1>8. CASE ItemsEnd
  <2>1. /\ step = "items" /\ step' = "idle" /\ next' = 0 /\ last' = 0 /\ recorded' = last
        /\ UNCHANGED <<online, known, stood, interrupted>>
    BY <1>8 DEF ItemsEnd
  <2> QED
    BY <1>0, <2>1, Bounds DEF StepType, FlagType, CountType, ControlInv, OfflineType
<1>9. CASE Move
  <2>1. /\ online /\ step = "idle" /\ stood' \in BOOLEAN
        /\ UNCHANGED <<step, next, last, recorded, online, known, interrupted>>
    BY <1>9 DEF Move, handled
  <2> QED
    BY <1>0, <2>1 DEF StepType, FlagType, CountType, ControlInv, OfflineType
<1>10. CASE Logout \/ Crash
  <2>1. /\ online' = FALSE /\ known' = FALSE /\ step' = "idle" /\ stood' = TRUE
        /\ next' = 0 /\ last' = 0 /\ pendingTraps' = << >> /\ hold' = 0 /\ bombRun' = 0
        /\ interrupted' \in BOOLEAN /\ UNCHANGED recorded
    BY <1>0, <1>10 DEF Logout, Crash, Gone, StepType, FlagType
  <2>2. FlagType'
    BY <2>1 DEF FlagType
  <2>3. CountType' /\ ControlInv'
    BY <1>0, <2>1, Bounds DEF StepType, CountType, ControlInv
  <2>4. OfflineType'
    BY <2>1 DEF OfflineType
  <2> QED
    BY <2>1, <2>2, <2>3, <2>4 DEF StepType
<1>11. CASE Login
  <2>1. /\ ~online /\ online' = TRUE
        /\ UNCHANGED <<step, next, last, recorded, known, stood, interrupted>>
    BY <1>11 DEF Login, handled
  <2> QED
    BY <1>0, <2>1 DEF StepType, FlagType, CountType, ControlInv, OfflineType
<1>12. CASE UNCHANGED vars
  BY <1>0, <1>12 DEF vars, StepType, FlagType, CountType, ControlInv, OfflineType
<1> QED
  BY <1>1, <1>2, <1>3, <1>4, <1>5, <1>6, <1>7, <1>8, <1>9, <1>10, <1>11, <1>12 DEF Next

LEMMA NextHold == TypeOK /\ [Next]_vars => HoldType'
<1> SUFFICES ASSUME TypeOK, [Next]_vars PROVE HoldType'
  OBVIOUS
<1>0. hold \in 0 .. Hold /\ bombRun \in 0 .. BombsPerTrap /\ Hold \in Nat /\ BombsPerTrap \in Nat
  BY TypeParts, Bounds DEF HoldType
<1>1. CASE SpringPendingTraps
  <2>1. /\ UNCHANGED bombRun
        /\ \E elapsed \in {0, 1} : hold' \in {IF hold > elapsed THEN hold - elapsed ELSE 0, Hold, 0}
    BY <1>1 DEF SpringPendingTraps, HeldOnTheWay
  <2>2. hold' \in 0 .. Hold
    BY <1>0, <2>1
  <2> QED
    BY <1>0, <2>1, <2>2 DEF HoldType
<1>2. CASE SpringTrap
  <2>1. bombRun' \in {BombsPerTrap, bombRun} /\ UNCHANGED hold
    BY <1>2 DEF SpringTrap
  <2> QED
    BY <1>0, <2>1 DEF HoldType
<1>3. CASE UpdateBombRun
  <2>1. /\ UNCHANGED hold
        /\ bombRun' \in {0, bombRun} \/ (bombRun > 0 /\ bombRun' = bombRun - 1)
    BY <1>3 DEF UpdateBombRun
  <2> QED
    BY <1>0, <2>1 DEF HoldType
<1>4. CASE SpringingEnds \/ Poll \/ ItemsReceived \/ ReceiveTrap \/ ApplyWorldBuff \/ ItemsEnd \/ Move \/ Login
  <2>1. UNCHANGED <<hold, bombRun>>
    BY <1>4 DEF SpringingEnds, Poll, ItemsReceived, ReceiveTrap, ApplyWorldBuff, ItemsEnd, Move, Login
  <2> QED
    BY <1>0, <2>1 DEF HoldType
<1>5. CASE Logout \/ Crash
  <2>1. hold' = 0 /\ bombRun' = 0
    BY <1>5 DEF Logout, Crash, Gone
  <2> QED
    BY <1>0, <2>1 DEF HoldType
<1>6. CASE UNCHANGED vars
  BY <1>0, <1>6 DEF vars, HoldType
<1> QED
  BY <1>1, <1>2, <1>3, <1>4, <1>5, <1>6 DEF Next

\* One more spring
LEMMA SprungOnce ==
    ASSUME HistoryType, NEW n \in Positions, sprung' = [sprung EXCEPT ![n] = @ + 1]
    PROVE  /\ sprung' \in [Positions -> Nat]
           /\ sprung'[n] = sprung[n] + 1 /\ sprung[n] \in Nat
           /\ \A m \in Positions : m # n => sprung'[m] = sprung[m]
           /\ sprung'[n] > 0 /\ \A m \in Positions : sprung[m] > 0 => sprung'[m] > 0
<1>1. /\ sprung' \in [Positions -> Nat]
      /\ sprung'[n] = sprung[n] + 1 /\ sprung[n] \in Nat
      /\ \A m \in Positions : m # n => sprung'[m] = sprung[m]
  BY DEF HistoryType
<1>2. sprung'[n] > 0
  BY <1>1
<1> QED
  BY <1>1, <1>2

\* The trap the loop is at
LEMMA TrapInHand ==
    ASSUME TypeOK, ControlInv, SpringTrap
    PROVE  /\ next \in 1 .. Len(pendingTraps) /\ Len(pendingTraps) \in Nat
           /\ pendingTraps[next] \in Positions
           /\ pendingTraps[next] \in ToSet(pendingTraps)
<1>1. pendingTraps \in Seq(Positions)
  BY TypeParts DEF QueueType
<1>2. Len(pendingTraps) \in Nat
  BY <1>1, Listed
<1>3. next \in 1 .. Len(pendingTraps)
  BY <1>2 DEF SpringTrap, ControlInv
<1> QED
  BY <1>1, <1>2, <1>3, Listed

\* What an update does that goes for a Teleport Trap
LEMMA TeleportSprings ==
    ASSUME TypeOK, SpringPendingTraps, ~UNCHANGED <<pendingTraps, row, sprung>>
    PROVE  /\ FirstTeleport \in 1 .. Len(pendingTraps)
           /\ pendingTraps[FirstTeleport] \in Positions
           /\ pendingTraps[FirstTeleport] \in ToSet(pendingTraps)
           /\ items[pendingTraps[FirstTeleport]] = "teleport"
           /\ pendingTraps' = RemoveAt(pendingTraps, FirstTeleport)
           /\ savedTraps' = pendingTraps' /\ savedBuffs' = pendingWorldBuffs
           /\ sprung' = [sprung EXCEPT ![pendingTraps[FirstTeleport]] = @ + 1]
           /\ step' = "bombs" /\ aboard' = {} /\ hold' = Hold /\ UNCHANGED handled
<1>1. /\ TeleportDue
      /\ pendingTraps' = RemoveAt(pendingTraps, FirstTeleport)
      /\ savedTraps' = pendingTraps' /\ savedBuffs' = pendingWorldBuffs
      /\ sprung' = [sprung EXCEPT ![pendingTraps[FirstTeleport]] = @ + 1]
      /\ step' = "bombs" /\ aboard' = {} /\ hold' = Hold /\ UNCHANGED handled
  BY DEF SpringPendingTraps, SavePreferences
<1>2. pendingTraps \in Seq(Positions)
  BY TypeParts DEF QueueType
<1>3. /\ FirstTeleport \in 1 .. Len(pendingTraps)
      /\ items[pendingTraps[FirstTeleport]] = "teleport"
  BY <1>1, <1>2, TeleportFound DEF TeleportDue
<1>4. /\ pendingTraps[FirstTeleport] \in Positions
      /\ pendingTraps[FirstTeleport] \in ToSet(pendingTraps)
  BY <1>2, <1>3, Listed
<1> QED
  BY <1>1, <1>3, <1>4

LEMMA NextHistory == TypeOK /\ ControlInv /\ [Next]_vars => HistoryType'
<1> SUFFICES ASSUME TypeOK, ControlInv, [Next]_vars PROVE HistoryType'
  OBVIOUS
<1>0. HistoryType /\ QueueType /\ CountType /\ ToSet(pendingTraps) \subseteq Positions
  BY TypeParts, ToSetType DEF QueueType, StepType
<1>1. CASE SpringPendingTraps
  <2>1. UNCHANGED <<applied, dropped, able>> /\ aboard' \in {aboard, aboard \union ToSet(pendingTraps), {}}
    BY <1>1 DEF SpringPendingTraps
  <2>2. sprung' \in [Positions -> Nat]
    <3>1. CASE UNCHANGED <<pendingTraps, row, sprung>>
      BY <1>0, <3>1 DEF HistoryType
    <3>2. CASE ~UNCHANGED <<pendingTraps, row, sprung>>
      BY <1>0, <1>1, <3>2, TeleportSprings, SprungOnce
    <3> QED
      BY <3>1, <3>2
  <2> QED
    BY <1>0, <2>1, <2>2 DEF HistoryType
<1>2. CASE SpringTrap
  <2>1. /\ UNCHANGED <<applied, dropped, able, aboard>>
        /\ \/ sprung' = [sprung EXCEPT ![pendingTraps[next]] = @ + 1]
           \/ UNCHANGED sprung
    BY <1>2 DEF SpringTrap
  <2>2. pendingTraps[next] \in Positions
    BY <1>2, TrapInHand
  <2>3. sprung' \in [Positions -> Nat]
    BY <1>0, <2>1, <2>2, SprungOnce DEF HistoryType
  <2> QED
    BY <1>0, <2>1, <2>3 DEF HistoryType
<1>3. CASE SpringingEnds \/ UpdateBombRun \/ Poll \/ ItemsReceived \/ Login
  <2>1. UNCHANGED <<sprung, applied, dropped, able, aboard>>
    BY <1>3 DEF SpringingEnds, UpdateBombRun, Poll, ItemsReceived, Login
  <2> QED
    BY <1>0, <2>1 DEF HistoryType
<1>4. CASE ReceiveTrap
  <2>1. able' \in {able, able \union {next}} /\ UNCHANGED <<sprung, applied, dropped, aboard>>
    BY <1>4 DEF ReceiveTrap
  <2>2. next \in Positions
    BY <1>0, <1>4, Bounds DEF ReceiveTrap, ControlInv, CountType
  <2> QED
    BY <1>0, <2>1, <2>2 DEF HistoryType
<1>5. CASE ApplyWorldBuff
  <2>1. UNCHANGED <<applied, dropped>> \/ Tried(1)
    BY <1>5 DEF ApplyWorldBuff
  <2>2. applied' \in Nat /\ dropped' \in Nat
    BY <1>0, <2>1, TriedCounts DEF HistoryType
  <2>3. UNCHANGED <<sprung, able, aboard>>
    BY <1>5 DEF ApplyWorldBuff
  <2> QED
    BY <1>0, <2>2, <2>3 DEF HistoryType
<1>6. CASE ItemsEnd \/ Move
  <2>1. UNCHANGED <<applied, dropped>> \/ Tried(pendingWorldBuffs)
    BY <1>6 DEF ItemsEnd, Move, ApplyPendingWorldBuffs, buffs
  <2>2. pendingWorldBuffs \in Nat
    BY <1>0 DEF QueueType
  <2>3. applied' \in Nat /\ dropped' \in Nat
    BY <1>0, <2>1, <2>2, TriedCounts DEF HistoryType
  <2>4. aboard' \in {aboard, {}} /\ UNCHANGED <<sprung, able>>
    BY <1>6 DEF ItemsEnd, Move
  <2> QED
    BY <1>0, <2>3, <2>4 DEF HistoryType
<1>7. CASE Logout \/ Crash
  <2>1. aboard' = {} /\ UNCHANGED <<sprung, applied, dropped, able>>
    BY <1>7 DEF Logout, Crash, Gone
  <2> QED
    BY <1>0, <2>1 DEF HistoryType
<1>8. CASE UNCHANGED vars
  BY <1>0, <1>8 DEF vars, HistoryType
<1> QED
  BY <1>1, <1>2, <1>3, <1>4, <1>5, <1>6, <1>7, <1>8 DEF Next

LEMMA NextType == TypeOK /\ ControlInv /\ [Next]_vars => TypeOK' /\ ControlInv'
<1> SUFFICES ASSUME TypeOK, ControlInv, [Next]_vars PROVE TypeOK' /\ ControlInv'
  OBVIOUS
<1>1. WorldType' /\ QueueType' /\ StepType' /\ HoldType' /\ HistoryType' /\ OfflineType' /\ ControlInv'
  BY NextWorld, NextQueue, NextStep, NextHold, NextHistory
<1>2. WorldType' /\ QueueType' /\ StepType' /\ HoldType' /\ HistoryType' /\ OfflineType' => TypeOK'
  BY TypeParts, PTL
<1> QED
  BY <1>1, <1>2

\* The variables keep their types: the hold never exceeds what a landing sets,
\* and a character that is gone leaves nothing of an update behind.
THEOREM TypeCorrect == Spec => []TypeOK
  BY InitType, NextType, PTL DEF Spec

-----------------------------------------------------------------------------
(* What waits is kept *)

LEMMA PositionType ==
    ASSUME TypeOK, ControlInv
    PROVE  /\ Position \in Nat /\ recorded \in Nat /\ recorded <= Position /\ Position <= MaxItems
           /\ next \in Nat /\ last \in Nat
           /\ step = "items" => Position = next - 1
           /\ step # "items" => Position = recorded
<1>1. CountType
  BY TypeParts DEF StepType
<1> QED
  BY <1>1, Bounds DEF Position, ControlInv, CountType

\* What waits in the row or has sprung still does.
LEMMA KeptFrame ==
    ASSUME KeptInv, UNCHANGED items, able \subseteq able',
           \A n : sprung[n] > 0 => sprung'[n] > 0,
           \A n \in ToSet(savedTraps) : n \in ToSet(savedTraps)' \/ sprung'[n] > 0
    PROVE  \A n \in 1 .. Position :
               items'[n] \in TrapKinds /\ n \notin able' => n \in ToSet(savedTraps)' \/ sprung'[n] > 0
  BY DEF KeptInv

\* The row is written from the queue in memory, or left alone.
LEMMA RowFrame ==
    ASSUME KeptInv, online, UNCHANGED <<sprung, pendingTraps>>, savedTraps' \in {savedTraps, pendingTraps}
    PROVE  /\ \A n \in ToSet(savedTraps) : n \in ToSet(savedTraps)' \/ sprung'[n] > 0
           /\ \A n \in ToSet(savedTraps)' : n \in ToSet(pendingTraps)' \/ sprung'[n] > 0
<1>1. \A n \in ToSet(savedTraps) : n \in ToSet(pendingTraps) \/ sprung[n] > 0
  BY DEF KeptInv
<1>2. CASE savedTraps' = savedTraps
  BY <1>1, <1>2
<1>3. CASE savedTraps' = pendingTraps
  BY <1>1, <1>3
<1> QED
  BY <1>2, <1>3

LEMMA SpringingKept == TypeOK /\ ControlInv /\ KeptInv /\ SpringPendingTraps => KeptInv'
<1> SUFFICES ASSUME TypeOK, ControlInv, KeptInv, SpringPendingTraps PROVE KeptInv'
  OBVIOUS
<1>0. QueueType /\ HistoryType
  BY TypeParts
<1>1. /\ online /\ step # "items" /\ step' # "items"
      /\ UNCHANGED <<items, able, recorded>>
      /\ step' = "springing" => next' = 1
  BY DEF SpringPendingTraps
<1>2. Position' = Position
  BY <1>1 DEF Position
<1>3. step' = "springing" => \A k : ~(k \in 1 .. next' - 1)
  BY <1>1
<1>4. \A n \in ToSet(savedTraps) : n \in ToSet(pendingTraps) \/ sprung[n] > 0
  BY <1>1 DEF KeptInv
<1>5. CASE UNCHANGED <<pendingTraps, row, sprung>>
  <2>1. UNCHANGED <<pendingTraps, savedTraps, sprung>>
    BY <1>5 DEF row
  <2>2. ToSet(savedTraps)' = ToSet(savedTraps) /\ ToSet(pendingTraps)' = ToSet(pendingTraps)
    BY <2>1
  <2>3. \A n \in 1 .. Position :
            items'[n] \in TrapKinds /\ n \notin able' => n \in ToSet(savedTraps)' \/ sprung'[n] > 0
    BY <1>1, <2>1, <2>2, KeptFrame
  <2> QED
    BY <1>2, <1>3, <1>4, <2>1, <2>2, <2>3 DEF KeptInv
<1>6. CASE ~UNCHANGED <<pendingTraps, row, sprung>>
  <2> DEFINE f == FirstTeleport
             t == pendingTraps[f]
  <2>1. /\ f \in 1 .. Len(pendingTraps) /\ t \in Positions
        /\ pendingTraps' = RemoveAt(pendingTraps, f)
        /\ savedTraps' = pendingTraps'
        /\ sprung' = [sprung EXCEPT ![t] = @ + 1]
        /\ step' = "bombs"
    BY <1>6, TeleportSprings
  <2>2. \A n \in ToSet(pendingTraps) : n = t \/ n \in ToSet(pendingTraps')
    BY <1>0, <2>1, Removed DEF QueueType
  <2> HIDE DEF f, t
  <2>3. sprung'[t] > 0 /\ \A n \in Positions : sprung[n] > 0 => sprung'[n] > 0
    BY <1>0, <2>1, SprungOnce
  <2>4. ToSet(savedTraps) \subseteq Positions
    BY <1>0, ToSetType DEF QueueType
  <2>5. \A n \in ToSet(savedTraps) : n \in ToSet(savedTraps') \/ sprung'[n] > 0
    BY <1>4, <2>1, <2>2, <2>3, <2>4
  <2>6. ASSUME NEW n \in 1 .. Position, items'[n] \in TrapKinds, n \notin able'
        PROVE  n \in ToSet(savedTraps') \/ sprung'[n] > 0
    <3>1. n \in Positions
      BY Bounds, PositionType
    <3>2. n \in ToSet(savedTraps) \/ sprung[n] > 0
      BY <1>1, <2>6 DEF KeptInv
    <3> QED
      BY <2>3, <2>5, <3>1, <3>2
  <2> QED
    BY <1>2, <2>1, <2>6 DEF KeptInv
<1> QED
  BY <1>5, <1>6

LEMMA LoopKept == TypeOK /\ ControlInv /\ KeptInv /\ SpringTrap => KeptInv'
<1> SUFFICES ASSUME TypeOK, ControlInv, KeptInv, SpringTrap PROVE KeptInv'
  OBVIOUS
<1>0. QueueType /\ HistoryType
  BY TypeParts
<1> DEFINE t == pendingTraps[next]
<1>1. /\ step = "springing" /\ next' = next + 1 /\ UNCHANGED <<step, items, able, recorded, online, pendingTraps, savedTraps>>
      /\ \/ sprung' = [sprung EXCEPT ![t] = @ + 1] /\ waiting' = waiting
         \/ UNCHANGED sprung /\ waiting' = Append(waiting, t)
  BY DEF SpringTrap, row
<1>2. next \in 1 .. Len(pendingTraps) /\ Len(pendingTraps) \in Nat /\ t \in Positions
  BY TrapInHand
<1>3. \A k \in 1 .. Len(pendingTraps) : pendingTraps[k] \in Positions
  BY <1>0, Listed DEF QueueType
<1>4. /\ \A n \in Positions : sprung[n] > 0 => sprung'[n] > 0
      /\ \A n \in ToSet(waiting) : n \in ToSet(waiting')
      /\ t \in ToSet(waiting') \/ sprung'[t] > 0
  <2>1. CASE sprung' = [sprung EXCEPT ![t] = @ + 1] /\ waiting' = waiting
    <3>1. sprung'[t] > 0 /\ \A n \in Positions : sprung[n] > 0 => sprung'[n] > 0
      BY <1>0, <1>2, <2>1, SprungOnce
    <3> QED
      BY <2>1, <3>1
  <2>2. CASE UNCHANGED sprung /\ waiting' = Append(waiting, t)
    BY <1>0, <1>2, <2>2, Appended DEF QueueType
  <2> QED
    BY <1>1, <2>1, <2>2
<1>5. ToSet(savedTraps) \subseteq Positions
  BY <1>0, ToSetType DEF QueueType
<1>6. Position' = Position /\ Position \in Nat /\ Position <= MaxItems
  BY <1>1, PositionType DEF Position
<1>7. ASSUME NEW n \in 1 .. Position, items'[n] \in TrapKinds, n \notin able'
      PROVE  n \in ToSet(savedTraps') \/ sprung'[n] > 0
  <2>1. n \in Positions
    BY <1>6, Bounds
  <2>2. n \in ToSet(savedTraps) \/ sprung[n] > 0
    BY <1>1, <1>7 DEF KeptInv
  <2> QED
    BY <1>1, <1>4, <2>1, <2>2
<1>8. ASSUME NEW n \in ToSet(savedTraps') PROVE n \in ToSet(pendingTraps') \/ sprung'[n] > 0
  <2>1. online /\ n \in ToSet(savedTraps) /\ n \in Positions
    BY <1>1, <1>5, <1>8 DEF ControlInv
  <2>2. n \in ToSet(pendingTraps) \/ sprung[n] > 0
    BY <2>1 DEF KeptInv
  <2> QED
    BY <1>1, <1>4, <2>1, <2>2
<1>9. ASSUME NEW k \in 1 .. next' - 1
      PROVE  pendingTraps'[k] \in ToSet(waiting') \/ sprung'[pendingTraps'[k]] > 0
  <2>1. k \in 1 .. next - 1 \/ k = next
    BY <1>1, <1>2, <1>9
  <2>2. CASE k \in 1 .. next - 1
    <3>1. pendingTraps[k] \in ToSet(waiting) \/ sprung[pendingTraps[k]] > 0
      BY <1>1, <2>2 DEF KeptInv
    <3>2. pendingTraps[k] \in Positions
      BY <1>2, <1>3, <2>2
    <3> QED
      BY <1>1, <1>4, <3>1, <3>2
  <2>3. CASE k = next
    BY <1>1, <1>4, <2>3
  <2> QED
    BY <2>1, <2>2, <2>3
<1> QED
  BY <1>6, <1>7, <1>8, <1>9 DEF KeptInv

LEMMA LoopEndKept == TypeOK /\ ControlInv /\ KeptInv /\ SpringingEnds => KeptInv'
<1> SUFFICES ASSUME TypeOK, ControlInv, KeptInv, SpringingEnds PROVE KeptInv'
  OBVIOUS
<1>0. QueueType
  BY TypeParts
<1>1. /\ step = "springing" /\ next > Len(pendingTraps) /\ step' = "bombs"
      /\ \/ pendingTraps' = waiting /\ savedTraps' = waiting
         \/ UNCHANGED <<pendingTraps, savedTraps>>
      /\ UNCHANGED <<items, able, recorded, online, sprung>>
  BY DEF SpringingEnds, SavePreferences, StillWaiting, row
<1>2. online /\ next \in Nat /\ Len(pendingTraps) \in Nat
  BY <1>0, <1>1, PositionType, Listed DEF ControlInv, QueueType
<1>3. \A n \in ToSet(savedTraps) : n \in ToSet(pendingTraps) \/ sprung[n] > 0
  BY <1>2 DEF KeptInv
<1>4. ASSUME NEW n \in ToSet(pendingTraps) PROVE n \in ToSet(waiting) \/ sprung[n] > 0
  <2>1. PICK k \in 1 .. Len(pendingTraps) : pendingTraps[k] = n
    BY <1>0, Listed DEF QueueType
  <2>2. k \in 1 .. next - 1
    BY <1>1, <1>2
  <2> QED
    BY <1>1, <2>1, <2>2 DEF KeptInv
<1>5. Position' = Position
  BY <1>1 DEF Position
<1>6. \A n \in ToSet(savedTraps) : n \in ToSet(savedTraps)' \/ sprung'[n] > 0
  BY <1>1, <1>3, <1>4
<1>7. \A n \in ToSet(savedTraps)' : n \in ToSet(pendingTraps)' \/ sprung'[n] > 0
  BY <1>1, <1>3
<1>8. \A n \in 1 .. Position :
          items'[n] \in TrapKinds /\ n \notin able' => n \in ToSet(savedTraps)' \/ sprung'[n] > 0
  BY <1>1, <1>6, KeptFrame
<1> QED
  BY <1>1, <1>5, <1>7, <1>8 DEF KeptInv

LEMMA ReceiveKept == TypeOK /\ ControlInv /\ KeptInv /\ ReceiveTrap => KeptInv'
<1> SUFFICES ASSUME TypeOK, ControlInv, KeptInv, ReceiveTrap PROVE KeptInv'
  OBVIOUS
<1>0. QueueType /\ next \in Positions
  BY TypeParts, PositionType, Bounds DEF ReceiveTrap, ControlInv, StepType, CountType
<1>1. /\ step = "items" /\ next' = next + 1
      /\ pendingTraps' = Append(pendingTraps, next)
      /\ able \subseteq able'
      /\ \/ UNCHANGED savedTraps /\ able' = able \union {next}
         \/ savedTraps' = pendingTraps'
      /\ UNCHANGED <<step, items, recorded, online, sprung>>
  BY DEF ReceiveTrap, SavedAtOnce, SavePreferences, row
<1>2. \A n : n \in ToSet(pendingTraps') <=> n \in ToSet(pendingTraps) \/ n = next
  BY <1>0, <1>1, Appended DEF QueueType
<1>3. \A n \in ToSet(savedTraps) : n \in ToSet(pendingTraps) \/ sprung[n] > 0
  BY <1>1 DEF KeptInv, ControlInv
<1>4. \A n \in ToSet(savedTraps) : n \in ToSet(savedTraps') \/ sprung'[n] > 0
  BY <1>1, <1>2, <1>3
<1>5. \A n \in ToSet(savedTraps') : n \in ToSet(pendingTraps') \/ sprung'[n] > 0
  BY <1>1, <1>2, <1>3
<1>6. \A n \in 1 .. Position :
          items'[n] \in TrapKinds /\ n \notin able' => n \in ToSet(savedTraps') \/ sprung'[n] > 0
  BY <1>1, <1>4, KeptFrame
<1>7. next \notin able' => next \in ToSet(savedTraps')
  BY <1>1, <1>2
<1>8. \A n \in 1 .. Position' : n \in 1 .. Position \/ n = next
  BY <1>0, <1>1, Bounds DEF Position
<1> QED
  BY <1>1, <1>5, <1>6, <1>7, <1>8 DEF KeptInv

LEMMA NextKept == TypeOK /\ ControlInv /\ KeptInv /\ [Next]_vars => KeptInv'
<1> SUFFICES ASSUME TypeOK, ControlInv, KeptInv, [Next]_vars PROVE KeptInv'
  OBVIOUS
<1>0. Position \in Nat /\ recorded \in Nat /\ recorded <= Position /\ next \in Nat /\ last \in Nat
  BY PositionType
<1>1. CASE SpringPendingTraps
  BY <1>1, SpringingKept
<1>2. CASE SpringTrap
  BY <1>2, LoopKept
<1>3. CASE SpringingEnds
  BY <1>3, LoopEndKept
<1>4. CASE ReceiveTrap
  BY <1>4, ReceiveKept
<1>5. CASE UpdateBombRun \/ Poll \/ ItemsReceived
  <2>1. /\ step' # "springing" /\ UNCHANGED <<items, able, savedTraps, sprung, online, pendingTraps, recorded>>
    BY <1>5 DEF UpdateBombRun, Poll, ItemsReceived, row
  <2>2. Position' = Position
    <3>1. CASE UpdateBombRun \/ Poll
      BY <3>1 DEF Position, UpdateBombRun, Poll
    <3>2. CASE ItemsReceived
      <4>1. step # "items" /\ step' = "items" /\ next' = recorded + 1
        BY <3>2 DEF ItemsReceived
      <4>2. Position' = (recorded + 1) - 1 /\ Position = recorded
        BY <4>1 DEF Position
      <4> QED
        BY <1>0, <4>2
    <3> QED
      BY <1>5, <3>1, <3>2
  <2> QED
    BY <2>1, <2>2 DEF KeptInv
<1>6. CASE ApplyWorldBuff
  <2>1. /\ step = "items" /\ items[next] \notin TrapKinds /\ next' = next + 1
        /\ savedTraps' \in {savedTraps, pendingTraps}
        /\ UNCHANGED <<step, items, able, sprung, online, pendingTraps, recorded>>
    BY <1>6 DEF ApplyWorldBuff, SavePreferences, row, TrapKinds
  <2>2. online
    BY <2>1 DEF ControlInv
  <2>3. /\ \A n \in ToSet(savedTraps) : n \in ToSet(savedTraps)' \/ sprung'[n] > 0
        /\ \A n \in ToSet(savedTraps)' : n \in ToSet(pendingTraps)' \/ sprung'[n] > 0
    BY <2>1, <2>2, RowFrame
  <2>4. \A n \in 1 .. Position :
            items'[n] \in TrapKinds /\ n \notin able' => n \in ToSet(savedTraps)' \/ sprung'[n] > 0
    BY <2>1, <2>3, KeptFrame
  <2>5. \A n \in 1 .. Position' : n \in 1 .. Position \/ n = next
    BY <1>0, <2>1 DEF Position
  <2> QED
    BY <2>1, <2>3, <2>4, <2>5 DEF KeptInv
<1>7. CASE ItemsEnd \/ Move
  <2>1. /\ online /\ step' = "idle"
        /\ savedTraps' \in {savedTraps, pendingTraps}
        /\ UNCHANGED <<items, able, sprung, online, pendingTraps>>
    BY <1>7 DEF ItemsEnd, Move, ApplyPendingWorldBuffs, SavePreferences, ControlInv
  <2>2. Position' = Position
    BY <1>0, <1>7 DEF Position, ItemsEnd, Move, ControlInv
  <2>3. /\ \A n \in ToSet(savedTraps) : n \in ToSet(savedTraps)' \/ sprung'[n] > 0
        /\ \A n \in ToSet(savedTraps)' : n \in ToSet(pendingTraps)' \/ sprung'[n] > 0
    BY <2>1, RowFrame
  <2>4. \A n \in 1 .. Position :
            items'[n] \in TrapKinds /\ n \notin able' => n \in ToSet(savedTraps)' \/ sprung'[n] > 0
    BY <2>1, <2>3, KeptFrame
  <2> QED
    BY <2>1, <2>2, <2>3, <2>4 DEF KeptInv
<1>8. CASE Logout \/ Crash
  <2>1. /\ online' = FALSE /\ step' = "idle"
        /\ UNCHANGED <<items, able, sprung, savedTraps, recorded>>
    BY <1>8 DEF Logout, Crash, Gone, row
  <2>2. \A n \in 1 .. Position' : n \in 1 .. Position
    BY <1>0, <2>1 DEF Position
  <2> QED
    BY <2>1, <2>2 DEF KeptInv
<1>9. CASE Login
  <2>1. /\ pendingTraps' = savedTraps
        /\ UNCHANGED <<items, able, sprung, savedTraps, recorded, step>>
        /\ step = "idle"
    BY <1>9 DEF Login, row, ControlInv
  <2>2. Position' = Position
    BY <2>1 DEF Position
  <2> QED
    BY <2>1, <2>2 DEF KeptInv
<1>10. CASE UNCHANGED vars
  BY <1>10 DEF vars, KeptInv, Position
<1> QED
  BY <1>1, <1>2, <1>3, <1>4, <1>5, <1>6, <1>7, <1>8, <1>9, <1>10 DEF Next

LEMMA InitKept == Init => KeptInv
<1> SUFFICES ASSUME Init PROVE KeptInv
  OBVIOUS
<1>1. Position = 0 /\ step = "idle" /\ online = FALSE
  BY DEF Init, Position
<1> QED
  BY <1>1 DEF KeptInv

\* A trap that could not spring when it arrived is never lost: the row holds
\* it or it has sprung, whatever is saved in between and wherever a crash falls.
THEOREM WaitingTrapsAlwaysKept == Spec => []WaitingTrapsAreKept
<1>1. Init => TypeOK /\ ControlInv /\ KeptInv
  BY InitType, InitKept
<1>2. (TypeOK /\ ControlInv /\ KeptInv) /\ [Next]_vars => (TypeOK /\ ControlInv /\ KeptInv)'
  BY NextType, NextKept
<1>3. TypeOK /\ ControlInv /\ KeptInv => WaitingTrapsAreKept
  <2> SUFFICES ASSUME TypeOK, ControlInv, KeptInv PROVE WaitingTrapsAreKept
    OBVIOUS
  <2>1. \A n \in 1 .. recorded : n \in 1 .. Position
    BY PositionType
  <2> QED
    BY <2>1 DEF KeptInv, WaitingTrapsAreKept
<1> QED
  BY <1>1, <1>2, <1>3, PTL DEF Spec

-----------------------------------------------------------------------------
(* Nothing springs twice *)

LEMMA InitOnce == Init => Once
<1> SUFFICES ASSUME Init PROVE Once
  OBVIOUS
<1>1. \A n \in Positions : sprung[n] = 0
  BY DEF Init
<1>2. /\ pendingTraps = << >> /\ savedTraps = << >> /\ step # "springing"
      /\ ToSet(pendingTraps) = {} /\ ToSet(savedTraps) = {}
      /\ NoRepeats(pendingTraps) /\ NoRepeats(savedTraps)
  BY Nothing DEF Init
<1> QED
  BY <1>1, <1>2 DEF Once, Unseen, Apart

\* The queues are copied to each other or emptied, the position goes on.
LEMMA OnceFrame ==
    ASSUME TypeOK, ControlInv, Once, step # "springing", step' # "springing", UNCHANGED sprung,
           Position' \in Nat, Position' >= Position,
           pendingTraps' \in {pendingTraps, savedTraps, << >>},
           savedTraps' \in {savedTraps, pendingTraps}
    PROVE  Once'
<1>1. Position \in Nat /\ \A n \in Positions : n \in Nat
  BY PositionType, Bounds
<1>2. /\ Apart(pendingTraps) /\ Apart(savedTraps)
      /\ NoRepeats(pendingTraps) /\ NoRepeats(savedTraps)
  BY DEF Once
<1>3. /\ ToSet(<< >>) = {} /\ NoRepeats(<< >>)
  BY Nothing
<1>4. NoRepeats(pendingTraps)' /\ NoRepeats(savedTraps)'
  <2>1. NoRepeats(pendingTraps')
    BY <1>2, <1>3
  <2>2. NoRepeats(savedTraps')
    BY <1>2
  <2> QED
    BY <2>1, <2>2
<1>5. /\ \A n : n \in ToSet(pendingTraps') => n \in ToSet(pendingTraps) \/ n \in ToSet(savedTraps)
      /\ \A n : n \in ToSet(savedTraps') => n \in ToSet(pendingTraps) \/ n \in ToSet(savedTraps)
  BY <1>3
<1>6. Apart(pendingTraps)' /\ Apart(savedTraps)'
  BY <1>2, <1>5 DEF Apart
<1>7. ASSUME NEW n \in Positions, n > Position' PROVE Unseen(n)'
  <2>1. n > Position
    BY <1>1, <1>7
  <2>2. Unseen(n)
    BY <2>1 DEF Once
  <2> QED
    BY <1>5, <2>2 DEF Unseen
<1> QED
  BY <1>4, <1>6, <1>7 DEF Once

LEMMA SpringingOnce == TypeOK /\ ControlInv /\ Once /\ SpringPendingTraps => Once'
<1> SUFFICES ASSUME TypeOK, ControlInv, Once, SpringPendingTraps PROVE Once'
  OBVIOUS
<1>0. QueueType /\ HistoryType /\ Position \in Nat
  BY TypeParts, PositionType
<1>1. /\ step = "idle" /\ UNCHANGED recorded
      /\ \/ step' = "bombs"
         \/ step' = "springing" /\ next' = 1 /\ waiting' = << >>
  BY DEF SpringPendingTraps
<1>2. Position' = Position
  BY <1>1 DEF Position
<1>3. /\ Apart(pendingTraps) /\ Apart(savedTraps)
      /\ NoRepeats(pendingTraps) /\ NoRepeats(savedTraps)
  BY <1>1 DEF Once
<1>4. CASE UNCHANGED <<pendingTraps, row, sprung>>
  <2>1. UNCHANGED <<pendingTraps, savedTraps, sprung>>
    BY <1>4 DEF row
  <2>2. CASE step' = "bombs"
    BY <1>0, <1>1, <1>2, <2>1, <2>2, OnceFrame
  <2>3. CASE step' = "springing" /\ next' = 1 /\ waiting' = << >>
    <3>1. /\ ToSet(waiting') = {} /\ NoRepeats(waiting') /\ DOMAIN waiting' = {}
      <4>1. << >> \in Seq(Positions) /\ Len(<< >>) = 0
        BY EmptySeq
      <4>2. DOMAIN << >> = 1 .. 0
        BY <4>1, Listed
      <4> QED
        BY <2>3, <4>2, Nothing
    <3>2. ASSUME NEW k \in DOMAIN pendingTraps PROVE sprung[pendingTraps[k]] = 0
      <4>1. pendingTraps[k] \in Positions /\ pendingTraps[k] \in ToSet(pendingTraps)
        BY <1>0, <3>2, Listed DEF QueueType
      <4> QED
        BY <1>0, <1>3, <4>1 DEF Apart, HistoryType
    <3>3. LoopInv'
      <4>1. NoRepeats(waiting)' /\ Apart(waiting)'
        BY <3>1 DEF Apart
      <4>2. Apart(pendingTraps)' /\ Apart(savedTraps)'
        BY <1>3, <2>1 DEF Apart
      <4>3. \A k \in DOMAIN pendingTraps' : sprung'[pendingTraps'[k]] = 0
        BY <2>1, <3>2
      <4> QED
        BY <3>1, <4>1, <4>2, <4>3 DEF LoopInv
    <3>4. NoRepeats(pendingTraps)' /\ NoRepeats(savedTraps)'
      BY <1>3, <2>1
    <3>5. \A n \in Positions : sprung'[n] <= 1 /\ (n > Position' => Unseen(n)')
      BY <1>2, <2>1 DEF Once, Unseen
    <3> QED
      BY <2>3, <3>3, <3>4, <3>5 DEF Once
  <2> QED
    BY <1>1, <2>2, <2>3
<1>5. CASE ~UNCHANGED <<pendingTraps, row, sprung>>
  <2> DEFINE f == FirstTeleport
             t == pendingTraps[f]
  <2>1. /\ f \in 1 .. Len(pendingTraps) /\ t \in Positions /\ t \in ToSet(pendingTraps)
        /\ pendingTraps' = RemoveAt(pendingTraps, f)
        /\ savedTraps' = pendingTraps'
        /\ sprung' = [sprung EXCEPT ![t] = @ + 1]
        /\ step' = "bombs"
    BY <1>5, TeleportSprings
  <2>2. /\ \A n \in ToSet(pendingTraps') : n \in ToSet(pendingTraps)
        /\ NoRepeats(pendingTraps') /\ t \notin ToSet(pendingTraps')
    BY <1>0, <1>3, <2>1, Removed DEF QueueType
  <2> HIDE DEF f, t
  <2>3. /\ sprung'[t] = sprung[t] + 1 /\ sprung[t] \in Nat
        /\ \A m \in Positions : m # t => sprung'[m] = sprung[m]
    BY <1>0, <2>1, SprungOnce
  <2>4. sprung[t] = 0
    BY <1>3, <2>1, <2>3 DEF Apart
  <2>5. \A n \in Positions : sprung'[n] <= 1
    <3>1. \A n \in Positions : sprung[n] <= 1
      BY DEF Once
    <3> QED
      BY <2>3, <2>4, <3>1
  <2>6. Apart(pendingTraps)' /\ Apart(savedTraps)'
    BY <1>3, <2>1, <2>2, <2>3 DEF Apart
  <2>7. ASSUME NEW n \in Positions, n > Position' PROVE Unseen(n)'
    <3>1. Unseen(n)
      BY <1>2, <2>7 DEF Once
    <3>2. n # t
      BY <2>1, <3>1 DEF Unseen
    <3> QED
      BY <2>1, <2>2, <2>3, <3>1, <3>2 DEF Unseen
  <2>8. NoRepeats(pendingTraps)' /\ NoRepeats(savedTraps)'
    BY <2>1, <2>2
  <2> QED
    BY <2>1, <2>5, <2>6, <2>7, <2>8 DEF Once
<1> QED
  BY <1>4, <1>5

LEMMA LoopOnce == TypeOK /\ ControlInv /\ Once /\ SpringTrap => Once'
<1> SUFFICES ASSUME TypeOK, ControlInv, Once, SpringTrap PROVE Once'
  OBVIOUS
<1>0. QueueType /\ HistoryType /\ Position \in Nat
  BY TypeParts, PositionType
<1> DEFINE t == pendingTraps[next]
<1>1. /\ step = "springing" /\ next' = next + 1
      /\ UNCHANGED <<step, recorded, pendingTraps, savedTraps>>
      /\ \/ sprung' = [sprung EXCEPT ![t] = @ + 1] /\ waiting' = waiting
         \/ UNCHANGED sprung /\ waiting' = Append(waiting, t)
  BY DEF SpringTrap, row
<1>2. /\ next \in 1 .. Len(pendingTraps) /\ Len(pendingTraps) \in Nat
      /\ t \in Positions /\ t \in ToSet(pendingTraps)
  BY TrapInHand
<1>3. /\ DOMAIN pendingTraps = 1 .. Len(pendingTraps) /\ DOMAIN waiting = 1 .. Len(waiting)
      /\ Len(waiting) \in Nat /\ Len(waiting) <= next - 1
      /\ \A k \in 1 .. Len(pendingTraps) : pendingTraps[k] \in Positions
      /\ \A n : n \in ToSet(waiting) <=> \E j \in 1 .. Len(waiting) : waiting[j] = n
  BY <1>0, <1>1, Listed DEF QueueType, ControlInv
<1>4. /\ NoRepeats(pendingTraps) /\ NoRepeats(savedTraps) /\ LoopInv
      /\ \A n \in Positions : sprung[n] <= 1
      /\ \A n \in Positions : n > Position => Unseen(n)
  BY <1>1 DEF Once
<1>5. sprung[t] = 0
  BY <1>2, <1>3, <1>4 DEF LoopInv
<1>6. \A k \in 1 .. Len(pendingTraps) : k # next => pendingTraps[k] # t
  BY <1>2, <1>3, <1>4 DEF NoRepeats
<1>7. t \notin ToSet(waiting)
  <2> SUFFICES ASSUME NEW j \in 1 .. Len(waiting), waiting[j] = t PROVE FALSE
    BY <1>3
  <2>1. PICK k \in 1 .. next - 1 : waiting[j] = pendingTraps[k]
    BY <1>3, <1>4 DEF LoopInv
  <2>2. k \in 1 .. Len(pendingTraps) /\ k # next
    BY <1>2
  <2> QED
    BY <1>6, <2>1, <2>2
<1> HIDE DEF t
<1>8. Position' = Position
  BY <1>1 DEF Position
<1>9. CASE sprung' = [sprung EXCEPT ![t] = @ + 1] /\ waiting' = waiting
  <2>1. /\ sprung'[t] = 1 /\ \A m \in Positions : m # t => sprung'[m] = sprung[m]
    <3>1. sprung'[t] = sprung[t] + 1 /\ \A m \in Positions : m # t => sprung'[m] = sprung[m]
      BY <1>0, <1>2, <1>9, SprungOnce
    <3> QED
      BY <1>5, <3>1
  <2>2. \A n \in Positions : sprung'[n] <= 1
    BY <1>4, <2>1
  <2>3. ASSUME NEW n \in Positions, n > Position' PROVE Unseen(n)'
    <3>1. Unseen(n) /\ n # t
      BY <1>2, <1>4, <1>8, <2>3 DEF Unseen
    <3> QED
      BY <1>1, <2>1, <3>1 DEF Unseen
  <2>4. Apart(waiting)'
    BY <1>4, <1>7, <1>9, <2>1 DEF LoopInv, Apart
  <2>5. NoRepeats(waiting)'
    BY <1>4, <1>9 DEF LoopInv
  <2>6. \A j \in DOMAIN waiting' : \E k \in 1 .. next' - 1 : waiting'[j] = pendingTraps'[k]
    <3>1. \A k \in 1 .. next - 1 : k \in 1 .. next' - 1
      BY <1>1, <1>2
    <3> QED
      BY <1>1, <1>4, <1>9, <3>1 DEF LoopInv
  <2>7. ASSUME NEW k \in 1 .. Len(pendingTraps), k >= next' PROVE sprung'[pendingTraps'[k]] = 0
    <3>1. k >= next /\ k # next
      BY <1>1, <1>2, <2>7
    <3>2. pendingTraps[k] \in Positions /\ pendingTraps[k] # t /\ sprung[pendingTraps[k]] = 0
      BY <1>3, <1>4, <1>6, <3>1 DEF LoopInv
    <3> QED
      BY <1>1, <2>1, <3>2
  <2>8. Len(waiting') # next' - 1
    <3>1. waiting' = waiting
      BY <1>9
    <3>2. next' = next + 1 /\ Len(waiting) \in Nat /\ Len(waiting) <= next - 1 /\ next \in Nat
      BY <1>1, <1>2, <1>3
    <3>3. Len(waiting) # next' - 1
      BY <3>2
    <3> QED
      BY <3>1, <3>3
  <2>9. LoopInv'
    BY <1>1, <1>3, <2>4, <2>5, <2>6, <2>7, <2>8 DEF LoopInv
  <2>10. NoRepeats(pendingTraps)' /\ NoRepeats(savedTraps)'
    BY <1>1, <1>4
  <2> QED
    BY <1>1, <2>2, <2>3, <2>9, <2>10 DEF Once
<1>10. CASE UNCHANGED sprung /\ waiting' = Append(waiting, t)
  <2>1. /\ waiting' \in Seq(Positions) /\ Len(waiting') = Len(waiting) + 1
        /\ \A k \in 1 .. Len(waiting) : waiting'[k] = waiting[k]
        /\ waiting'[Len(waiting) + 1] = t
        /\ \A n : n \in ToSet(waiting') <=> n \in ToSet(waiting) \/ n = t
        /\ NoRepeats(waiting')
    BY <1>0, <1>2, <1>4, <1>7, <1>10, Appended DEF QueueType, LoopInv
  <2>2. \A n \in Positions : n > Position' => Unseen(n)'
    BY <1>1, <1>4, <1>8, <1>10 DEF Unseen
  <2>3. Apart(waiting)'
    BY <1>4, <1>5, <1>10, <2>1 DEF LoopInv, Apart
  <2>4. ASSUME NEW j \in DOMAIN waiting' PROVE \E k \in 1 .. next' - 1 : waiting'[j] = pendingTraps'[k]
    <3>1. j \in 1 .. Len(waiting) \/ j = Len(waiting) + 1
      BY <1>3, <2>1, <2>4, Listed
    <3>2. CASE j \in 1 .. Len(waiting)
      <4>1. PICK k \in 1 .. next - 1 : waiting[j] = pendingTraps[k]
        BY <1>3, <1>4, <3>2 DEF LoopInv
      <4>2. k \in 1 .. next' - 1
        BY <1>1, <1>2
      <4> QED
        BY <1>1, <2>1, <3>2, <4>1, <4>2
    <3>3. CASE j = Len(waiting) + 1
      <4>1. next \in 1 .. next' - 1 /\ pendingTraps'[next] = t
        BY <1>1, <1>2 DEF t
      <4> QED
        BY <2>1, <3>3, <4>1
    <3> QED
      BY <3>1, <3>2, <3>3
  <2>5. ASSUME NEW k \in 1 .. Len(pendingTraps), k >= next' PROVE sprung'[pendingTraps'[k]] = 0
    <3>1. k >= next
      BY <1>1, <1>2, <2>5
    <3> QED
      BY <1>1, <1>3, <1>4, <1>10, <3>1 DEF LoopInv
  <2>6. Len(waiting') = next' - 1 => Apart(pendingTraps)' /\ Apart(savedTraps)'
    <3>1. Len(waiting') = next' - 1 => Len(waiting) = next - 1
      BY <1>1, <1>2, <1>3, <2>1
    <3>2. Len(waiting) = next - 1 => Apart(pendingTraps) /\ Apart(savedTraps)
      BY <1>4 DEF LoopInv
    <3> QED
      BY <1>1, <1>10, <3>1, <3>2 DEF Apart
  <2>7. LoopInv'
    BY <1>1, <1>3, <2>1, <2>3, <2>4, <2>5, <2>6 DEF LoopInv
  <2>8. NoRepeats(pendingTraps)' /\ NoRepeats(savedTraps)' /\ \A n \in Positions : sprung'[n] <= 1
    BY <1>1, <1>4, <1>10
  <2> QED
    BY <1>1, <2>2, <2>7, <2>8 DEF Once
<1> QED
  BY <1>1, <1>9, <1>10

LEMMA LoopEndOnce == TypeOK /\ ControlInv /\ Once /\ SpringingEnds => Once'
<1> SUFFICES ASSUME TypeOK, ControlInv, Once, SpringingEnds PROVE Once'
  OBVIOUS
<1>0. QueueType /\ Position \in Nat
  BY TypeParts, PositionType
<1>1. /\ step = "springing" /\ next > Len(pendingTraps) /\ step' = "bombs"
      /\ IF Len(waiting) # Len(pendingTraps)
         THEN pendingTraps' = waiting /\ savedTraps' = waiting
         ELSE UNCHANGED <<pendingTraps, savedTraps>>
      /\ UNCHANGED <<recorded, sprung>>
  BY DEF SpringingEnds, SavePreferences, StillWaiting, row
<1>2. /\ NoRepeats(pendingTraps) /\ NoRepeats(savedTraps) /\ LoopInv
      /\ \A n \in Positions : sprung[n] <= 1
      /\ \A n \in Positions : n > Position => Unseen(n)
  BY <1>1 DEF Once
<1>3. Position' = Position
  BY <1>1 DEF Position
<1>4. /\ Len(pendingTraps) \in Nat /\ Len(waiting) \in Nat
      /\ next \in 1 .. Len(pendingTraps) + 1 /\ Len(waiting) <= next - 1
      /\ DOMAIN waiting = 1 .. Len(waiting) /\ DOMAIN pendingTraps = 1 .. Len(pendingTraps)
      /\ \A n : n \in ToSet(waiting) <=> \E j \in 1 .. Len(waiting) : waiting[j] = n
      /\ \A n : n \in ToSet(pendingTraps) <=> \E j \in 1 .. Len(pendingTraps) : pendingTraps[j] = n
  BY <1>0, <1>1, Listed DEF QueueType, ControlInv
<1>5. CASE Len(waiting) # Len(pendingTraps)
  <2>1. pendingTraps' = waiting /\ savedTraps' = waiting
    BY <1>1, <1>5
  <2>2. \A k \in 1 .. next - 1 : k \in 1 .. Len(pendingTraps)
    BY <1>4
  <2>3. \A n \in ToSet(waiting) : n \in ToSet(pendingTraps)
    BY <1>2, <1>4, <2>2 DEF LoopInv
  <2>4. /\ NoRepeats(pendingTraps)' /\ NoRepeats(savedTraps)'
        /\ Apart(pendingTraps)' /\ Apart(savedTraps)'
    BY <1>1, <1>2, <2>1 DEF LoopInv, Apart
  <2>5. \A n \in Positions : n > Position' => Unseen(n)'
    BY <1>1, <1>2, <1>3, <2>1, <2>3 DEF Unseen
  <2> QED
    BY <1>1, <1>2, <2>4, <2>5 DEF Once
<1>6. CASE Len(waiting) = Len(pendingTraps)
  <2>1. UNCHANGED <<pendingTraps, savedTraps, sprung>> /\ Len(waiting) = next - 1
    BY <1>1, <1>4, <1>6
  <2>2. Apart(pendingTraps)' /\ Apart(savedTraps)'
    BY <1>2, <2>1 DEF LoopInv, Apart
  <2>3. NoRepeats(pendingTraps)' /\ NoRepeats(savedTraps)'
    BY <1>2, <2>1
  <2>4. \A n \in Positions : sprung'[n] <= 1 /\ (n > Position' => Unseen(n)')
    BY <1>2, <1>3, <2>1 DEF Unseen
  <2> QED
    BY <1>1, <2>2, <2>3, <2>4 DEF Once
<1> QED
  BY <1>5, <1>6

LEMMA ReceiveOnce == TypeOK /\ ControlInv /\ Once /\ ReceiveTrap => Once'
<1> SUFFICES ASSUME TypeOK, ControlInv, Once, ReceiveTrap PROVE Once'
  OBVIOUS
<1>0. QueueType /\ next \in Positions /\ Position \in Nat /\ next \in Nat
  BY TypeParts, PositionType, Bounds DEF ReceiveTrap, ControlInv, StepType, CountType
<1>1. /\ step = "items" /\ next' = next + 1
      /\ pendingTraps' = Append(pendingTraps, next)
      /\ savedTraps' \in {savedTraps, pendingTraps'}
      /\ UNCHANGED <<step, sprung>>
  BY DEF ReceiveTrap, SavePreferences, row
<1>2. Position = next - 1 /\ Position' = next
  BY <1>0, <1>1 DEF Position
<1>3. /\ Apart(pendingTraps) /\ Apart(savedTraps)
      /\ NoRepeats(pendingTraps) /\ NoRepeats(savedTraps)
      /\ \A n \in Positions : sprung[n] <= 1
      /\ \A n \in Positions : n > Position => Unseen(n)
  BY <1>1 DEF Once
<1>4. Unseen(next)
  BY <1>0, <1>2, <1>3
<1>5. /\ \A n : n \in ToSet(pendingTraps') <=> n \in ToSet(pendingTraps) \/ n = next
      /\ NoRepeats(pendingTraps')
  BY <1>0, <1>1, <1>3, <1>4, Appended DEF QueueType, Unseen
<1>6. Apart(pendingTraps)'
  BY <1>1, <1>3, <1>4, <1>5 DEF Apart, Unseen
<1>7. Apart(savedTraps)'
  BY <1>1, <1>3, <1>6 DEF Apart
<1>8. NoRepeats(savedTraps')
  BY <1>1, <1>3, <1>5
<1>9. ASSUME NEW n \in Positions, n > Position' PROVE Unseen(n)'
  <2>1. n \in Nat /\ n > Position /\ n # next
    BY <1>0, <1>2, <1>9, Bounds
  <2>2. Unseen(n)
    BY <1>3, <2>1
  <2> QED
    BY <1>1, <1>5, <2>1, <2>2 DEF Unseen
<1>10. NoRepeats(pendingTraps)' /\ NoRepeats(savedTraps)'
  BY <1>5, <1>8
<1> QED
  BY <1>1, <1>3, <1>6, <1>7, <1>9, <1>10 DEF Once

LEMMA NextOnce == TypeOK /\ ControlInv /\ OnceInv /\ [Next]_vars => OnceInv'
<1> SUFFICES ASSUME TypeOK, ControlInv, OnceInv, [Next]_vars, ~interrupted' PROVE Once'
  BY DEF OnceInv
<1>0. Position \in Nat /\ recorded \in Nat /\ recorded <= Position /\ next \in Nat /\ last \in Nat
  BY PositionType
<1>1. Position' \in Nat
  <2>1. CountType' /\ ControlInv'
    <3>1. TypeOK' /\ ControlInv'
      BY NextType
    <3> QED
      BY <3>1 DEF TypeOK, CountType
  <2>2. CASE step' = "items"
    <3>1. next' \in Nat /\ recorded' \in Nat /\ recorded' < next'
      BY <2>1, <2>2, Bounds DEF ControlInv, CountType
    <3>2. \A m, n \in Nat : m < n => n - 1 \in Nat
      OBVIOUS
    <3>3. next' - 1 \in Nat
      BY <3>1, <3>2
    <3> QED
      BY <2>2, <3>3 DEF Position
  <2>3. CASE step' # "items"
    <3>1. recorded' \in Nat
      BY <2>1, Bounds DEF CountType
    <3> QED
      BY <2>3, <3>1 DEF Position
  <2> QED
    BY <2>2, <2>3
<1>2. CASE SpringPendingTraps
  BY <1>2, SpringingOnce DEF OnceInv, SpringPendingTraps
<1>3. CASE SpringTrap
  BY <1>3, LoopOnce DEF OnceInv, SpringTrap
<1>4. CASE SpringingEnds
  BY <1>4, LoopEndOnce DEF OnceInv, SpringingEnds
<1>5. CASE ReceiveTrap
  BY <1>5, ReceiveOnce DEF OnceInv, ReceiveTrap
<1>6. CASE UpdateBombRun \/ Poll \/ ItemsReceived
  <2>1. /\ step # "springing" /\ step' # "springing"
        /\ UNCHANGED <<sprung, pendingTraps, savedTraps, interrupted, recorded>>
    BY <1>6 DEF UpdateBombRun, Poll, ItemsReceived, row
  <2>2. Position' = Position
    <3>1. CASE UpdateBombRun \/ Poll
      BY <3>1 DEF Position, UpdateBombRun, Poll
    <3>2. CASE ItemsReceived
      <4>1. step # "items" /\ step' = "items" /\ next' = recorded + 1
        BY <3>2 DEF ItemsReceived
      <4>2. Position' = (recorded + 1) - 1 /\ Position = recorded
        BY <4>1 DEF Position
      <4> QED
        BY <1>0, <4>2
    <3> QED
      BY <1>6, <3>1, <3>2
  <2> QED
    BY <1>0, <2>1, <2>2, OnceFrame DEF OnceInv
<1>7. CASE ApplyWorldBuff
  <2>1. /\ step = "items" /\ next' = next + 1
        /\ savedTraps' \in {savedTraps, pendingTraps}
        /\ UNCHANGED <<step, sprung, pendingTraps, interrupted>>
    BY <1>7 DEF ApplyWorldBuff, SavePreferences, row
  <2>2. Position' >= Position
    BY <1>0, <2>1 DEF Position
  <2> QED
    BY <1>1, <2>1, <2>2, OnceFrame DEF OnceInv
<1>8. CASE ItemsEnd \/ Move
  <2>1. /\ step # "springing" /\ step' = "idle"
        /\ savedTraps' \in {savedTraps, pendingTraps}
        /\ UNCHANGED <<sprung, pendingTraps, interrupted>>
    BY <1>8 DEF ItemsEnd, Move, ApplyPendingWorldBuffs, SavePreferences
  <2>2. Position' = Position
    BY <1>0, <1>8 DEF Position, ItemsEnd, Move, ControlInv
  <2> QED
    BY <1>0, <2>1, <2>2, OnceFrame DEF OnceInv
<1>9. CASE Logout \/ Crash
  <2>1. /\ step' = "idle" /\ pendingTraps' = << >>
        /\ UNCHANGED <<sprung, savedTraps, recorded>>
    BY <1>9 DEF Logout, Crash, Gone, row
  <2>2. step = "idle" /\ ~interrupted
    <3>1. CASE Logout
      BY <3>1 DEF Logout
    <3>2. CASE Crash
      <4>1. interrupted' <=> interrupted \/ step # "idle"
        BY <3>2 DEF Crash
      <4> QED
        BY <4>1
    <3> QED
      BY <1>9, <3>1, <3>2
  <2>3. Position' = Position
    BY <2>1, <2>2 DEF Position
  <2> QED
    BY <1>0, <2>1, <2>2, <2>3, OnceFrame DEF OnceInv
<1>10. CASE Login
  <2>1. /\ step = "idle" /\ step' = "idle" /\ ~interrupted
        /\ pendingTraps' = savedTraps
        /\ UNCHANGED <<sprung, savedTraps, recorded>>
    BY <1>10 DEF Login, row, ControlInv
  <2>2. Position' = Position
    BY <2>1 DEF Position
  <2> QED
    BY <1>0, <2>1, <2>2, OnceFrame DEF OnceInv
<1>11. CASE UNCHANGED vars
  BY <1>11 DEF vars, OnceInv, Once, Position, Unseen, Apart, LoopInv
<1> QED
  BY <1>2, <1>3, <1>4, <1>5, <1>6, <1>7, <1>8, <1>9, <1>10, <1>11 DEF Next

LEMMA OccursOnce ==
    ASSUME NEW s \in Seq(Positions), NoRepeats(s), NEW n
    PROVE  Occurrences(n, s) \in 0 .. 1 /\ (n \notin ToSet(s) => Occurrences(n, s) = 0)
<1> DEFINE K == {k \in DOMAIN s : s[k] = n}
<1>1. Occurrences(n, s) = Cardinality(K)
  BY DEF Occurrences
<1>2. CASE K = {}
  BY <1>1, <1>2, FS_EmptySet
<1>3. CASE K # {}
  <2>1. PICK k \in DOMAIN s : s[k] = n
    BY <1>3
  <2>2. K = {k}
    BY <2>1 DEF NoRepeats
  <2>3. n \in ToSet(s)
    BY <2>1 DEF ToSet
  <2>4. Cardinality(K) = 1
    BY <2>2, FS_Singleton
  <2> QED
    BY <1>1, <2>3, <2>4
<1> QED
  BY <1>2, <1>3

\* No trap springs twice, and what has sprung waits nowhere to spring again,
\* in this login or in another, unless a crash fell into a handler.
THEOREM TrapsAlwaysSpringOnce == Spec => []TrapsSpringOnce
<1>1. Init => TypeOK /\ ControlInv /\ OnceInv
  BY InitType, InitOnce DEF OnceInv
<1>2. (TypeOK /\ ControlInv /\ OnceInv) /\ [Next]_vars => (TypeOK /\ ControlInv /\ OnceInv)'
  BY NextType, NextOnce
<1>3. TypeOK /\ ControlInv /\ OnceInv => TrapsSpringOnce
  <2> SUFFICES ASSUME TypeOK, OnceInv, step = "idle", ~interrupted, NEW n \in DOMAIN sprung
               PROVE  /\ sprung[n] + Occurrences(n, pendingTraps) <= 1
                      /\ sprung[n] + Occurrences(n, savedTraps) <= 1
    BY DEF TrapsSpringOnce
  <2>1. QueueType /\ n \in Positions /\ sprung[n] \in Nat
    BY TypeParts DEF HistoryType
  <2>2. /\ NoRepeats(pendingTraps) /\ NoRepeats(savedTraps) /\ sprung[n] <= 1
        /\ sprung[n] > 0 => n \notin ToSet(pendingTraps) /\ n \notin ToSet(savedTraps)
    BY <2>1 DEF OnceInv, Once, Apart
  <2>3. /\ Occurrences(n, pendingTraps) \in 0 .. 1 /\ Occurrences(n, savedTraps) \in 0 .. 1
        /\ n \notin ToSet(pendingTraps) => Occurrences(n, pendingTraps) = 0
        /\ n \notin ToSet(savedTraps) => Occurrences(n, savedTraps) = 0
    BY <2>1, <2>2, OccursOnce DEF QueueType
  <2>4. CASE sprung[n] = 0
    BY <2>3, <2>4
  <2>5. CASE sprung[n] > 0
    BY <2>1, <2>2, <2>3, <2>5
  <2> QED
    BY <2>1, <2>4, <2>5
<1> QED
  BY <1>1, <1>2, <1>3, PTL DEF Spec

-----------------------------------------------------------------------------
(* World buffs *)

LEMMA BuffsCounted ==
    ASSUME NEW n \in Nat
    PROVE  /\ BuffsUpTo(n) \in Nat /\ BuffsUpTo(0) = 0 /\ BuffsUpTo(n) <= n
           /\ BuffsUpTo(n + 1) = BuffsUpTo(n) + (IF items[n + 1] = "buff" THEN 1 ELSE 0)
<1> DEFINE B(m) == {k \in 1 .. m : items[k] = "buff"}
<1>1. B(0) = {} /\ BuffsUpTo(0) = Cardinality(B(0))
  BY DEF BuffsUpTo
<1>2. IsFiniteSet(1 .. n) /\ B(n) \subseteq 1 .. n /\ Cardinality(1 .. n) = n
  <2>1. 1 \in Int /\ n \in Int
    OBVIOUS
  <2>2. IsFiniteSet(1 .. n) /\ Cardinality(1 .. n) = IF 1 > n THEN 0 ELSE n - 1 + 1
    BY <2>1, FS_Interval
  <2> QED
    BY <2>2
<1>3. IsFiniteSet(B(n)) /\ Cardinality(B(n)) \in Nat /\ Cardinality(B(n)) <= n
  <2> HIDE DEF B
  <2> QED
    BY <1>2, FS_Subset, FS_CardinalityType
<1>4. BuffsUpTo(n) = Cardinality(B(n)) /\ BuffsUpTo(n + 1) = Cardinality(B(n + 1))
  BY DEF BuffsUpTo
<1>5. n + 1 \notin B(n)
  OBVIOUS
<1>6. CASE items[n + 1] = "buff"
  <2>1. B(n + 1) = B(n) \union {n + 1}
    BY <1>6
  <2> HIDE DEF B
  <2>2. Cardinality(B(n) \union {n + 1}) = Cardinality(B(n)) + 1
    BY <1>3, <1>5, FS_AddElement
  <2>3. Cardinality(B(0)) = 0
    BY <1>1, FS_EmptySet
  <2> QED
    BY <1>1, <1>3, <1>4, <1>6, <2>1, <2>2, <2>3
<1>7. CASE items[n + 1] # "buff"
  <2>1. B(n + 1) = B(n)
    BY <1>7
  <2> HIDE DEF B
  <2>2. Cardinality(B(0)) = 0
    BY <1>1, FS_EmptySet
  <2> QED
    BY <1>1, <1>3, <1>4, <1>7, <2>1, <2>2
<1> QED
  BY <1>6, <1>7

LEMMA BuffsSame ==
    ASSUME UNCHANGED items, Position' = Position
    PROVE  BuffsUpTo(Position)' = BuffsUpTo(Position)
  BY DEF BuffsUpTo

\* A save writes what is in memory, and that is what the row has.
LEMMA BuffsFrame ==
    ASSUME BuffsInv, online, UNCHANGED <<items, pendingWorldBuffs, online, interrupted>>, Attempted' = Attempted,
           Position' = Position, savedBuffs' \in {savedBuffs, pendingWorldBuffs}
    PROVE  BuffsInv'
<1>1. savedBuffs' = savedBuffs /\ pendingWorldBuffs = savedBuffs
  BY DEF BuffsInv
<1>2. BuffsUpTo(Position)' = BuffsUpTo(Position)
  BY BuffsSame
<1> QED
  BY <1>1, <1>2 DEF BuffsInv, Accounted

LEMMA AttemptedType == TypeOK => QueueType /\ HistoryType /\ Attempted \in Nat
  BY TypeParts DEF HistoryType, Attempted

LEMMA ReceiveBuffs ==
    MaxItems < 256 /\ TypeOK /\ ControlInv /\ BuffsInv /\ (ReceiveTrap \/ ApplyWorldBuff) => BuffsInv'
<1> SUFFICES ASSUME MaxItems < 256, TypeOK, ControlInv, BuffsInv, ReceiveTrap \/ ApplyWorldBuff
             PROVE  BuffsInv'
  OBVIOUS
<1>0. QueueType /\ HistoryType /\ Attempted \in Nat
  BY AttemptedType
<1>1. /\ step = "items" /\ step' = "items" /\ next' = next + 1
      /\ UNCHANGED <<items, online, interrupted>>
  BY DEF ReceiveTrap, ApplyWorldBuff
<1>2. online /\ pendingWorldBuffs = savedBuffs
  BY <1>1 DEF ControlInv, BuffsInv
<1>3. Position = next - 1 /\ Position \in Nat /\ next \in Nat
  BY <1>1, PositionType
<1>4. Position' = Position + 1 /\ Position + 1 = next
  BY <1>1, <1>3 DEF Position
<1>5. /\ BuffsUpTo(Position)' = BuffsUpTo(Position + 1)
      /\ BuffsUpTo(Position) \in Nat
      /\ BuffsUpTo(Position + 1) = BuffsUpTo(Position) + (IF items[next] = "buff" THEN 1 ELSE 0)
  <2>1. BuffsUpTo(Position)' = BuffsUpTo(next)
    BY <1>1, <1>4 DEF BuffsUpTo
  <2>2. BuffsUpTo(next) = BuffsUpTo(Position + 1)
    BY <1>4
  <2>3. /\ BuffsUpTo(Position) \in Nat
        /\ BuffsUpTo(Position + 1) = BuffsUpTo(Position) + (IF items[Position + 1] = "buff" THEN 1 ELSE 0)
    BY <1>3, BuffsCounted
  <2> QED
    BY <1>4, <2>1, <2>2, <2>3
<1>6. ASSUME Accounted, Attempted' + savedBuffs' = Attempted + savedBuffs + (IF items[next] = "buff" THEN 1 ELSE 0)
      PROVE  Accounted'
  <2>1. Attempted + savedBuffs = BuffsUpTo(Position)
    BY <1>6 DEF Accounted
  <2>2. Attempted' + savedBuffs' = BuffsUpTo(Position + 1)
    BY <1>5, <1>6, <2>1
  <2> QED
    BY <1>5, <2>2 DEF Accounted
<1>7. CASE ReceiveTrap
  <2>1. /\ items[next] # "buff" /\ UNCHANGED <<pendingWorldBuffs, applied, dropped>>
        /\ savedBuffs' \in {savedBuffs, pendingWorldBuffs}
    BY <1>7 DEF ReceiveTrap, SavePreferences, row, TrapKinds
  <2>2. Attempted' = Attempted /\ savedBuffs' = savedBuffs
    BY <1>2, <2>1 DEF Attempted
  <2>3. Attempted' + savedBuffs' = Attempted + savedBuffs + 0
    BY <1>0, <2>2 DEF QueueType
  <2>4. Attempted' + savedBuffs' = Attempted + savedBuffs + (IF items[next] = "buff" THEN 1 ELSE 0)
    BY <2>1, <2>3
  <2> QED
    BY <1>1, <1>2, <1>6, <2>1, <2>2, <2>4 DEF BuffsInv
<1>8. CASE ApplyWorldBuff
  <2>1. items[next] = "buff" /\ next <= last
    BY <1>8 DEF ApplyWorldBuff
  <2>2. \/ /\ pendingWorldBuffs' = (pendingWorldBuffs + 1) % 256 /\ savedBuffs' = pendingWorldBuffs'
           /\ UNCHANGED <<applied, dropped>>
        \/ Tried(1) /\ pendingWorldBuffs' = pendingWorldBuffs /\ savedBuffs' = savedBuffs
    BY <1>8 DEF ApplyWorldBuff, SavePreferences, row
  <2>3. pendingWorldBuffs' = savedBuffs'
    BY <1>2, <2>2
  <2>4. ASSUME Accounted PROVE Attempted' + savedBuffs' = Attempted + savedBuffs + 1
    <3>1. savedBuffs < 255
      <4>1. Attempted + savedBuffs <= Position
        BY <1>3, <2>4, BuffsCounted DEF Accounted
      <4>2. Position < 255
        BY <1>3, <2>1, TypeParts, Bounds DEF StepType, CountType
      <4> QED
        BY <1>0, <1>3, <4>1, <4>2 DEF QueueType
    <3>2. pendingWorldBuffs \in 0 .. 255 /\ savedBuffs \in Nat
      BY <1>0 DEF QueueType
    <3>3. CASE /\ pendingWorldBuffs' = (pendingWorldBuffs + 1) % 256 /\ savedBuffs' = pendingWorldBuffs'
               /\ UNCHANGED <<applied, dropped>>
      <4>1. savedBuffs' = savedBuffs + 1
        BY <1>2, <3>1, <3>2, <3>3, Byte
      <4>2. Attempted' = Attempted
        BY <3>3 DEF Attempted
      <4> QED
        BY <1>0, <3>2, <4>1, <4>2
    <3>4. CASE Tried(1) /\ savedBuffs' = savedBuffs
      <4>1. Attempted' = Attempted + 1
        BY <1>0, <3>4, TriedCounts
      <4> QED
        BY <1>0, <3>2, <3>4, <4>1
    <3> QED
      BY <2>2, <3>3, <3>4
  <2>5. Accounted => Accounted'
    <3>1. SUFFICES ASSUME Accounted PROVE Accounted'
      OBVIOUS
    <3>2. Attempted' + savedBuffs' = Attempted + savedBuffs + (IF items[next] = "buff" THEN 1 ELSE 0)
      BY <2>1, <2>4, <3>1
    <3> QED
      BY <1>6, <3>1, <3>2
  <2> QED
    BY <1>1, <2>3, <2>5 DEF BuffsInv
<1> QED
  BY <1>7, <1>8

LEMMA NextBuffs == MaxItems < 256 /\ TypeOK /\ ControlInv /\ BuffsInv /\ [Next]_vars => BuffsInv'
<1> SUFFICES ASSUME MaxItems < 256, TypeOK, ControlInv, BuffsInv, [Next]_vars PROVE BuffsInv'
  OBVIOUS
<1>0. QueueType /\ HistoryType /\ Attempted \in Nat
  BY AttemptedType
<1>1. Position \in Nat /\ recorded \in Nat /\ next \in Nat /\ last \in Nat
  BY PositionType
<1>2. CASE SpringPendingTraps \/ SpringTrap \/ SpringingEnds
  <2>1. /\ step # "items" /\ step' # "items" /\ online
        /\ Attempted' = Attempted
        /\ UNCHANGED <<items, recorded, pendingWorldBuffs, online, interrupted>>
    BY <1>2 DEF SpringPendingTraps, SpringTrap, SpringingEnds, ControlInv, Attempted
  <2>2. savedBuffs' \in {savedBuffs, pendingWorldBuffs}
    BY <1>2 DEF SpringPendingTraps, SpringTrap, SpringingEnds, SavePreferences, row
  <2>3. Position' = Position
    BY <2>1 DEF Position
  <2> QED
    BY <2>1, <2>2, <2>3, BuffsFrame
<1>3. CASE UpdateBombRun \/ Poll \/ ItemsReceived
  <2>1. /\ online /\ UNCHANGED <<items, pendingWorldBuffs, savedBuffs, online, interrupted>>
        /\ Attempted' = Attempted
    BY <1>3 DEF UpdateBombRun, Poll, ItemsReceived, ControlInv, row, Attempted
  <2>2. Position' = Position
    <3>1. CASE UpdateBombRun \/ Poll
      BY <3>1 DEF Position, UpdateBombRun, Poll
    <3>2. CASE ItemsReceived
      <4>1. step # "items" /\ step' = "items" /\ next' = recorded + 1
        BY <3>2 DEF ItemsReceived
      <4>2. Position' = (recorded + 1) - 1 /\ Position = recorded
        BY <4>1 DEF Position
      <4> QED
        BY <1>1, <4>2
    <3> QED
      BY <1>3, <3>1, <3>2
  <2> QED
    BY <2>1, <2>2, BuffsFrame
<1>4. CASE ReceiveTrap \/ ApplyWorldBuff
  BY <1>4, ReceiveBuffs
<1>5. CASE ItemsEnd \/ Move
  <2>1. online /\ UNCHANGED <<items, online, interrupted>>
    BY <1>5 DEF ItemsEnd, Move, ControlInv
  <2>2. Position' = Position
    BY <1>1, <1>5 DEF Position, ItemsEnd, Move, ControlInv
  <2>3. \/ Tried(pendingWorldBuffs) /\ pendingWorldBuffs' = 0 /\ savedBuffs' = 0
        \/ UNCHANGED <<pendingWorldBuffs, savedBuffs, applied, dropped>>
    BY <1>5 DEF ItemsEnd, Move, ApplyPendingWorldBuffs, SavePreferences, BuffsSaved, buffs
  <2>4. pendingWorldBuffs = savedBuffs /\ pendingWorldBuffs \in Nat
    BY <1>0, <2>1 DEF BuffsInv, QueueType
  <2>5. Attempted' + savedBuffs' = Attempted + savedBuffs /\ pendingWorldBuffs' = savedBuffs'
    <3>1. CASE Tried(pendingWorldBuffs) /\ pendingWorldBuffs' = 0 /\ savedBuffs' = 0
      <4>1. Attempted' = Attempted + pendingWorldBuffs
        BY <1>0, <2>4, <3>1, TriedCounts
      <4> QED
        BY <1>0, <2>4, <3>1, <4>1
    <3>2. CASE UNCHANGED <<pendingWorldBuffs, savedBuffs, applied, dropped>>
      BY <2>4, <3>2 DEF Attempted
    <3> QED
      BY <2>3, <3>1, <3>2
  <2>6. BuffsUpTo(Position)' = BuffsUpTo(Position)
    BY <2>1, <2>2, BuffsSame
  <2> QED
    BY <2>1, <2>5, <2>6 DEF BuffsInv, Accounted
<1>6. CASE Logout \/ Crash
  <2>1. /\ online' = FALSE /\ step' = "idle"
        /\ UNCHANGED <<items, savedBuffs, recorded>> /\ Attempted' = Attempted
    BY <1>6 DEF Logout, Crash, Gone, row, Attempted
  <2>2. ~interrupted' => step = "idle" /\ ~interrupted
    <3>1. CASE Logout
      BY <3>1 DEF Logout
    <3>2. CASE Crash
      <4>1. interrupted' <=> interrupted \/ step # "idle"
        BY <3>2 DEF Crash
      <4> QED
        BY <4>1
    <3> QED
      BY <1>6, <3>1, <3>2
  <2>3. step = "idle" => Position' = Position
    BY <2>1 DEF Position
  <2>4. step = "idle" => BuffsUpTo(Position)' = BuffsUpTo(Position)
    BY <2>1, <2>3, BuffsSame
  <2> QED
    BY <2>1, <2>2, <2>4 DEF BuffsInv, Accounted
<1>7. CASE Login
  <2>1. /\ pendingWorldBuffs' = savedBuffs
        /\ UNCHANGED <<items, savedBuffs, recorded, step, next, interrupted>> /\ Attempted' = Attempted
    BY <1>7 DEF Login, row, handled, Attempted
  <2>2. Position' = Position
    BY <2>1 DEF Position
  <2>3. BuffsUpTo(Position)' = BuffsUpTo(Position)
    BY <2>1, <2>2, BuffsSame
  <2> QED
    BY <2>1, <2>3 DEF BuffsInv, Accounted
<1>8. CASE UNCHANGED vars
  BY <1>8 DEF vars, BuffsInv, Accounted, Attempted, Position, BuffsUpTo
<1> QED
  BY <1>2, <1>3, <1>4, <1>5, <1>6, <1>7, <1>8 DEF Next

\* Every world buff recorded has been tried or waits in the row, once, unless a
\* crash fell into a handler.  The waiting ones are counted in a byte, which up
\* to 255 items cannot overflow.
THEOREM BuffsAlwaysAccounted ==
    ASSUME MaxItems < 256
    PROVE  Spec => []BuffsAreAccounted
<1>1. Init => TypeOK /\ ControlInv /\ BuffsInv
  <2> SUFFICES ASSUME Init PROVE BuffsInv
    BY InitType
  <2>1. /\ online = FALSE /\ Attempted = 0 /\ savedBuffs = 0 /\ Position = 0
    BY DEF Init, Position, Attempted
  <2>2. BuffsUpTo(0) = 0
    BY BuffsCounted
  <2> QED
    BY <2>1, <2>2 DEF BuffsInv, Accounted
<1>2. (TypeOK /\ ControlInv /\ BuffsInv) /\ [Next]_vars => (TypeOK /\ ControlInv /\ BuffsInv)'
  BY NextType, NextBuffs
<1>3. TypeOK /\ ControlInv /\ BuffsInv => BuffsAreAccounted
  BY AttemptedType DEF BuffsInv, Accounted, Attempted, BuffsAreAccounted, Position
<1> QED
  BY <1>1, <1>2, <1>3, PTL DEF Spec

-----------------------------------------------------------------------------
(* Landing *)

LEMMA TeleportDueSame ==
    ASSUME UNCHANGED <<items, player, pendingTraps>>
    PROVE  TeleportDue' <=> TeleportDue
<1>1. FirstTeleport' = FirstTeleport
  BY DEF FirstTeleport, SelectInSeq
<1>2. CanSpring("teleport")' <=> CanSpring("teleport")
  BY DEF CanSpring
<1> QED
  BY <1>1, <1>2 DEF TeleportDue

\* While nothing is being sprung, the hold and the journey are what counts.
LEMMA LandingFrame ==
    ASSUME LandingInv, step' # "springing", UNCHANGED <<player, hold, stood, aboard>>,
           pendingTraps # << >> => pendingTraps' # << >>, known => known'
    PROVE  LandingInv'
  BY DEF LandingInv

LEMMA SpringingLanding == TypeOK /\ LandingInv /\ SpringPendingTraps => LandingInv'
<1> SUFFICES ASSUME TypeOK, LandingInv, SpringPendingTraps PROVE LandingInv'
  OBVIOUS
<1>0. HoldType /\ FlagType /\ Hold \in Nat /\ Hold > 0 /\ hold \in Nat
  <2>1. HoldType /\ FlagType /\ Hold \in Nat /\ Hold > 0
    BY TypeParts, Bounds DEF StepType
  <2> QED
    BY <2>1 DEF HoldType
<1> DEFINE Left(elapsed) == IF hold > elapsed THEN hold - elapsed ELSE 0
           Due == pendingTraps # << >> /\ known
<1>1. PICK elapsed \in {0, 1} :
          /\ stood' = (stood \/ (elapsed = 1 /\ player # "travelling"))
          /\ \/ /\ ~Due
                /\ step' = "bombs" /\ hold' = Left(elapsed)
                /\ UNCHANGED <<player, pendingTraps, aboard>>
             \/ /\ Due /\ player = "travelling"
                /\ step' = "bombs" /\ hold' = Hold
                /\ UNCHANGED <<player, pendingTraps>>
             \/ /\ player # "travelling"
                /\ step' = "bombs" /\ hold' = Left(elapsed)
                /\ UNCHANGED <<player, pendingTraps, aboard>>
             \/ aboard' = {} /\ step' = "bombs"
             \/ /\ player # "travelling" /\ Left(elapsed) = 0 /\ ~TeleportDue
                /\ step' = "springing"
                /\ UNCHANGED <<player, pendingTraps, aboard>>
  BY DEF SpringPendingTraps, HeldOnTheWay
<1>2. known' = known /\ items' = items
  BY DEF SpringPendingTraps
<1>3. stood' <=> stood \/ (elapsed = 1 /\ player # "travelling")
  BY <1>1
<1>4. hold = Hold => Left(elapsed) = Hold \/ elapsed = 1
  BY <1>0, <1>1
<1>5. Left(elapsed) = 0 => hold # Hold \/ elapsed = 1
  BY <1>0, <1>1
<1>6. aboard # {} /\ player = "travelling" => Due
  BY DEF LandingInv
<1>7. aboard # {} /\ player # "travelling" => stood \/ hold = Hold
  BY DEF LandingInv
<1> HIDE DEF Left
<1>8. CASE ~Due /\ step' = "bombs" /\ hold' = Left(elapsed) /\ UNCHANGED <<player, pendingTraps, aboard>>
  BY <1>3, <1>4, <1>6, <1>7, <1>8 DEF LandingInv
<1>9. CASE /\ Due /\ player = "travelling" /\ step' = "bombs" /\ hold' = Hold
           /\ UNCHANGED <<player, pendingTraps>>
  BY <1>2, <1>9 DEF LandingInv
<1>10. CASE /\ player # "travelling" /\ step' = "bombs" /\ hold' = Left(elapsed)
            /\ UNCHANGED <<player, pendingTraps, aboard>>
  BY <1>3, <1>4, <1>7, <1>10 DEF LandingInv
<1>11. CASE aboard' = {} /\ step' = "bombs"
  BY <1>11 DEF LandingInv
<1>12. CASE /\ player # "travelling" /\ Left(elapsed) = 0 /\ ~TeleportDue /\ step' = "springing"
            /\ UNCHANGED <<player, pendingTraps, aboard>>
  <2>1. ~TeleportDue'
    BY <1>2, <1>12, TeleportDueSame
  <2>2. aboard # {} => stood'
    BY <1>3, <1>5, <1>7, <1>12
  <2> QED
    BY <1>12, <2>1, <2>2 DEF LandingInv
<1> QED
  BY <1>1, <1>8, <1>9, <1>10, <1>11, <1>12

LEMMA NextLanding == TypeOK /\ LandingInv /\ [Next]_vars => LandingInv'
<1> SUFFICES ASSUME TypeOK, LandingInv, [Next]_vars PROVE LandingInv'
  OBVIOUS
<1>0. QueueType /\ OfflineType
  BY TypeParts
<1>1. CASE SpringPendingTraps
  BY <1>1, SpringingLanding
<1>2. CASE SpringTrap
  <2>1. UNCHANGED <<items, player, pendingTraps, known, hold, step, aboard, stood>>
    BY <1>2 DEF SpringTrap
  <2> QED
    BY <2>1, TeleportDueSame DEF LandingInv
<1>3. CASE SpringingEnds
  <2>1. step = "springing" /\ step' = "bombs" /\ UNCHANGED <<player, hold, aboard, stood>>
    BY <1>3 DEF SpringingEnds
  <2> QED
    BY <2>1 DEF LandingInv
<1>4. CASE UpdateBombRun
  <2>1. /\ step' = "poll" /\ UNCHANGED <<pendingTraps, known, hold, aboard, stood>>
        /\ UNCHANGED player \/ (player # "travelling" /\ player' = "dead")
    BY <1>4 DEF UpdateBombRun
  <2> QED
    BY <2>1 DEF LandingInv
<1>5. CASE Poll \/ ItemsReceived \/ ApplyWorldBuff \/ ItemsEnd
  <2>1. step' # "springing" /\ UNCHANGED <<pendingTraps, player, hold, stood, aboard>>
    BY <1>5 DEF Poll, ItemsReceived, ApplyWorldBuff, ItemsEnd
  <2>2. known => known'
    BY <1>5 DEF Poll, ItemsReceived, ApplyWorldBuff, ItemsEnd
  <2> QED
    BY <2>1, <2>2, LandingFrame
<1>6. CASE ReceiveTrap
  <2>1. /\ step' # "springing" /\ UNCHANGED <<player, hold, stood, aboard, known>>
        /\ pendingTraps' = Append(pendingTraps, next) /\ next \in Nat
    BY <1>6, TypeParts DEF ReceiveTrap, StepType, CountType
  <2>2. pendingTraps' # << >>
    <3>1. /\ pendingTraps \in Seq(Nat)
          /\ Len(pendingTraps) \in Nat
      <4>1. \A n \in Positions : n \in Nat
        BY Bounds
      <4>2. pendingTraps \in Seq(Positions)
        BY <1>0 DEF QueueType
      <4> QED
        BY <4>1, <4>2
    <3>2. Len(pendingTraps') = Len(pendingTraps) + 1
      BY <2>1, <3>1, Appended
    <3>3. Len(pendingTraps') # 0
      BY <3>1, <3>2
    <3> QED
      BY <3>3, Nothing
  <2> QED
    BY <2>1, <2>2, LandingFrame
<1>7. CASE Move
  <2>1. /\ step' = "idle" /\ UNCHANGED <<pendingTraps, known, hold>>
        /\ aboard' = IF player' = "travelling" THEN {} ELSE aboard
    BY <1>7 DEF Move
  <2>2. stood' <=> stood /\ player # "travelling"
    BY <1>7 DEF Move
  <2> QED
    BY <2>1, <2>2 DEF LandingInv
<1>8. CASE Logout \/ Crash
  <2>1. step' = "idle" /\ aboard' = {}
    BY <1>8 DEF Logout, Crash, Gone
  <2> QED
    BY <2>1 DEF LandingInv
<1>9. CASE Login
  <2>1. /\ ~online /\ UNCHANGED <<player, hold, stood, aboard, step>>
    BY <1>9 DEF Login
  <2>2. ~known /\ step = "idle"
    BY <1>0, <2>1 DEF OfflineType
  <2> QED
    BY <2>1, <2>2 DEF LandingInv
<1>10. CASE UNCHANGED vars
  BY <1>10, TeleportDueSame DEF vars, LandingInv
<1> QED
  BY <1>1, <1>2, <1>3, <1>4, <1>5, <1>6, <1>7, <1>8, <1>9, <1>10 DEF Next

LEMMA SpringingAwaits ==
    ASSUME TypeOK, ControlInv, LandingInv, [Next]_vars,
           NEW n \in DOMAIN sprung, sprung'[n] > sprung[n], items[n] # "teleport"
    PROVE  (n \in aboard => stood) /\ ~TeleportDue
<1>1. n \in Positions /\ sprung[n] \in Nat /\ HistoryType
  BY TypeParts DEF HistoryType
<1>2. sprung' # sprung
  BY <1>1
<1>3. CASE SpringPendingTraps
  <2>1. ~UNCHANGED <<pendingTraps, row, sprung>>
    BY <1>2
  <2> DEFINE t == pendingTraps[FirstTeleport]
  <2>2. t \in Positions /\ items[t] = "teleport" /\ sprung' = [sprung EXCEPT ![t] = @ + 1]
    BY <1>3, <2>1, TeleportSprings
  <2> HIDE DEF t
  <2>3. n # t => sprung'[n] = sprung[n]
    BY <1>1, <2>2, SprungOnce
  <2> QED
    BY <1>1, <2>2, <2>3
<1>4. CASE SpringTrap
  BY <1>4 DEF SpringTrap, LandingInv
<1>5. CASE \/ SpringingEnds \/ UpdateBombRun \/ Poll \/ ItemsReceived \/ ReceiveTrap \/ ApplyWorldBuff
           \/ ItemsEnd \/ Move \/ Logout \/ Crash \/ Login
  BY <1>2, <1>5
     DEF SpringingEnds, UpdateBombRun, Poll, ItemsReceived, ReceiveTrap, ApplyWorldBuff, ItemsEnd, Move,
         Logout, Crash, Gone, Login
<1>6. CASE UNCHANGED vars
  BY <1>2, <1>6 DEF vars
<1> QED
  BY <1>3, <1>4, <1>5, <1>6 DEF Next

\* What waited on a journey springs only once the character has stood at the
\* destination, and nothing springs ahead of a Teleport Trap that is due.
THEOREM LandingAlwaysAwaited == Spec => TrapsAwaitLanding
<1>1. Init => TypeOK /\ ControlInv /\ LandingInv
  <2>1. Init => LandingInv
    BY DEF Init, LandingInv
  <2> QED
    BY <2>1, InitType
<1>2. (TypeOK /\ ControlInv /\ LandingInv) /\ [Next]_vars => (TypeOK /\ ControlInv /\ LandingInv)'
  BY NextType, NextLanding
<1>3. (TypeOK /\ ControlInv /\ LandingInv) /\ [Next]_vars =>
          [\A n \in DOMAIN sprung : sprung'[n] > sprung[n] /\ items[n] # "teleport" =>
                /\ n \in aboard => stood
                /\ ~TeleportDue]_vars
  BY SpringingAwaits
<1> QED
  BY <1>1, <1>2, <1>3, PTL DEF Spec, TrapsAwaitLanding
=============================================================================
