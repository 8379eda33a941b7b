------------------------------ MODULE GearPool ------------------------------
(***************************************************************************)
(* How GearPool::Roll draws a piece of gear: the armor types it allows,    *)
(* decided from the heaviest down, the level window that is widened until  *)
(* it holds enough, the levels above the run's cap as a last resort.       *)
(*                                                                         *)
(* One category and quality: the pool holds the pieces that the other      *)
(* filters (class, race, faction, held-in-off-hand) let through.           *)
(***************************************************************************)
EXTENDS Integers, FiniteSets

CONSTANTS
    MaxLevel,       \* the server's level cap, the `maxLevel` of GearPool
    ArmorTypes,     \* 1 is the lightest of ARMOR_TIERS
    WidenStep,      \* LEVEL_WINDOW_WIDEN_STEP
    MinCandidates,  \* LEVEL_WINDOW_MIN_CANDIDATES
    MaxPieces,      \* bound on the pieces in the pool
    MaxWindow       \* bound on gear_reward_level_window

ASSUME GearAssumption ==
    /\ {MaxLevel, WidenStep, MinCandidates} \subseteq Nat \ {0}
    /\ {MaxPieces, MaxWindow} \subseteq Nat
    /\ IsFiniteSet(ArmorTypes) /\ ArmorTypes = 1 .. Cardinality(ArmorTypes)

Levels == 1 .. MaxLevel
Cloak == 0          \* a type apart: needs no proficiency
Untrained == -1     \* the class is never taught the type
\* Build keeps no piece that asks for level 1 or less
Pieces == [level : Levels \ {1}, type : ArmorTypes \union {Cloak}]

VARIABLES
    \* the arguments of Roll and the tables it reads, all constant
    pool,       \* the pieces of `buckets`
    training,   \* TrainingLevel of each armor type, Untrained without the skill
    level,      \* player->GetLevel()
    window,     \* levelWindow
    cap,        \* goalMaxLevel, 0 before the slot data
    all,        \* allArmorTypes
    \* AllowedArmorMask
    tier,       \* the type looked at next
    last,       \* lastTraining, None while no type has been kept
    mask,
    \* Roll
    step,       \* "mask", "window", "above" or "drawn"
    low, high,
    matches

arguments == <<pool, training, level, window, cap, all>>
vars == <<pool, training, level, window, cap, all, tier, last, mask, step, low, high, matches>>

None == -1

ceiling == IF cap > 0 /\ cap < MaxLevel THEN cap ELSE MaxLevel
playerLevel == IF level < ceiling THEN level ELSE ceiling

Init ==
    /\ pool \in {p \in SUBSET Pieces : Cardinality(p) <= MaxPieces}
    /\ training \in [ArmorTypes -> {Untrained, 0} \union Levels]
    /\ level \in Levels /\ window \in 0 .. MaxWindow /\ cap \in 0 .. MaxLevel
    /\ all \in BOOLEAN
    /\ tier = Cardinality(ArmorTypes) /\ last = None
    /\ mask = IF all THEN ArmorTypes ELSE {}
    /\ step = IF all THEN "window" ELSE "mask"
    /\ low = playerLevel - window /\ high = playerLevel + window
    /\ matches = {}

\* The variables keep their types, and the mask only holds types taught to the
\* class, unless all of them are asked for.
TypeOK ==
    /\ pool \subseteq Pieces /\ matches \subseteq pool
    /\ tier \in ArmorTypes \union {0}
    /\ last \in {None, 0} \union Levels
    /\ mask \subseteq ArmorTypes
    /\ step \in {"mask", "window", "above", "drawn"}
    /\ low \in Int /\ high \in Int
    /\ ~all => \A t \in mask : training[t] # Untrained

-----------------------------------------------------------------------------
(* AllowedArmorMask                                                        *)

\* Taught to the class, before the last type kept and before the run ends
IsStepUntaught == (last # None => training[tier] < last) /\ training[tier] < ceiling
IsStep == training[tier] # Untrained /\ IsStepUntaught

InReach == level + window >= training[tier]

\* A type the character is established in, which outgrows the lighter ones
OutgrownInReach == InReach
Outgrown == level > training[tier] + window

AllowTier ==
    /\ step = "mask" /\ tier > 0
    /\ IF IsStep
       THEN /\ last' = training[tier]
            /\ mask' = IF InReach THEN mask \union {tier} ELSE mask
            /\ tier' = IF Outgrown THEN 0 ELSE tier - 1
       ELSE tier' = tier - 1 /\ UNCHANGED <<last, mask>>
    /\ UNCHANGED <<arguments, step, low, high, matches>>

MaskDone ==
    /\ step = "mask" /\ tier = 0
    /\ step' = "window"
    /\ UNCHANGED <<arguments, tier, last, mask, low, high, matches>>

-----------------------------------------------------------------------------
(* Roll                                                                    *)

\* IsUsableBy and MatchesArmorMask
Fits(piece) ==
    \/ piece.type = Cloak
    \/ /\ training[piece.type] # Untrained
       /\ piece.level >= training[piece.type]
       /\ piece.type \in mask

Between(from, to) == {p \in pool : from <= p.level /\ p.level <= to /\ Fits(p)}

\* What the window finds, cut at the run's cap
InWindowUncut == Between(low, high)
InWindow == Between(low, IF high < ceiling THEN high ELSE ceiling)

WindowDone == Cardinality(InWindow) >= MinCandidates \/ (low <= 1 /\ high >= ceiling)

Widen ==
    /\ step = "window" /\ ~WindowDone
    /\ low' = low - WidenStep /\ high' = high + WidenStep
    /\ UNCHANGED <<arguments, tier, last, mask, step, matches>>

Found ==
    /\ step = "window" /\ WindowDone
    /\ matches' = InWindow
    /\ step' = IF InWindow = {} THEN "above" ELSE "drawn"
    /\ high' = IF InWindow = {} THEN ceiling ELSE high
    /\ UNCHANGED <<arguments, tier, last, mask, low>>

\* The levels above the cap, one by one, until one holds something
Above ==
    /\ step = "above"
    /\ high' = high + 1
    /\ matches' = Between(high + 1, high + 1)
    /\ step' = IF matches' # {} \/ high + 1 >= MaxLevel THEN "drawn" ELSE "above"
    /\ UNCHANGED <<arguments, tier, last, mask, low>>

Next == AllowTier \/ MaskDone \/ Widen \/ Found \/ Above

Spec == Init /\ [][Next]_vars

-----------------------------------------------------------------------------
(* Properties                                                              *)

\* Narrowing by armor type never takes everything from a character: of the
\* types it is taught before the run ends, one it can wear now is allowed,
\* whatever the window and the order in which the types are taught.
AlwaysSomethingToWear ==
    step # "mask" /\ ~all =>
        ((\E t \in ArmorTypes : training[t] \in 0 .. ceiling - 1 /\ training[t] <= level) =>
            \E t \in mask : training[t] <= level)

\* The pieces within a distance of the character's level, and under the cap
Within(d) == Between(playerLevel - d, IF playerLevel + d < ceiling THEN playerLevel + d ELSE ceiling)

Distances == {window + k * WidenStep : k \in 0 .. MaxLevel}

\* What a draw is made from, said without a loop: the first distance, of those
\* the window goes through, with enough to choose between; every piece under
\* the cap if none has enough; and only where nothing under the cap fits, the
\* nearest level above it.
DrawnFrom ==
    LET enough == {d \in Distances : Cardinality(Within(d)) >= MinCandidates}
        under == Between(1, ceiling)
        over == {p \in Between(ceiling + 1, MaxLevel) :
                    \A q \in Between(ceiling + 1, MaxLevel) : p.level <= q.level}
    IN  IF enough # {} THEN Within(CHOOSE d \in enough : \A e \in enough : d <= e)
        ELSE IF under # {} THEN under ELSE over

\* Roll draws from that set.
DrawIsRight == step = "drawn" => matches = DrawnFrom
=============================================================================
