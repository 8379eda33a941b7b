--------------------------- MODULE GearPoolProofs ---------------------------
(***************************************************************************)
(* Proofs about the armor types that module GearPool allows and the pieces *)
(* it draws from: for any number of types, taught in any order, any pool,  *)
(* any level cap and any window.                                           *)
(***************************************************************************)
EXTENDS GearPool, FiniteSetTheorems, TLAPS

Top == Cardinality(ArmorTypes)
Trainings == {Untrained, 0} \union Levels

\* The arguments of Roll
ArgumentsInv ==
    /\ pool \subseteq Pieces
    /\ training \in [ArmorTypes -> Trainings]
    /\ level \in Levels /\ window \in Nat /\ cap \in Nat
    /\ all \in BOOLEAN

\* One of the types allowed so far can be worn now.
Wearable == \E t \in mask : training[t] <= level

\* A type taught before the run ends that can be worn now
Due(t) == training[t] \in 0 .. ceiling - 1 /\ training[t] <= level

\* What has been looked at has been allowed for: a type that can be worn is
\* only passed over for a heavier one, kept, that can be worn too.
WearInv ==
    /\ \A t \in ArmorTypes : t > tier /\ Due(t) => Wearable
    /\ last # None /\ last <= level => Wearable
    /\ ~all /\ step # "mask" => tier = 0

-----------------------------------------------------------------------------
(* The constants *)

LEMMA TopType == Top \in Nat /\ ArmorTypes = 1 .. Top
  BY GearAssumption, FS_CardinalityType DEF Top

LEMMA LevelsType == Levels \subseteq Int /\ \A t \in Trainings : t \in Int
  BY GearAssumption DEF Levels, Trainings, Untrained

LEMMA CeilingType == ASSUME cap \in Nat PROVE ceiling \in Nat \ {0}
  BY GearAssumption DEF ceiling

LEMMA TrainingType ==
    ASSUME ArgumentsInv, NEW t \in ArmorTypes
    PROVE  training[t] \in Int /\ training[t] \in Trainings
  BY LevelsType DEF ArgumentsInv

-----------------------------------------------------------------------------
(* Types *)

LEMMA InitArguments == Init => ArgumentsInv
<1> SUFFICES ASSUME Init PROVE ArgumentsInv
  OBVIOUS
<1>1. pool \subseteq Pieces
  BY DEF Init
<1>2. window \in Nat /\ cap \in Nat
  BY GearAssumption DEF Init
<1>3. training \in [ArmorTypes -> Trainings] /\ level \in Levels /\ all \in BOOLEAN
  BY DEF Init, Trainings
<1> QED
  BY <1>1, <1>2, <1>3 DEF ArgumentsInv

LEMMA NextArguments == ArgumentsInv /\ [Next]_vars => ArgumentsInv'
<1> SUFFICES ASSUME ArgumentsInv, [Next]_vars PROVE ArgumentsInv'
  OBVIOUS
<1>1. UNCHANGED arguments
  BY DEF Next, vars, arguments, AllowTier, MaskDone, Widen, Found, Above
<1> QED
  BY <1>1 DEF ArgumentsInv, arguments

LEMMA InitType == Init => TypeOK
<1> SUFFICES ASSUME Init PROVE TypeOK
  OBVIOUS
<1> USE InitArguments, TopType DEF Init
<1>1. pool \subseteq Pieces /\ matches \subseteq pool
  OBVIOUS
<1>2. tier \in ArmorTypes \union {0}
  BY DEF Top
<1>3. last \in {None, 0} \union Levels /\ step \in {"mask", "window", "above", "drawn"}
  OBVIOUS
<1>4. mask \subseteq ArmorTypes /\ (~all => mask = {})
  OBVIOUS
<1>5. playerLevel \in Int
  BY LevelsType, CeilingType DEF playerLevel, ArgumentsInv
<1>6. low \in Int /\ high \in Int
  BY <1>5 DEF ArgumentsInv
<1> QED
  BY <1>1, <1>2, <1>3, <1>4, <1>6 DEF TypeOK

LEMMA BetweenType == \A from, to \in Int : Between(from, to) \subseteq pool
  BY DEF Between

LEMMA NextType == TypeOK /\ ArgumentsInv /\ [Next]_vars => TypeOK'
<1> SUFFICES ASSUME TypeOK, ArgumentsInv, [Next]_vars PROVE TypeOK'
  OBVIOUS
<1>1. CASE AllowTier
  <2>1. tier \in ArmorTypes /\ tier - 1 \in ArmorTypes \union {0}
    BY <1>1, TopType DEF AllowTier, TypeOK
  <2>2. CASE IsStep
    <3>1. last' = training[tier] /\ tier' \in {0, tier - 1} /\ mask' \in {mask, mask \union {tier}}
      BY <1>1, <2>2 DEF AllowTier
    <3>2. last' \in {None, 0} \union Levels
      BY <2>1, <2>2, <3>1, TrainingType DEF IsStep, Trainings
    <3>3. mask' \subseteq ArmorTypes
      BY <2>1, <3>1 DEF TypeOK
    <3>4. ~all => \A t \in mask' : training[t] # Untrained
      BY <2>2, <3>1 DEF IsStep, TypeOK
    <3>5. UNCHANGED <<arguments, step, low, high, matches>>
      BY <1>1 DEF AllowTier
    <3> QED
      BY <2>1, <3>1, <3>2, <3>3, <3>4, <3>5 DEF TypeOK, arguments
  <2>3. CASE ~IsStep
    <3>1. tier' = tier - 1 /\ UNCHANGED <<arguments, last, mask, step, low, high, matches>>
      BY <1>1, <2>3 DEF AllowTier, arguments
    <3> QED
      BY <2>1, <3>1 DEF TypeOK, arguments
  <2> QED
    BY <2>2, <2>3
<1>2. CASE MaskDone
  BY <1>2 DEF MaskDone, TypeOK, arguments
<1>3. CASE Widen
  <2>1. low' \in Int /\ high' \in Int
    BY <1>3, GearAssumption DEF Widen, TypeOK
  <2> QED
    BY <1>3, <2>1 DEF Widen, TypeOK, arguments
<1>4. CASE Found
  <2>1. high' \in Int
    BY <1>4, CeilingType DEF Found, TypeOK, ArgumentsInv
  <2>2. matches' \subseteq pool
    BY <1>4 DEF Found, InWindow, Between
  <2>3. step' \in {"above", "drawn"}
    BY <1>4 DEF Found
  <2> QED
    BY <1>4, <2>1, <2>2, <2>3 DEF Found, TypeOK, arguments
<1>5. CASE Above
  <2>1. high' \in Int
    BY <1>5 DEF Above, TypeOK
  <2>2. matches' \subseteq pool
    BY <1>5 DEF Above, Between
  <2>3. step' \in {"above", "drawn"}
    BY <1>5 DEF Above
  <2> QED
    BY <1>5, <2>1, <2>2, <2>3 DEF Above, TypeOK, arguments
<1>6. CASE UNCHANGED vars
  BY <1>6 DEF vars, TypeOK
<1> QED
  BY <1>1, <1>2, <1>3, <1>4, <1>5, <1>6 DEF Next

\* The variables keep their types and the mask holds taught types only.
THEOREM TypeCorrect == Spec => []TypeOK
<1>1. Init => TypeOK /\ ArgumentsInv
  BY InitType, InitArguments
<1>2. (TypeOK /\ ArgumentsInv) /\ [Next]_vars => (TypeOK /\ ArgumentsInv)'
  BY NextType, NextArguments
<1> QED
  BY <1>1, <1>2, PTL DEF Spec

-----------------------------------------------------------------------------
(* Something to wear *)

LEMMA InitWear == Init => WearInv
<1> SUFFICES ASSUME Init PROVE WearInv
  OBVIOUS
<1>1. tier = Top /\ last = None /\ (~all => step = "mask")
  BY DEF Init, Top
<1>2. \A t \in ArmorTypes : ~(t > tier)
  BY <1>1, TopType
<1> QED
  BY <1>1, <1>2 DEF WearInv

\* The decision on one type
LEMMA TierWear ==
    ASSUME TypeOK, ArgumentsInv, WearInv, AllowTier
    PROVE  WearInv'
<1>1. tier \in ArmorTypes /\ tier \in Nat /\ step' = "mask"
  BY TopType DEF AllowTier, TypeOK
<1>2. UNCHANGED <<training, level, window, cap, all>>
  BY DEF AllowTier, arguments
<1>3. level \in Int /\ window \in Nat /\ training[tier] \in Int /\ ceiling \in Int
  BY <1>1, LevelsType, TrainingType, CeilingType DEF ArgumentsInv
<1>4. \A t \in ArmorTypes : Due(t)' <=> Due(t)
  BY <1>2 DEF Due, ceiling
<1>5. mask \subseteq mask' /\ (Wearable => Wearable')
  BY <1>2 DEF AllowTier, Wearable
<1>6. CASE ~IsStep
  <2>1. tier' = tier - 1 /\ UNCHANGED <<last, mask>>
    BY <1>6 DEF AllowTier
  <2>2. Due(tier) => Wearable
    <3> SUFFICES ASSUME Due(tier) PROVE Wearable
      OBVIOUS
    <3>1. training[tier] >= 0 /\ training[tier] < ceiling /\ training[tier] <= level
      BY <1>3 DEF Due
    <3>2. last # None /\ ~(training[tier] < last)
      BY <1>6, <3>1 DEF IsStep, IsStepUntaught, Untrained
    <3>3. last \in Int
      BY LevelsType DEF TypeOK, None
    <3>4. last <= level
      BY <1>3, <3>1, <3>2, <3>3
    <3> QED
      BY <3>2, <3>4 DEF WearInv
  <2>3. ASSUME NEW t \in ArmorTypes, t > tier', Due(t) PROVE Wearable
    <3>1. t = tier \/ t > tier
      BY <1>1, <2>1, <2>3, TopType
    <3> QED
      BY <2>2, <2>3, <3>1 DEF WearInv
  <2> QED
    BY <1>1, <1>2, <1>4, <1>5, <2>1, <2>3 DEF WearInv
<1>7. CASE IsStep
  <2>1. last' = training[tier] /\ mask' = IF InReach THEN mask \union {tier} ELSE mask
    BY <1>7 DEF AllowTier
  <2>2. training[tier] <= level => Wearable'
    <3> SUFFICES ASSUME training[tier] <= level PROVE Wearable'
      OBVIOUS
    <3>1. InReach
      BY <1>3 DEF InReach
    <3> QED
      BY <1>2, <2>1, <3>1 DEF Wearable
  <2>3. CASE Outgrown
    <3>1. training[tier] <= level
      BY <1>3, <2>3 DEF Outgrown
    <3> QED
      BY <1>1, <2>2, <3>1 DEF WearInv
  <2>4. CASE ~Outgrown
    <3>1. tier' = tier - 1
      BY <1>7, <2>4 DEF AllowTier
    <3>2. ASSUME NEW t \in ArmorTypes, t > tier', Due(t) PROVE Wearable'
      <4>1. t = tier \/ t > tier
        BY <1>1, <3>1, <3>2, TopType
      <4>2. CASE t = tier
        BY <2>2, <3>2, <4>2 DEF Due
      <4>3. CASE t > tier
        BY <1>5, <3>2, <4>3 DEF WearInv
      <4> QED
        BY <4>1, <4>2, <4>3
    <3> QED
      BY <1>1, <1>2, <1>4, <2>1, <2>2, <3>2 DEF WearInv
  <2> QED
    BY <2>3, <2>4
<1> QED
  BY <1>6, <1>7

LEMMA NextWear == TypeOK /\ ArgumentsInv /\ WearInv /\ [Next]_vars => WearInv'
<1> SUFFICES ASSUME TypeOK, ArgumentsInv, WearInv, [Next]_vars PROVE WearInv'
  OBVIOUS
<1>1. CASE AllowTier
  BY <1>1, TierWear
<1>2. CASE MaskDone
  BY <1>2 DEF MaskDone, WearInv, Wearable, Due, ceiling, arguments
<1>3. CASE Widen \/ Found \/ Above
  <2>1. UNCHANGED <<arguments, tier, last, mask>> /\ step # "mask"
    BY <1>3 DEF Widen, Found, Above
  <2> QED
    BY <2>1 DEF WearInv, Wearable, Due, ceiling, arguments
<1>4. CASE UNCHANGED vars
  BY <1>4 DEF vars, WearInv, Wearable, Due, ceiling
<1> QED
  BY <1>1, <1>2, <1>3, <1>4 DEF Next

LEMMA WearImplies == TypeOK /\ WearInv => AlwaysSomethingToWear
<1> SUFFICES ASSUME TypeOK, WearInv, step # "mask", ~all,
                    NEW t \in ArmorTypes, training[t] \in 0 .. ceiling - 1, training[t] <= level
             PROVE  \E u \in mask : training[u] <= level
  BY DEF AlwaysSomethingToWear
<1>1. tier = 0 /\ t > tier
  BY TopType DEF WearInv
<1> QED
  BY <1>1 DEF WearInv, Wearable, Due

\* A character that is taught a type it can wear before the run ends is always
\* allowed one that it can wear.
THEOREM SomethingToWear == Spec => []AlwaysSomethingToWear
<1>1. Init => TypeOK /\ ArgumentsInv /\ WearInv
  BY InitType, InitArguments, InitWear
<1>2. (TypeOK /\ ArgumentsInv /\ WearInv) /\ [Next]_vars => (TypeOK /\ ArgumentsInv /\ WearInv)'
  BY NextType, NextArguments, NextWear
<1>3. TypeOK /\ ArgumentsInv /\ WearInv => AlwaysSomethingToWear
  BY WearImplies
<1> QED
  BY <1>1, <1>2, <1>3, PTL DEF Spec

-----------------------------------------------------------------------------
(* The draw *)

Enough(d) == Cardinality(Within(d)) >= MinCandidates
Under == Between(1, ceiling)
Capped == Between(ceiling + 1, MaxLevel)
Over == {p \in Capped : \A q \in Capped : p.level <= q.level}

\* The window is at one of its distances, and none before had enough; behind
\* the cap nothing has been found below the level looked at.
DrawInv ==
    /\ step = "mask" => low = playerLevel - window /\ high = playerLevel + window
    /\ step = "window" => \E d \in Distances :
          /\ low = playerLevel - d /\ high = playerLevel + d
          /\ \A e \in Distances : e < d => ~Enough(e)
    /\ step = "above" =>
          /\ \A d \in Distances : ~Enough(d)
          /\ Under = {}
          /\ high >= ceiling /\ Between(ceiling + 1, high) = {}
    /\ DrawIsRight

LEMMA LevelFacts ==
    ASSUME ArgumentsInv
    PROVE  /\ MaxLevel \in Nat /\ ceiling \in 1 .. MaxLevel /\ playerLevel \in 1 .. ceiling
           /\ \A p \in pool : p.level \in 2 .. MaxLevel
<1>1. MaxLevel \in Nat \ {0} /\ level \in 1 .. MaxLevel /\ cap \in Nat
  BY GearAssumption DEF ArgumentsInv, Levels
<1>2. ceiling \in 1 .. MaxLevel
  BY <1>1 DEF ceiling
<1>3. playerLevel \in 1 .. ceiling
  BY <1>1, <1>2 DEF playerLevel
<1>4. \A p \in Pieces : p.level \in Levels \ {1}
  BY DEF Pieces
<1>5. \A p \in pool : p.level \in 2 .. MaxLevel
  BY <1>1, <1>4 DEF ArgumentsInv, Levels
<1> QED
  BY <1>1, <1>2, <1>3, <1>5

\* The distances are numbers a step apart, and go as far as the levels do.
LEMMA DistanceSteps ==
    ASSUME ArgumentsInv, NEW d \in Distances
    PROVE  /\ d \in Nat /\ d + WidenStep \in Nat /\ d < d + WidenStep
           /\ \A e \in Distances : e < d + WidenStep => e <= d
           /\ d < MaxLevel => d + WidenStep \in Distances
<1>1. WidenStep \in Nat \ {0} /\ MaxLevel \in Nat /\ window \in Nat
  BY GearAssumption DEF ArgumentsInv
<1>2. PICK j \in 0 .. MaxLevel : d = window + j * WidenStep
  BY DEF Distances
<1>3. \A k \in Nat : k * WidenStep \in Nat
  BY <1>1
<1>4. d \in Nat /\ d + WidenStep \in Nat /\ d < d + WidenStep
  BY <1>1, <1>2, <1>3
<1>5. ASSUME NEW e \in Distances, e < d + WidenStep PROVE e <= d
  <2>1. PICK k \in 0 .. MaxLevel : e = window + k * WidenStep
    BY DEF Distances
  <2>2. j \in Int /\ k \in Int /\ (j + 1) * WidenStep = j * WidenStep + WidenStep
    BY <1>1
  <2>3. k * WidenStep < (j + 1) * WidenStep
    BY <1>1, <1>2, <1>3, <1>5, <2>1, <2>2
  <2>4. k <= j
    <3> SUFFICES ASSUME j + 1 <= k PROVE FALSE
      BY <2>2
    <3>1. PICK m \in Nat : k = (j + 1) + m
      BY <2>2
    <3>2. k * WidenStep = (j + 1) * WidenStep + m * WidenStep
      BY <1>1, <2>2, <3>1
    <3> QED
      BY <1>1, <1>3, <2>2, <2>3, <3>2
  <2>5. PICK m \in Nat : j = k + m
    BY <2>2, <2>4
  <2>6. j * WidenStep = k * WidenStep + m * WidenStep
    BY <1>1, <2>2, <2>5
  <2> QED
    BY <1>1, <1>2, <1>3, <2>1, <2>5, <2>6
<1>6. ASSUME d < MaxLevel PROVE d + WidenStep \in Distances
  <2>1. PICK w \in Nat : WidenStep = w + 1
    BY <1>1
  <2>2. j \in Nat /\ j * WidenStep = j * w + j /\ j * w \in Nat
    BY <1>1, <2>1
  <2>3. j < MaxLevel
    BY <1>1, <1>2, <1>6, <2>2
  <2>4. j + 1 \in 0 .. MaxLevel /\ (j + 1) * WidenStep = j * WidenStep + WidenStep
    BY <1>1, <2>2, <2>3
  <2>5. d + WidenStep = window + (j + 1) * WidenStep
    BY <1>1, <1>2, <1>3, <2>2, <2>4
  <2> QED
    BY <2>4, <2>5 DEF Distances
<1> QED
  BY <1>4, <1>5, <1>6

\* A window that reaches both ends holds every piece under the cap.
LEMMA WholeWindow ==
    ASSUME ArgumentsInv, NEW d \in Nat, playerLevel - d <= 1, playerLevel + d >= ceiling
    PROVE  Within(d) = Under
<1> USE LevelFacts
<1>1. Within(d) = Between(playerLevel - d, ceiling)
  <2>1. (IF playerLevel + d < ceiling THEN playerLevel + d ELSE ceiling) = ceiling
    OBVIOUS
  <2> QED
    BY <2>1 DEF Within
<1>2. \A p \in pool : playerLevel - d <= p.level /\ 1 <= p.level
  OBVIOUS
<1> QED
  BY <1>1, <1>2 DEF Between, Under

\* What the draw should be from, in the two cases
LEMMA DrawnNear ==
    ASSUME ArgumentsInv, NEW d \in Distances, Enough(d),
           \A e \in Distances : e < d => ~Enough(e)
    PROVE  DrawnFrom = Within(d)
<1> DEFINE enough == {e \in Distances : Cardinality(Within(e)) >= MinCandidates}
<1>1. \A e \in enough : e \in Nat /\ d <= e
  BY DistanceSteps DEF Enough
<1>2. d \in enough /\ \A e \in enough : d <= e
  BY <1>1 DEF Enough
<1> DEFINE chosen == CHOOSE e \in enough : \A f \in enough : e <= f
<1>3. chosen \in enough /\ \A f \in enough : chosen <= f
  BY <1>2
<1>4. chosen = d
  <2> HIDE DEF chosen, enough
  <2> QED
    BY <1>1, <1>2, <1>3
<1>5. DrawnFrom = Within(chosen)
  BY <1>2 DEF DrawnFrom
<1> QED
  BY <1>4, <1>5

LEMMA DrawnFar ==
    ASSUME \A d \in Distances : ~Enough(d)
    PROVE  DrawnFrom = IF Under # {} THEN Under ELSE Over
<1>1. {d \in Distances : Cardinality(Within(d)) >= MinCandidates} = {}
  BY DEF Enough
<1> QED
  BY <1>1 DEF DrawnFrom, Under, Over, Capped

\* The loops of Roll change none of what the draw is defined by.
LEMMA DrawnKept ==
    ASSUME UNCHANGED <<arguments, mask>>
    PROVE  /\ ceiling' = ceiling /\ playerLevel' = playerLevel /\ Distances' = Distances
           /\ \A from, to : Between(from, to)' = Between(from, to)
           /\ \A d : (Within(d)' = Within(d)) /\ (Enough(d)' <=> Enough(d))
           /\ DrawnFrom' = DrawnFrom
<1>1. UNCHANGED <<pool, training, level, window, cap, all, mask>>
  BY DEF arguments
<1>2. ceiling' = ceiling
  BY <1>1 DEF ceiling
<1>3. playerLevel' = playerLevel /\ Distances' = Distances
  BY <1>1, <1>2 DEF playerLevel, Distances
<1>4. \A from, to : Between(from, to)' = Between(from, to)
  BY <1>1 DEF Between, Fits
<1>5. \A d : Within(d)' = Within(d)
  BY <1>1, <1>2, <1>3 DEF Within, Between, Fits
<1>6. \A d : Enough(d)' <=> Enough(d)
  BY <1>5 DEF Enough
<1>7. DrawnFrom' = DrawnFrom
  BY <1>1, <1>2, <1>3, <1>4, <1>5 DEF DrawnFrom, Within, Between, Fits, Distances
<1> QED
  BY <1>2, <1>3, <1>4, <1>5, <1>6, <1>7

LEMMA InitDraw == Init => DrawInv
<1> SUFFICES ASSUME Init PROVE DrawInv
  OBVIOUS
<1>1. ArgumentsInv
  BY InitArguments
<1>2. low = playerLevel - window /\ high = playerLevel + window /\ step \in {"mask", "window"}
  BY DEF Init
<1>3. window \in Distances /\ \A e \in Distances : ~(e < window)
  <2>1. WidenStep \in Nat /\ MaxLevel \in Nat /\ window \in Nat
    BY <1>1, GearAssumption DEF ArgumentsInv
  <2>2. window = window + 0 * WidenStep
    BY <2>1
  <2>3. window \in Distances
    BY <2>1, <2>2 DEF Distances
  <2>4. \A k \in 0 .. MaxLevel : k * WidenStep \in Nat
    BY <2>1
  <2> QED
    BY <2>1, <2>3, <2>4 DEF Distances
<1> QED
  BY <1>2, <1>3 DEF DrawInv, DrawIsRight

\* The mask is done: the first distance is the window itself.
LEMMA MaskDraw ==
    ASSUME TypeOK, ArgumentsInv, DrawInv, AllowTier \/ MaskDone
    PROVE  DrawInv'
<1>1. /\ step = "mask" /\ step' \in {"mask", "window"}
      /\ UNCHANGED <<pool, training, level, window, cap, all, low, high>>
  BY DEF AllowTier, MaskDone, arguments
<1>2. low' = playerLevel' - window' /\ high' = playerLevel' + window'
  BY <1>1 DEF DrawInv, playerLevel, ceiling
<1>3. window' \in Distances' /\ \A e \in Distances' : ~(e < window')
  <2>1. WidenStep \in Nat /\ MaxLevel \in Nat /\ window \in Nat
    BY GearAssumption DEF ArgumentsInv
  <2>2. window = window + 0 * WidenStep
    BY <2>1
  <2>3. window \in Distances
    BY <2>1, <2>2 DEF Distances
  <2>4. \A k \in 0 .. MaxLevel : k * WidenStep \in Nat
    BY <2>1
  <2>5. window \in Distances /\ \A e \in Distances : ~(e < window)
    BY <2>1, <2>3, <2>4 DEF Distances
  <2> QED
    BY <1>1, <2>5 DEF Distances
<1> QED
  BY <1>1, <1>2, <1>3 DEF DrawInv, DrawIsRight

LEMMA WidenDraw ==
    ASSUME TypeOK, ArgumentsInv, DrawInv, Widen
    PROVE  DrawInv'
<1>1. /\ step = "window" /\ step' = "window" /\ ~WindowDone
      /\ low' = low - WidenStep /\ high' = high + WidenStep
      /\ UNCHANGED <<arguments, mask>>
  BY DEF Widen
<1>2. PICK d \in Distances : /\ low = playerLevel - d /\ high = playerLevel + d
                             /\ \A e \in Distances : e < d => ~Enough(e)
  BY <1>1 DEF DrawInv
<1>3. MaxLevel \in Nat /\ ceiling \in 1 .. MaxLevel /\ playerLevel \in 1 .. ceiling
  BY LevelFacts
<1>4. d \in Nat /\ WidenStep \in Nat /\ \A e \in Distances : e < d + WidenStep => e <= d
  BY DistanceSteps, GearAssumption
<1>5. d < MaxLevel
  BY <1>1, <1>2, <1>3, <1>4 DEF WindowDone
<1>6. d + WidenStep \in Distances
  BY <1>5, DistanceSteps
<1>7. ~Enough(d)
  BY <1>1, <1>2 DEF WindowDone, InWindow, Enough, Within
<1>8. ASSUME NEW e \in Distances, e < d + WidenStep PROVE ~Enough(e)
  <2>1. e \in Nat /\ e <= d
    BY <1>4, <1>8, DistanceSteps
  <2> QED
    BY <1>2, <1>4, <1>7, <2>1
<1>9. low' = playerLevel' - (d + WidenStep) /\ high' = playerLevel' + (d + WidenStep)
  <2>1. playerLevel' = playerLevel
    BY <1>1, DrawnKept
  <2> QED
    BY <1>1, <1>2, <1>3, <1>4, <2>1
<1>10. Distances' = Distances /\ \A e : Enough(e)' <=> Enough(e)
  BY <1>1, DrawnKept
<1> QED
  BY <1>1, <1>6, <1>8, <1>9, <1>10 DEF DrawInv, DrawIsRight

LEMMA FoundDraw ==
    ASSUME TypeOK, ArgumentsInv, DrawInv, Found
    PROVE  DrawInv'
<1>1. /\ step = "window" /\ WindowDone
      /\ matches' = InWindow
      /\ step' = IF InWindow = {} THEN "above" ELSE "drawn"
      /\ high' = IF InWindow = {} THEN ceiling ELSE high
      /\ UNCHANGED <<arguments, mask>>
  BY DEF Found
<1>2. PICK d \in Distances : /\ low = playerLevel - d /\ high = playerLevel + d
                             /\ \A e \in Distances : e < d => ~Enough(e)
  BY <1>1 DEF DrawInv
<1>3. MaxLevel \in Nat /\ ceiling \in 1 .. MaxLevel /\ playerLevel \in 1 .. ceiling
  BY LevelFacts
<1>4. d \in Nat
  BY DistanceSteps
<1>5. InWindow = Within(d)
  BY <1>2 DEF InWindow, Within
<1>6. /\ DrawnFrom' = DrawnFrom /\ ceiling' = ceiling /\ Distances' = Distances
      /\ \A e : Enough(e)' <=> Enough(e)
      /\ \A from, to : Between(from, to)' = Between(from, to)
  BY <1>1, DrawnKept
<1>7. CASE Enough(d)
  <2>1. InWindow # {}
    <3>1. Cardinality({}) = 0 /\ MinCandidates \in Nat \ {0}
      BY FS_EmptySet, GearAssumption
    <3> QED
      BY <1>5, <1>7, <3>1 DEF Enough
  <2>2. DrawnFrom = Within(d)
    BY <1>2, <1>7, DrawnNear
  <2>3. step' = "drawn" /\ matches' = DrawnFrom'
    BY <1>1, <1>5, <1>6, <2>1, <2>2
  <2> QED
    BY <2>3 DEF DrawInv, DrawIsRight
<1>8. CASE ~Enough(d)
  <2>1. playerLevel - d <= 1 /\ playerLevel + d >= ceiling
    BY <1>1, <1>2, <1>5, <1>8 DEF WindowDone, Enough
  <2>2. Within(d) = Under
    BY <1>4, <2>1, WholeWindow
  <2>3. ASSUME NEW e \in Distances PROVE ~Enough(e)
    <3>1. e \in Nat
      BY DistanceSteps
    <3>2. CASE e < d
      BY <1>2, <3>2
    <3>3. CASE d <= e
      <4>1. playerLevel - e <= 1 /\ playerLevel + e >= ceiling
        BY <1>3, <1>4, <2>1, <3>1, <3>3
      <4>2. Within(e) = Within(d)
        BY <2>2, <3>1, <4>1, WholeWindow
      <4> QED
        BY <1>8, <4>2 DEF Enough
    <3> QED
      BY <1>4, <3>1, <3>2, <3>3
  <2>4. DrawnFrom = IF Under # {} THEN Under ELSE Over
    BY <2>3, DrawnFar
  <2>5. CASE Under # {}
    <3>1. step' = "drawn" /\ matches' = DrawnFrom'
      BY <1>1, <1>5, <1>6, <2>2, <2>4, <2>5
    <3> QED
      BY <3>1 DEF DrawInv, DrawIsRight
  <2>6. CASE Under = {}
    <3>1. step' = "above" /\ high' = ceiling
      BY <1>1, <1>5, <2>2, <2>6
    <3>2. \A e \in Distances' : ~Enough(e)'
      BY <1>6, <2>3
    <3>3. Under' = {}
      BY <1>6, <2>6 DEF Under
    <3>4. Between(ceiling + 1, ceiling) = {}
      BY <1>3, LevelFacts DEF Between
    <3>5. high' >= ceiling' /\ Between(ceiling + 1, high)' = {}
      BY <1>3, <1>6, <3>1, <3>4
    <3> QED
      BY <3>1, <3>2, <3>3, <3>5 DEF DrawInv, DrawIsRight
  <2> QED
    BY <2>5, <2>6
<1> QED
  BY <1>7, <1>8

LEMMA AboveDraw ==
    ASSUME TypeOK, ArgumentsInv, DrawInv, Above
    PROVE  DrawInv'
<1>1. /\ step = "above" /\ high' = high + 1
      /\ matches' = Between(high + 1, high + 1)
      /\ step' = IF matches' # {} \/ high + 1 >= MaxLevel THEN "drawn" ELSE "above"
      /\ UNCHANGED <<arguments, mask>>
  BY DEF Above
<1>2. /\ \A d \in Distances : ~Enough(d)
      /\ Under = {}
      /\ high >= ceiling /\ Between(ceiling + 1, high) = {}
  BY <1>1 DEF DrawInv
<1>3. /\ MaxLevel \in Nat /\ ceiling \in 1 .. MaxLevel /\ high \in Int
      /\ \A p \in pool : p.level \in 2 .. MaxLevel
  BY LevelFacts DEF TypeOK
<1>4. /\ DrawnFrom' = DrawnFrom /\ ceiling' = ceiling /\ Distances' = Distances
      /\ \A e : Enough(e)' <=> Enough(e)
      /\ \A from, to : Between(from, to)' = Between(from, to)
  BY <1>1, DrawnKept
<1>5. DrawnFrom = Over
  BY <1>2, DrawnFar
<1>6. \A p \in Capped : p.level >= high + 1
  BY <1>2, <1>3 DEF Capped, Between
<1>7. Between(high + 1, high + 1) = {p \in Capped : p.level = high + 1}
  BY <1>2, <1>3 DEF Capped, Between
<1>8. CASE matches' # {}
  <2>1. PICK r \in Capped : r.level = high + 1
    BY <1>1, <1>7, <1>8
  <2>2. \A p \in Capped : p.level \in Int
    BY <1>3 DEF Capped, Between
  <2>3. Over = {p \in Capped : p.level = high + 1}
    BY <1>3, <1>6, <2>1, <2>2 DEF Over
  <2>4. step' = "drawn" /\ matches' = DrawnFrom'
    BY <1>1, <1>4, <1>5, <1>7, <1>8, <2>3
  <2> QED
    BY <2>4 DEF DrawInv, DrawIsRight
<1>9. CASE matches' = {} /\ high + 1 >= MaxLevel
  <2>1. \A p \in Capped : p.level = high + 1
    BY <1>3, <1>6, <1>9 DEF Capped, Between
  <2>2. Capped = {}
    BY <1>1, <1>7, <1>9, <2>1
  <2>3. step' = "drawn" /\ matches' = DrawnFrom'
    BY <1>1, <1>4, <1>5, <1>9, <2>2 DEF Over
  <2> QED
    BY <2>3 DEF DrawInv, DrawIsRight
<1>10. CASE matches' = {} /\ ~(high + 1 >= MaxLevel)
  <2>1. step' = "above"
    BY <1>1, <1>10
  <2>2. \A p \in pool : ~(ceiling + 1 <= p.level /\ p.level <= high + 1 /\ Fits(p))
    BY <1>1, <1>2, <1>3, <1>10 DEF Between
  <2>3. Between(ceiling + 1, high + 1) = {}
    BY <2>2 DEF Between
  <2>4. high' >= ceiling' /\ Between(ceiling + 1, high)' = {}
    BY <1>1, <1>2, <1>3, <1>4, <2>3
  <2>5. Under' = {} /\ \A e \in Distances' : ~Enough(e)'
    BY <1>2, <1>4 DEF Under
  <2> QED
    BY <2>1, <2>4, <2>5 DEF DrawInv, DrawIsRight
<1> QED
  BY <1>8, <1>9, <1>10

LEMMA NextDraw == TypeOK /\ ArgumentsInv /\ DrawInv /\ [Next]_vars => DrawInv'
<1> SUFFICES ASSUME TypeOK, ArgumentsInv, DrawInv, [Next]_vars PROVE DrawInv'
  OBVIOUS
<1>1. CASE AllowTier \/ MaskDone
  BY <1>1, MaskDraw
<1>2. CASE Widen
  BY <1>2, WidenDraw
<1>3. CASE Found
  BY <1>3, FoundDraw
<1>4. CASE Above
  BY <1>4, AboveDraw
<1>5. CASE UNCHANGED vars
  <2>1. UNCHANGED <<arguments, mask, step, low, high, matches>>
    BY <1>5 DEF vars, arguments
  <2>2. /\ DrawnFrom' = DrawnFrom /\ ceiling' = ceiling /\ Distances' = Distances
        /\ playerLevel' = playerLevel /\ window' = window
        /\ \A e : Enough(e)' <=> Enough(e)
        /\ \A from, to : Between(from, to)' = Between(from, to)
    BY <2>1, DrawnKept DEF arguments
  <2>3. Under' = Under
    BY <2>2 DEF Under
  <2>4. Between(ceiling + 1, high)' = Between(ceiling + 1, high)
    BY <2>1, <2>2
  <2> QED
    BY <2>1, <2>2, <2>3, <2>4 DEF DrawInv, DrawIsRight
<1> QED
  BY <1>1, <1>2, <1>3, <1>4, <1>5 DEF Next

\* Roll draws from the pieces nearest to the character's level, as far away as
\* it takes to choose between enough of them, from above the run's cap only
\* where nothing under it fits: for every pool and every window.
THEOREM DrawAlwaysRight == Spec => []DrawIsRight
<1>1. Init => TypeOK /\ ArgumentsInv /\ DrawInv
  BY InitType, InitArguments, InitDraw
<1>2. (TypeOK /\ ArgumentsInv /\ DrawInv) /\ [Next]_vars => (TypeOK /\ ArgumentsInv /\ DrawInv)'
  BY NextType, NextArguments, NextDraw
<1>3. DrawInv => DrawIsRight
  BY DEF DrawInv
<1> QED
  BY <1>1, <1>2, <1>3, PTL DEF Spec
=============================================================================
